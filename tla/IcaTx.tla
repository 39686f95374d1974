------------------------------- MODULE IcaTx -------------------------------
(***************************************************************************)
(* What the puppeteer promises to the contract that drives it, seen from   *)
(* that contract: a register for ONE remote transaction.  A transaction is *)
(* accepted only while the register is empty, the remote chain performs it *)
(* at most once, a success is reported only for a transaction that was     *)
(* performed and a failure only for one that was not, and the register is  *)
(* emptied by exactly one answer.                                          *)
(*                                                                         *)
(* An answer is handed over by a call back into the driving contract, in   *)
(* the same transaction that empties the register.  If that call fails,    *)
(* the emptying is reverted with it while the IBC packet is used up: the   *)
(* register then stays full for ever (stage "lost").                       *)
(*                                                                         *)
(* Module Puppeteer is the contract, and implements this specification;    *)
(* module Core is the contract that drives it, composed with it.           *)
(***************************************************************************)

CONSTANTS
  Tx,     \* the remote transactions
  NoTx    \* the empty register, not in Tx

VARIABLES
  tx,     \* the outstanding transaction, or NoTx
  stage   \* how far it has come

vars == <<tx, stage>>

Stages == {"idle", "sent", "executed", "lost"}

TypeOK ==
  /\ tx \in Tx \cup {NoTx}
  /\ stage \in Stages
  /\ (tx = NoTx) <=> (stage = "idle")

Init ==
  /\ tx = NoTx
  /\ stage = "idle"

(* execute_*: refused unless the register is empty *)
Send(t) ==
  /\ stage = "idle"
  /\ tx' = t
  /\ stage' = "sent"

(* the remote chain performs the transaction *)
RemoteExecute ==
  /\ stage = "sent"
  /\ stage' = "executed"
  /\ UNCHANGED tx

(* sudo_response (ok), or sudo_error and sudo_timeout (not ok) *)
Answer(ok) ==
  /\ stage = IF ok THEN "executed" ELSE "sent"
  /\ tx' = NoTx
  /\ stage' = "idle"

(* the same callbacks, reverted because the driving contract refused the answer *)
Lose(ok) ==
  /\ stage = IF ok THEN "executed" ELSE "sent"
  /\ stage' = "lost"
  /\ UNCHANGED tx

Next ==
  \/ \E t \in Tx : Send(t)
  \/ RemoteExecute
  \/ \E ok \in BOOLEAN : Answer(ok) \/ Lose(ok)

Spec == Init /\ [][Next]_vars

=============================================================================
