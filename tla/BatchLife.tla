----------------------------- MODULE BatchLife -----------------------------
(***************************************************************************)
(* What the core contract promises about ONE batch of withdrawals, to the  *)
(* holders of its vouchers: the batch collects unbondings while it is      *)
(* open; once its undelegation is requested its amounts are fixed; once    *)
(* the funds mature, what is paid out for it is fixed, at most what the    *)
(* vouchers expect; it is paid out at most once, and called withdrawn only *)
(* after that.                                                             *)
(*                                                                         *)
(* One clause is a promise the holders would rather not have: an open      *)
(* batch may be reopened empty (see Core, RequestUnbonding of a failed     *)
(* batch).                                                                 *)
(*                                                                         *)
(* Module Core implements this specification for every batch.              *)
(***************************************************************************)
EXTENDS Integers

CONSTANT NoAmount     \* no payout decided

VARIABLES
  status,     \* of the batch
  items,      \* the number of unbondings collected
  total,      \* the liquid tokens unbonded
  expected,   \* what the vouchers expect
  release,    \* when the funds mature
  unbonded,   \* what is paid out, or NoAmount
  paid        \* how often the remote chain has paid it out

amounts == <<items, total, expected>>
vars == <<status, amounts, release, unbonded, paid>>

Empty == items = 0 /\ total = 0 /\ expected = 0

Init ==
  /\ status \in {"Absent", "New"}
  /\ Empty
  /\ release = 0 /\ unbonded = NoAmount /\ paid = 0

(* from one status to another, leaving what the vouchers say alone *)
Move(from, to) ==
  /\ status \in from
  /\ status' = to
  /\ UNCHANGED amounts

Open ==
  /\ status \in {"Absent", "New"}
  /\ status' = "New"
  /\ Empty'
  /\ UNCHANGED <<release, unbonded, paid>>

Collect ==
  /\ status = "New"
  /\ items' = items + 1
  /\ total' > total
  /\ expected' >= expected
  /\ UNCHANGED <<status, release, unbonded, paid>>

Request ==
  /\ items > 0
  /\ Move({"New", "UnbondFailed"}, "UnbondRequested")
  /\ UNCHANGED <<release, unbonded, paid>>

Fail ==
  /\ Move({"UnbondRequested"}, "UnbondFailed")
  /\ UNCHANGED <<release, unbonded, paid>>

Mature ==
  /\ Move({"UnbondRequested"}, "Unbonding")
  /\ release' > 0
  /\ UNCHANGED <<unbonded, paid>>

Release ==
  /\ Move({"Unbonding"}, "Withdrawing")
  /\ unbonded' \in 0..expected
  /\ UNCHANGED <<release, paid>>

ReleaseEmergency ==
  /\ Move({"Unbonding"}, "WithdrawingEmergency")
  /\ unbonded' = NoAmount
  /\ UNCHANGED <<release, paid>>

Pay ==
  /\ status \in {"Withdrawing", "WithdrawingEmergency"}
  /\ paid = 0
  /\ paid' = 1
  /\ UNCHANGED <<status, amounts, release, unbonded>>

Settle ==
  /\ paid = 1
  /\ \/ Move({"Withdrawing"}, "Withdrawn")
     \/ Move({"WithdrawingEmergency"}, "WithdrawnEmergency")
  /\ UNCHANGED <<release, unbonded, paid>>

Next ==
  \/ Open \/ Collect \/ Request \/ Fail \/ Mature
  \/ Release \/ ReleaseEmergency \/ Pay \/ Settle

Spec == Init /\ [][Next]_vars

=============================================================================
