-------------------------- MODULE PuppeteerProofs --------------------------
(***************************************************************************)
(* Proofs about the puppeteer contract, for any clients and transactions.  *)
(* The argument: the register of the contract is full exactly while one    *)
(* packet is under way (or for ever, after a refused answer), sequence     *)
(* numbers are never used twice, and the account's channel can only be     *)
(* closed by the packet that is under way.                                 *)
(***************************************************************************)
EXTENDS Puppeteer, TLAPS

(* Every sequence number in use was given out, once. *)
SeqsAreFresh ==
  /\ \A p \in packets : p.seq < nextSeq
  /\ \A a \in answers : a.seq < nextSeq
  /\ \A p \in packets, a \in answers : a.seq # p.seq

(* Only a refused answer leaves a registered account without its channel, and
   then the register stays full. *)
ClosedOnlyIfLost ==
  (ica = "Registered" /\ channel # "open") => (TxWaiting /\ packets = {})

(* an empty register holds no transaction *)
IdleIsEmpty == TxIdle => txState.tx = NoTx

IInv ==
  /\ TypeOK
  /\ IdleIsEmpty
  /\ AnswerMatches
  /\ SeqsAreFresh
  /\ ClosedOnlyIfLost
  /\ AnswersAreTrue

-----------------------------------------------------------------------------

(* Status has two values. *)
LEMMA IdleOrWaiting ==
  ASSUME TypeOK
  PROVE  TxIdle <=> ~TxWaiting
  BY DEF TypeOK, TxStates, TxIdle, TxWaiting

(* The initial state satisfies the inductive invariant. *)
LEMMA InitIInv ==
  ASSUME Init
  PROVE  IInv
<1> USE PuppeteerAssumption DEF Init, IdleTxState
<1>1. TypeOK
  <2>1. 0 \in Seq0 /\ nextSeq \in 1..(MaxSeq + 1)
    BY DEF Seq0
  <2>2. IdleTxState \in TxStates
    BY <2>1 DEF TxStates
  <2> QED BY <2>1, <2>2 DEF TypeOK, IcaStates, ChannelStates
<1>2. IdleIsEmpty /\ AnswerMatches /\ SeqsAreFresh /\ ClosedOnlyIfLost /\ AnswersAreTrue
  BY DEF IdleIsEmpty, AnswerMatches, SeqsAreFresh, ClosedOnlyIfLost, AnswersAreTrue
<1> QED BY <1>1, <1>2 DEF IInv

(* What the callbacks that reach a hook have in common: the one packet under way
   is answered and the register emptied. *)
LEMMA ReplyKeeps ==
  ASSUME IInv, NEW p \in packets, NEW ok \in BOOLEAN, Reply(p, ok),
         ok <=> (p.result = "executed")
  PROVE  /\ txState' \in TxStates
         /\ packets' = {}
         /\ answers' \subseteq Answers
         /\ nextSeq' \in 1..(MaxSeq + 1)
         /\ feesSet' \in BOOLEAN
         /\ IdleIsEmpty'
         /\ AnswerMatches'
         /\ SeqsAreFresh'
         /\ AnswersAreTrue'
<1> USE PuppeteerAssumption DEF IInv, Reply
<1> DEFINE new == [seq |-> p.seq, to |-> txState.replyTo, tx |-> txState.tx, ok |-> ok,
                   sentBy |-> p.from, sentTx |-> p.tx, result |-> p.result]
<1>1. packets = {p} /\ packets' = {}
  BY DEF AnswerMatches
<1>2. p \in Packets /\ txState \in TxStates
  BY DEF TypeOK
<1>3. new \in Answers
  BY <1>2 DEF Packets, TxStates, Answers
<1>4. answers' = answers \cup {new} /\ nextSeq' = nextSeq
  OBVIOUS
<1>5. txState' \in TxStates
  BY DEF IdleTxState, TxStates, Seq0
<1>6. answers' \subseteq Answers /\ nextSeq' \in 1..(MaxSeq + 1) /\ feesSet' \in BOOLEAN
  BY <1>3, <1>4 DEF TypeOK
<1>7. IdleIsEmpty' /\ AnswerMatches'
  BY <1>1 DEF IdleIsEmpty, AnswerMatches, IdleTxState
<1>8. SeqsAreFresh'
  <2>1. new.seq < nextSeq
    BY DEF SeqsAreFresh
  <2> QED BY <2>1, <1>1, <1>4 DEF SeqsAreFresh
<1>9. AnswersAreTrue'
  <2>1. new.to = new.sentBy /\ new.tx = new.sentTx /\ (new.ok <=> (new.result = "executed"))
    BY DEF AnswerMatches
  <2>2. \A a \in answers : a.seq # new.seq
    BY DEF SeqsAreFresh
  <2> QED BY <2>1, <2>2, <1>4 DEF AnswersAreTrue
<1> QED BY <1>1, <1>5, <1>6, <1>7, <1>8, <1>9

(* Every step preserves the inductive invariant. *)
LEMMA NextIInv ==
  ASSUME IInv, [Next]_vars
  PROVE  IInv'
<1> USE PuppeteerAssumption
<1> DEFINE Env == <<txState, packets, nextSeq, answers>>
<1>A. ASSUME UNCHANGED Env, ica' \in IcaStates, feesSet' \in BOOLEAN,
             channel' \in ChannelStates, ClosedOnlyIfLost'
      PROVE  IInv'
  <2>1. TypeOK'
    BY <1>A DEF IInv, TypeOK
  <2>2. IdleIsEmpty' /\ AnswerMatches' /\ SeqsAreFresh' /\ AnswersAreTrue'
    BY <1>A DEF IInv, IdleIsEmpty, AnswerMatches, SeqsAreFresh, AnswersAreTrue, TxIdle, TxWaiting
  <2> QED BY <1>A, <2>1, <2>2 DEF IInv
<1>1. CASE SetFees
  BY <1>1, <1>A DEF SetFees, IInv, TypeOK, ClosedOnlyIfLost, TxWaiting
<1>2. CASE RegisterICA
  BY <1>2, <1>A DEF RegisterICA, IInv, TypeOK, ClosedOnlyIfLost, IcaStates, ChannelStates
<1>3. CASE OpenAck
  BY <1>3, <1>A DEF OpenAck, IInv, TypeOK, ClosedOnlyIfLost, IcaStates, ChannelStates
<1>4. ASSUME NEW client \in Client, NEW t \in Tx, Execute(client, t)
      PROVE  IInv'
  <2> DEFINE new == [seq |-> nextSeq, tx |-> t, from |-> client, result |-> "sent"]
  <2> USE <1>4 DEF Execute, Sent
  <2>1. packets = {} /\ packets' = {new}
    BY DEF IInv, AnswerMatches, TxIdle, TxWaiting
  <2>2. nextSeq \in Seq0 /\ nextSeq' \in 1..(MaxSeq + 1)
    BY DEF IInv, TypeOK, Seq0
  <2>3. TypeOK'
    <3>1. new \in Packets /\ txState' \in TxStates
      BY <2>2 DEF Packets, TxStates, PacketResults
    <3> QED BY <3>1, <2>1, <2>2 DEF IInv, TypeOK
  <2>4. IdleIsEmpty' /\ AnswerMatches'
    BY <2>1 DEF IdleIsEmpty, AnswerMatches, TxIdle, TxWaiting
  <2>5. SeqsAreFresh'
    <3>1. \A a \in answers : a.seq \in Int /\ a.seq < nextSeq
      BY DEF IInv, TypeOK, Answers, Seq0, SeqsAreFresh
    <3>2. answers' = answers /\ nextSeq' = nextSeq + 1 /\ new.seq = nextSeq /\ nextSeq \in Int
      BY <2>2 DEF Seq0
    <3> QED BY <3>1, <3>2, <2>1 DEF SeqsAreFresh
  <2>6. ClosedOnlyIfLost'
    BY DEF IInv, ClosedOnlyIfLost, TxIdle, TxWaiting
  <2>7. AnswersAreTrue'
    BY DEF IInv, AnswersAreTrue
  <2> QED BY <2>3, <2>4, <2>5, <2>6, <2>7 DEF IInv
<1>5. ASSUME NEW p \in packets, NEW result \in {"executed", "refused"}, RemoteReceive(p, result)
      PROVE  IInv'
  <2> DEFINE new == [p EXCEPT !.result = result]
  <2> USE <1>5 DEF RemoteReceive
  <2>1. packets = {p} /\ packets' = {new}
    BY DEF IInv, AnswerMatches
  <2>2. p \in Packets
    BY DEF IInv, TypeOK
  <2>3. new \in Packets /\ new.seq = p.seq /\ new.tx = p.tx /\ new.from = p.from
    BY <2>2 DEF Packets, PacketResults
  <2>4. TypeOK'
    BY <2>1, <2>3 DEF IInv, TypeOK
  <2>5. IdleIsEmpty' /\ AnswerMatches'
    BY <2>1, <2>3 DEF IInv, IdleIsEmpty, AnswerMatches, TxIdle, TxWaiting
  <2>6. SeqsAreFresh'
    BY <2>1, <2>3 DEF IInv, SeqsAreFresh
  <2>7. ClosedOnlyIfLost' /\ AnswersAreTrue'
    BY DEF IInv, ClosedOnlyIfLost, AnswersAreTrue, TxWaiting
  <2> QED BY <2>4, <2>5, <2>6, <2>7 DEF IInv
<1>6. ASSUME NEW p \in packets, SudoResponse(p)
      PROVE  IInv'
  <2> USE <1>6 DEF SudoResponse
  <2>1. ClosedOnlyIfLost'
    BY DEF IInv, ClosedOnlyIfLost
  <2> QED BY <2>1, ReplyKeeps DEF IInv, TypeOK, Packets
<1>7. ASSUME NEW p \in packets, SudoError(p)
      PROVE  IInv'
  <2> USE <1>7 DEF SudoError
  <2>1. ClosedOnlyIfLost'
    BY DEF IInv, ClosedOnlyIfLost
  <2> QED BY <2>1, ReplyKeeps DEF IInv, TypeOK, Packets
<1>8. ASSUME NEW p \in packets, SudoTimeout(p)
      PROVE  IInv'
  <2> USE <1>8 DEF SudoTimeout, IcaAfterTimeout, ChannelAfterTimeout
  <2>1. ClosedOnlyIfLost'
    BY DEF ClosedOnlyIfLost
  <2>2. ica' \in IcaStates /\ channel' \in ChannelStates
    BY DEF IInv, TypeOK, IcaStates, ChannelStates
  <2> QED BY <2>1, <2>2, ReplyKeeps DEF IInv, TypeOK, Packets
<1>9. ASSUME NEW p \in packets, SudoReverted(p)
      PROVE  IInv'
  <2> USE <1>9 DEF SudoReverted
  <2>1. packets = {p} /\ packets' = {} /\ TxWaiting
    BY DEF IInv, AnswerMatches
  <2>2. channel' \in ChannelStates
    BY DEF IInv, TypeOK, ChannelStates, ChannelAfterTimeout
  <2>3. TypeOK'
    BY <2>1, <2>2 DEF IInv, TypeOK
  <2>4. IdleIsEmpty' /\ AnswerMatches' /\ SeqsAreFresh' /\ ClosedOnlyIfLost' /\ AnswersAreTrue'
    BY <2>1 DEF IInv, IdleIsEmpty, AnswerMatches, SeqsAreFresh, ClosedOnlyIfLost,
                AnswersAreTrue, TxIdle, TxWaiting
  <2> QED BY <2>3, <2>4 DEF IInv
<1>10. CASE UNCHANGED vars
  BY <1>10, <1>A DEF vars, IInv, TypeOK, ClosedOnlyIfLost, TxWaiting
<1> QED
  BY <1>1, <1>2, <1>3, <1>4, <1>5, <1>6, <1>7, <1>8, <1>9, <1>10 DEF Next

(* The inductive invariant holds in every reachable state. *)
THEOREM Invariance == Spec => []IInv
<1>1. Init => IInv
  BY InitIInv
<1>2. IInv /\ [Next]_vars => IInv'
  BY NextIInv
<1> QED BY <1>1, <1>2, PTL DEF Spec

(* The state of the contract and of its environment is well typed. *)
THEOREM TypeCorrect == Spec => []TypeOK
<1>1. IInv => TypeOK
  BY DEF IInv
<1> QED BY <1>1, Invariance, PTL

(* The one packet under way is the one the contract waits for. *)
THEOREM AnswerMatchesAlways == Spec => []AnswerMatches
<1>1. IInv => AnswerMatches
  BY DEF IInv
<1> QED BY <1>1, Invariance, PTL

(* Hooks are told the truth, once. *)
THEOREM AnswersAreTrueAlways == Spec => []AnswersAreTrue
<1>1. IInv => AnswersAreTrue
  BY DEF IInv
<1> QED BY <1>1, Invariance, PTL

(* A contract that is ready to send has a channel to send over. *)
THEOREM RegisteredIsOpenAlways == Spec => []RegisteredIsOpen
<1>1. IInv => RegisteredIsOpen
  BY IdleOrWaiting DEF IInv, ClosedOnlyIfLost, RegisteredIsOpen
<1> QED BY <1>1, Invariance, PTL

-----------------------------------------------------------------------------
(***************************************************************************)
(* The contract implements module IcaTx.                                   *)
(***************************************************************************)

(* Sending a transaction is a step Send, performing it RemoteExecute, a callback
   Answer or, if the hook refuses it, Lose; every other step is a stutter. *)
LEMMA StepRefines ==
  ASSUME IInv, IInv', [Next]_vars
  PROVE  [Promise!Next]_Promise!vars
<1> USE DEF StageOf
<1>A. ASSUME UNCHANGED <<txState, packets>>
      PROVE  UNCHANGED Promise!vars
  BY <1>A DEF Promise!vars, TxWaiting
<1>1. CASE SetFees \/ RegisterICA \/ OpenAck \/ UNCHANGED vars
  BY <1>1, <1>A DEF SetFees, RegisterICA, OpenAck, vars
<1>2. ASSUME NEW client \in Client, NEW t \in Tx, Execute(client, t)
      PROVE  Promise!Next
  <2>1. txState'.tx = t /\ TxWaiting' /\ ~TxWaiting
    BY <1>2 DEF Execute, Sent, TxIdle, TxWaiting
  <2>2. packets = {}
    BY <2>1, IdleOrWaiting DEF IInv, AnswerMatches
  <2>3. packets' # {} /\ \A p \in packets' : p.result = "sent"
    BY <1>2, <2>2 DEF Execute
  <2>4. StageOf = "idle" /\ StageOf' = "sent"
    BY <2>1, <2>3
  <2> QED BY <2>1, <2>4 DEF Promise!Next, Promise!Send
<1>3. ASSUME NEW p \in packets, NEW result \in {"executed", "refused"}, RemoteReceive(p, result)
      PROVE  [Promise!Next]_Promise!vars
  <2>1. /\ packets = {p} /\ packets' = {[p EXCEPT !.result = result]}
        /\ TxWaiting /\ UNCHANGED txState /\ p.result = "sent" /\ p \in Packets
    BY <1>3, IdleOrWaiting DEF RemoteReceive, IInv, AnswerMatches, TypeOK
  <2>2. CASE result = "executed"
    <3>1. StageOf = "sent" /\ StageOf' = "executed" /\ UNCHANGED txState.tx
      BY <2>1, <2>2 DEF TxWaiting, Packets
    <3> QED BY <3>1 DEF Promise!Next, Promise!RemoteExecute
  <2>3. CASE result = "refused"
    <3>1. StageOf = "sent" /\ StageOf' = "sent" /\ UNCHANGED txState.tx
      BY <2>1, <2>3 DEF TxWaiting, Packets
    <3> QED BY <3>1 DEF Promise!vars
  <2> QED BY <2>2, <2>3
<1>4. ASSUME NEW p \in packets, NEW ok \in BOOLEAN, Reply(p, ok),
             ok <=> (p.result = "executed")
      PROVE  Promise!Next
  <2>1. packets = {p} /\ TxWaiting
    BY IdleOrWaiting DEF IInv, AnswerMatches
  <2>2. StageOf = IF ok THEN "executed" ELSE "sent"
    BY <2>1, <1>4
  <2>3. txState'.tx = NoTx /\ StageOf' = "idle"
    BY <1>4 DEF Reply, IdleTxState, TxWaiting
  <2> QED BY <2>2, <2>3 DEF Promise!Next, Promise!Answer
<1>5. ASSUME NEW p \in packets, SudoResponse(p) \/ SudoError(p) \/ SudoTimeout(p)
      PROVE  Promise!Next
  BY <1>5, <1>4 DEF SudoResponse, SudoError, SudoTimeout
<1>6. ASSUME NEW p \in packets, SudoReverted(p)
      PROVE  Promise!Next
  <2> DEFINE ok == p.result = "executed"
  <2>1. packets = {p} /\ packets' = {} /\ TxWaiting /\ UNCHANGED txState
    BY <1>6, IdleOrWaiting DEF SudoReverted, IInv, AnswerMatches
  <2>2. StageOf = (IF ok THEN "executed" ELSE "sent") /\ StageOf' = "lost"
    BY <2>1 DEF TxWaiting
  <2>3. ok \in BOOLEAN /\ UNCHANGED txState.tx
    BY <2>1
  <2> QED BY <2>2, <2>3 DEF Promise!Next, Promise!Lose
<1> QED
  BY <1>1, <1>2, <1>3, <1>5, <1>6, <1>A DEF Next

(* Whatever the clients do and whatever becomes of the packets, the contract is
   the register of one transaction that module IcaTx describes. *)
THEOREM KeepsPromiseAlways == Spec => KeepsPromise
<1>1. Init => Promise!Init
  BY DEF Init, Promise!Init, IdleTxState, StageOf, TxWaiting
<1>2. IInv /\ IInv' /\ [Next]_vars => [Promise!Next]_Promise!vars
  BY StepRefines
<1> QED BY <1>1, <1>2, Invariance, PTL DEF Spec, KeepsPromise, Promise!Spec

=============================================================================
