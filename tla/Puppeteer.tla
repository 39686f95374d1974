----------------------------- MODULE Puppeteer -----------------------------
(***************************************************************************)
(* The puppeteer contract: it owns an interchain account (ICA) on the      *)
(* remote chain and performs, for the contracts it allows, one transaction *)
(* at a time through it.  A transaction goes out as an IBC packet, over    *)
(* the ordered ICA channel or, for an IBC token transfer, over the         *)
(* transfer channel; the chain calls the contract back (sudo) with a       *)
(* response, an error or a timeout, and the contract hands the result to   *)
(* the hook of the contract that asked for it.                             *)
(*                                                                         *)
(* Contract state: txState, ica, feesSet.  The rest is the environment     *)
(* (the IBC module of the local chain, the relayers, the remote chain) and *)
(* the history of the answers given.                                       *)
(***************************************************************************)
EXTENDS Integers, FiniteSets

CONSTANTS
  Client,      \* config.allowed_senders
  Tx,          \* the transactions that can be asked for
  TransferTx,  \* those sent as IBC transfers, over the transfer channel
  NoTx,        \* no transaction
  NoClient,    \* no address to reply to
  CanRefuse,   \* whether the hook of a client may refuse an answer
  MaxSeq       \* bound of the model: number of packets ever sent

ASSUME PuppeteerAssumption ==
  /\ TransferTx \subseteq Tx
  /\ NoTx \notin Tx
  /\ NoClient \notin Client
  /\ CanRefuse \in BOOLEAN
  /\ MaxSeq \in Nat

VARIABLES
  txState,     \* tx_state: [status, seq, tx, replyTo]
  ica,         \* IcaState
  feesSet,     \* ibc_fee and register_fee have been stored
  channel,     \* the ICA channel, as the IBC module of the local chain sees it
  packets,     \* packets that are not acknowledged yet
  nextSeq,     \* the sequence number of the next packet
  answers      \* history: the hooks that have been called

vars == <<txState, ica, feesSet, channel, packets, nextSeq, answers>>

IcaStates == {"None", "InProgress", "Timeout", "Registered"}
ChannelStates == {"none", "opening", "open", "closed"}
PacketResults == {"sent", "executed", "refused"}

Seq0 == 0..MaxSeq

TxStates == [status : {"Idle", "WaitingForAck"}, seq : Seq0,
             tx : Tx \cup {NoTx}, replyTo : Client \cup {NoClient}]

Packets == [seq : Seq0, tx : Tx, from : Client, result : PacketResults]

Answers == [seq : Seq0, to : Client \cup {NoClient}, tx : Tx \cup {NoTx}, ok : BOOLEAN,
            sentBy : Client, sentTx : Tx, result : PacketResults]

(* the types of the contract's state and of the environment's *)
TypeOK ==
  /\ txState \in TxStates
  /\ ica \in IcaStates
  /\ feesSet \in BOOLEAN
  /\ channel \in ChannelStates
  /\ packets \subseteq Packets
  /\ nextSeq \in 1..(MaxSeq + 1)
  /\ answers \subseteq Answers

-----------------------------------------------------------------------------

IdleTxState == [status |-> "Idle", seq |-> 0, tx |-> NoTx, replyTo |-> NoClient]

Init ==
  /\ txState = IdleTxState
  /\ ica = "None"
  /\ feesSet = FALSE
  /\ channel = "none"
  /\ packets = {}
  /\ nextSeq = 1
  /\ answers = {}

(* execute_set_fees, by the owner *)
SetFees ==
  /\ feesSet' = TRUE
  /\ UNCHANGED <<txState, ica, channel, packets, nextSeq, answers>>

(***************************************************************************)
(* The interchain account.  Anyone may ask for its registration.  The      *)
(* message it sends is refused by the IBC module, and the call reverted,   *)
(* while the account's channel is open or being opened.                    *)
(***************************************************************************)
Registrable_never_again == ica = "None"
Registrable == ica \in {"None", "Timeout"}

RegisterICA ==
  /\ feesSet
  /\ Registrable
  /\ channel \notin {"opening", "open"}
  /\ ica' = "InProgress"
  /\ channel' = "opening"
  /\ UNCHANGED <<txState, feesSet, packets, nextSeq, answers>>

(* sudo_open_ack: the channel handshake is complete *)
OpenAck ==
  /\ channel = "opening"
  /\ channel' = "open"
  /\ ica' = "Registered"
  /\ UNCHANGED <<txState, feesSet, packets, nextSeq, answers>>

(***************************************************************************)
(* execute_delegate, execute_undelegate, execute_redelegate,               *)
(* execute_tokenize_share, execute_redeem_shares, execute_transfer,        *)
(* execute_claim_rewards_and_optionaly_transfer and execute_ibc_transfer   *)
(* have the same effect on the state: they check the sender, that no       *)
(* transaction is in progress and that the account is registered, store    *)
(* the transaction as InProgress and send the packet; the reply of that    *)
(* message, in the same transaction, stores its sequence number and        *)
(* WaitingForAck.  The reply goes to the address the sender names, which   *)
(* every contract of the protocol sets to its own.                         *)
(***************************************************************************)
TxIdle_unchecked == TRUE
TxIdle == txState.status = "Idle"

TxWaiting == txState.status = "WaitingForAck"

(* the channel a packet goes over must be open; the transfer channel always is *)
CanSendPacket(t) == t \in TransferTx \/ channel = "open"

Sent(client, t) ==
  [status |-> "WaitingForAck", seq |-> nextSeq, tx |-> t, replyTo |-> client]

Execute(client, t) ==
  /\ TxIdle
  /\ ica = "Registered"
  /\ feesSet
  /\ CanSendPacket(t)
  /\ nextSeq <= MaxSeq
  /\ txState' = Sent(client, t)
  /\ packets' = packets \cup
       {[seq |-> nextSeq, tx |-> t, from |-> client, result |-> "sent"]}
  /\ nextSeq' = nextSeq + 1
  /\ UNCHANGED <<ica, feesSet, channel, answers>>

(* the remote chain receives a packet and performs it, or refuses it *)
RemoteReceive(p, result) ==
  /\ p.result = "sent"
  /\ packets' = (packets \ {p}) \cup {[p EXCEPT !.result = result]}
  /\ UNCHANGED <<txState, ica, feesSet, channel, nextSeq, answers>>

(***************************************************************************)
(* The callbacks.  None of them compares the sequence number it is called  *)
(* with to the stored one: they take the stored transaction for the one    *)
(* that is answered.                                                       *)
(***************************************************************************)
Reply(p, ok) ==
  /\ txState' = IdleTxState
  /\ packets' = packets \ {p}
  /\ answers' = answers \cup
       {[seq |-> p.seq, to |-> txState.replyTo, tx |-> txState.tx, ok |-> ok,
         sentBy |-> p.from, sentTx |-> p.tx, result |-> p.result]}
  /\ UNCHANGED <<feesSet, nextSeq>>

SudoResponse(p) ==
  /\ p.result = "executed"
  /\ TxWaiting
  /\ Reply(p, TRUE)
  /\ UNCHANGED <<ica, channel>>

SudoError(p) ==
  /\ p.result = "refused"
  /\ TxWaiting
  /\ Reply(p, FALSE)
  /\ UNCHANGED <<ica, channel>>

(* the ICA channel is ordered: a timeout closes it *)
ChannelAfterTimeout(p) == IF p.tx \in TransferTx THEN channel ELSE "closed"

IcaAfterTimeout_kept(p) == ica
IcaAfterTimeout(p) == "Timeout"

SudoTimeout_not_reset(p) ==
  /\ p.result = "sent"
  /\ TxWaiting
  /\ ica' = IcaAfterTimeout(p)
  /\ channel' = ChannelAfterTimeout(p)
  /\ packets' = packets \ {p}
  /\ UNCHANGED <<txState, feesSet, nextSeq, answers>>
SudoTimeout(p) ==
  /\ p.result = "sent"
  /\ TxWaiting
  /\ ica' = IcaAfterTimeout(p)
  /\ channel' = ChannelAfterTimeout(p)
  /\ Reply(p, FALSE)

(* a callback that fails because the client's hook does: the contract's state
   is reverted, the packet is used up nevertheless *)
SudoReverted(p) ==
  /\ CanRefuse
  /\ channel' = IF p.result = "sent" THEN ChannelAfterTimeout(p) ELSE channel
  /\ packets' = packets \ {p}
  /\ UNCHANGED <<txState, ica, feesSet, nextSeq, answers>>

Next ==
  \/ SetFees
  \/ RegisterICA
  \/ OpenAck
  \/ \E client \in Client, t \in Tx : Execute(client, t)
  \/ \E p \in packets :
       \/ \E result \in {"executed", "refused"} : RemoteReceive(p, result)
       \/ SudoResponse(p)
       \/ SudoError(p)
       \/ SudoTimeout(p)
       \/ SudoReverted(p)

Spec == Init /\ [][Next]_vars

(* Someone keeps asking for a registration that is possible, and the relayers
   bring home handshakes and packets, in time or not.  Nobody has to send. *)
Fairness ==
  /\ WF_vars(SetFees)
  /\ WF_vars(RegisterICA)
  /\ WF_vars(OpenAck)
  /\ WF_vars(\E p \in packets : SudoResponse(p) \/ SudoError(p) \/ SudoTimeout(p))

FairSpec == Spec /\ Fairness

-----------------------------------------------------------------------------
(***************************************************************************)
(* Properties                                                              *)
(***************************************************************************)

(* At most one packet is under way, and it is the one the contract waits for:
   only because of that may the callbacks ignore the sequence number. *)
AnswerMatches ==
  \A p \in packets :
    /\ TxWaiting
    /\ txState.seq = p.seq
    /\ txState.tx = p.tx
    /\ txState.replyTo = p.from
    /\ packets = {p}

(* What a hook was told is true: the client that sent the packet learns the
   fate of the transaction it sent, and a success exactly when the remote chain
   performed it; no packet is answered twice. *)
AnswersAreTrue ==
  /\ \A a \in answers :
       /\ a.to = a.sentBy
       /\ a.tx = a.sentTx
       /\ a.ok <=> (a.result = "executed")
  /\ \A a, b \in answers : a.seq = b.seq => a = b

(* While the contract is ready to send and believes to have an account, the
   account's channel is open: a transaction is never lost for want of it. *)
RegisteredIsOpen ==
  (ica = "Registered" /\ TxIdle) => channel = "open"

(* The claim of the error message for IcaState::Timeout, "Interchain account
   registration timed out. Please register it again": an account in that state
   has no open channel, so that it can be registered again. *)
TimeoutMeansClosed ==
  ica = "Timeout" => channel # "open"

(* Every transaction is answered, when hooks accept their answers. *)
AlwaysAnswered == TxWaiting ~> TxIdle

(* An account that was lost to a timeout comes back (when no IBC transfer is
   sent: see TimeoutMeansClosed). *)
IcaRecovers == (ica = "Timeout") ~> (ica = "Registered")

(* The contract keeps the promise of module IcaTx. *)
StageOf ==
  IF ~TxWaiting THEN "idle"
  ELSE IF packets = {} THEN "lost"
  ELSE IF \E p \in packets : p.result = "executed" THEN "executed"
  ELSE "sent"

Promise == INSTANCE IcaTx WITH tx <- txState.tx, stage <- StageOf

KeepsPromise == Promise!Spec

=============================================================================
