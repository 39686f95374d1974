-------------------------------- MODULE Pump --------------------------------
(***************************************************************************)
(* The pump contract: it owns an interchain account on the remote chain,   *)
(* to which core has payouts sent, and pushes the account's coins home to  *)
(* its destination (the withdrawal manager), by IBC transfers that the     *)
(* account makes.                                                          *)
(*                                                                         *)
(* Unlike the puppeteer it keeps no register of what it sent: any number   *)
(* of packets are under way, and a callback changes nothing but, after a   *)
(* timeout, the state of the account.  A timeout closes the ordered        *)
(* channel of the account; the other packets of that channel time out too, *)
(* each in its own time, perhaps when a new channel has been registered.   *)
(***************************************************************************)
EXTENDS Integers, Sequences, FiniteSets, Functions

CONSTANTS
  Pushes,              \* the coins of a push: sequences of amounts
  Brought,             \* fees a call may bring
  RegisterFee,         \* config.ibc_fees
  AckFee,              \* recv_fee + ack_fee
  TimeoutFee,
  MaxSeq, MaxChannel,  \* bounds of the model: packets and channels ever made
  MaxLocal             \* and fees held by the contract

ASSUME PumpAssumption ==
  /\ Pushes \subseteq Seq(Nat)
  /\ Brought \subseteq Nat
  /\ {RegisterFee, AckFee, TimeoutFee, MaxSeq, MaxChannel, MaxLocal} \subseteq Nat

VARIABLES
  destination,  \* config.dest_address, dest_port and dest_channel are set
  refundee,     \* config.refundee is set
  ica,          \* ICA
  channel,      \* the account's last channel: [id, state]
  packets,      \* packets that are not answered yet
  nextSeq,      \* the sequence number of the next packet
  remote,       \* what the account holds on the remote chain
  transit,      \* IBC transfers of the account that are on their way
  delivered,    \* what has arrived at the destination
  local         \* the contract's own balance, which pays the fees

config == <<destination, refundee>>
account == <<ica, channel>>
pumpVars == <<config, account, packets, nextSeq, remote, transit, delivered, local>>

IcaStates == {"None", "InProgress", "Timeout", "Registered"}
ChannelStates == {"none", "opening", "open", "closed"}
Packets == [seq : Nat, chan : Nat, amount : Nat, fate : {"sent", "executed", "refused"}]
Transfers == [seq : Nat, amount : Nat]

(* the types of the contract's state and of its environment *)
PumpTypeOK ==
  /\ destination \in BOOLEAN /\ refundee \in BOOLEAN
  /\ ica \in IcaStates
  /\ channel \in [id : Nat, state : ChannelStates]
  /\ packets \subseteq Packets
  /\ nextSeq \in Nat /\ remote \in Nat /\ delivered \in Nat /\ local \in Nat
  /\ transit \subseteq Transfers

PumpInit ==
  /\ destination = FALSE /\ refundee = FALSE
  /\ ica = "None"
  /\ channel = [id |-> 0, state |-> "none"]
  /\ packets = {} /\ nextSeq = 1
  /\ remote = 0 /\ transit = {} /\ delivered = 0
  /\ local = 0

-----------------------------------------------------------------------------
(***************************************************************************)
(* Calls                                                                   *)
(***************************************************************************)

(* execute_update_config, by the owner *)
SetDestination ==
  /\ destination' = TRUE
  /\ UNCHANGED <<refundee, account, packets, nextSeq, remote, transit, delivered, local>>

SetRefundee ==
  /\ refundee' = TRUE
  /\ UNCHANGED <<destination, account, packets, nextSeq, remote, transit, delivered, local>>

(* check_funds: the call brings at least the fee of ONE message; the chain takes
   the fee of every message it sends from the contract's balance *)
PaysFees(brought, checked, taken) ==
  /\ brought >= checked
  /\ local + brought >= taken
  /\ local' = local + brought - taken
  /\ local' <= MaxLocal

(* execute_register_ica: the message is refused while the account has an open channel *)
RegisterICA(brought) ==
  /\ PaysFees(brought, RegisterFee, RegisterFee)
  /\ ica \in {"None", "Timeout"}
  /\ channel.state # "open"
  /\ channel.id < MaxChannel
  /\ ica' = "InProgress"
  /\ channel' = [id |-> channel.id + 1, state |-> "opening"]
  /\ UNCHANGED <<config, packets, nextSeq, remote, transit, delivered>>

(* sudo_open_ack *)
OpenAck ==
  /\ channel.state = "opening"
  /\ channel' = [channel EXCEPT !.state = "open"]
  /\ ica' = "Registered"
  /\ UNCHANGED <<config, packets, nextSeq, remote, transit, delivered, local>>

(* execute_push: one packet for every coin *)
PacketsFor(coins) ==
  {[seq |-> nextSeq + i - 1, chan |-> channel.id, amount |-> coins[i], fate |-> "sent"] :
     i \in DOMAIN coins}

Push(coins, brought) ==
  /\ PaysFees(brought, AckFee + TimeoutFee, Len(coins) * (AckFee + TimeoutFee))
  /\ ica = "Registered"
  /\ channel.state = "open"
  /\ destination
  /\ nextSeq + Len(coins) - 1 <= MaxSeq
  /\ packets' = packets \cup PacketsFor(coins)
  /\ nextSeq' = nextSeq + Len(coins)
  /\ UNCHANGED <<config, account, remote, transit, delivered>>

(* execute_refund: all that the contract holds; an empty transfer is refused *)
Refund ==
  /\ refundee
  /\ local > 0
  /\ local' = 0
  /\ UNCHANGED <<config, account, packets, nextSeq, remote, transit, delivered>>

-----------------------------------------------------------------------------
(***************************************************************************)
(* The remote chain and the callbacks.  The channel is ordered: packets    *)
(* are received and acknowledged in the order they were sent.              *)
(***************************************************************************)
OfOpenChannel(p) == channel.state = "open" /\ p.chan = channel.id

IsFirst(p, fates) == \A q \in packets : q.chan = p.chan /\ q.fate \in fates => p.seq <= q.seq

Receive(p) ==
  /\ OfOpenChannel(p)
  /\ p.fate = "sent"
  /\ IsFirst(p, {"sent"})
  /\ \/ /\ p.amount <= remote
        /\ remote' = remote - p.amount
        /\ transit' = transit \cup {[seq |-> p.seq, amount |-> p.amount]}
        /\ packets' = (packets \ {p}) \cup {[p EXCEPT !.fate = "executed"]}
     \/ /\ packets' = (packets \ {p}) \cup {[p EXCEPT !.fate = "refused"]}
        /\ UNCHANGED <<remote, transit>>
  /\ UNCHANGED <<config, account, nextSeq, delivered, local>>

(* sudo_response and sudo_error; the fee of the timeout comes back *)
SudoAnswer(p) ==
  /\ OfOpenChannel(p)
  /\ p.fate # "sent"
  /\ IsFirst(p, {"sent", "executed", "refused"})
  /\ packets' = packets \ {p}
  /\ local' = local + TimeoutFee
  /\ local' <= MaxLocal
  /\ UNCHANGED <<config, account, nextSeq, remote, transit, delivered>>

(* sudo_timeout; the answers of a channel that closes are lost *)
IcaAfterTimeout_kept(p) == ica
IcaAfterTimeout(p) == "Timeout"

SudoTimeout(p) ==
  /\ p.fate = "sent"
  /\ ica' = IcaAfterTimeout(p)
  /\ IF OfOpenChannel(p)
     THEN /\ channel' = [channel EXCEPT !.state = "closed"]
          /\ packets' = {q \in packets \ {p} : q.fate = "sent"}
     ELSE /\ packets' = packets \ {p}
          /\ UNCHANGED channel
  /\ local' = local + AckFee
  /\ local' <= MaxLocal
  /\ UNCHANGED <<config, nextSeq, remote, transit, delivered>>

(* a transfer arrives at the destination, or comes back to the account *)
TransferArrives(t) ==
  /\ delivered' = delivered + t.amount
  /\ transit' = transit \ {t}
  /\ UNCHANGED <<config, account, packets, nextSeq, remote, local>>

TransferTimesOut(t) ==
  /\ remote' = remote + t.amount
  /\ transit' = transit \ {t}
  /\ UNCHANGED <<config, account, packets, nextSeq, delivered, local>>

PumpExecute ==
  \/ SetDestination \/ SetRefundee \/ Refund
  \/ \E brought \in Brought :
       \/ RegisterICA(brought)
       \/ \E coins \in Pushes : Push(coins, brought)

PumpSudo ==
  \/ OpenAck
  \/ \E p \in packets : SudoAnswer(p) \/ SudoTimeout(p)

PumpNext ==
  \/ PumpExecute \/ PumpSudo
  \/ \E p \in packets : Receive(p)
  \/ \E t \in transit : TransferArrives(t) \/ TransferTimesOut(t)

-----------------------------------------------------------------------------

(* An account that the contract believes to have can send: timeouts of several
   packets, early or late, never leave it Registered with a closed channel. *)
RegisteredIsOpen == ica = "Registered" => channel.state = "open"

InTransit == SumFunction([t \in transit |-> t.amount])

=============================================================================
