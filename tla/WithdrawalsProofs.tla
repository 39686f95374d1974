-------------------------- MODULE WithdrawalsProofs --------------------------
(***************************************************************************)
(* Proofs about the pump and about vouchers, their holders and payouts,    *)
(* for any users, amounts, packets and fees.                               *)
(*                                                                         *)
(* First who holds a voucher and who was paid for it (Inv); then what the  *)
(* auto-withdrawer holds (DepositsInv); then the sums (FundsInv): all that *)
(* came for withdrawn batches is still there or was paid out, a batch      *)
(* expects what its vouchers do, and the payouts of the vouchers of one    *)
(* batch, each rounded down, add up to no more than what came for it.      *)
(***************************************************************************)
EXTENDS Withdrawals, SumProofs, TLAPS

-----------------------------------------------------------------------------
(***************************************************************************)
(* The pump                                                                *)
(***************************************************************************)

PumpInv == PumpTypeOK /\ RegisteredIsOpen

LEMMA PumpInitInv == PumpInit => PumpInv
<1> SUFFICES ASSUME PumpInit PROVE PumpInv
  OBVIOUS
<1>1. channel \in [id : Nat, state : ChannelStates]
  BY DEF PumpInit, ChannelStates
<1> QED BY <1>1 DEF PumpInit, PumpInv, PumpTypeOK, RegisteredIsOpen, IcaStates

(* A call leaves an amount of fees with the contract. *)
LEMMA FeesLeave ==
  ASSUME local \in Nat, NEW brought \in Nat, NEW checked, NEW taken \in Nat,
         PaysFees(brought, checked, taken)
  PROVE  local' \in Nat
  BY DEF PaysFees

LEMMA PushKeeps ==
  ASSUME PumpAssumption, PumpInv, NEW coins \in Pushes, NEW brought \in Brought, Push(coins, brought)
  PROVE  PumpInv'
<1>1. coins \in Seq(Nat) /\ Len(coins) \in Nat /\ DOMAIN coins = 1..Len(coins)
  BY DEF PumpAssumption
<1>2. brought \in Nat /\ AckFee + TimeoutFee \in Nat
  BY DEF PumpAssumption
<1>3. PumpTypeOK /\ RegisteredIsOpen
  BY DEF PumpInv
<1>4. local' \in Nat
  <2>1. Len(coins) * (AckFee + TimeoutFee) \in Nat
    BY <1>1, <1>2
  <2> QED BY <1>2, <1>3, <2>1, FeesLeave DEF Push, PumpTypeOK
<1>5. PacketsFor(coins) \subseteq Packets
  <2> SUFFICES ASSUME NEW i \in DOMAIN coins
               PROVE  [seq |-> nextSeq + i - 1, chan |-> channel.id, amount |-> coins[i],
                       fate |-> "sent"] \in Packets
    BY DEF PacketsFor
  <2>1. nextSeq + i - 1 \in Nat /\ channel.id \in Nat /\ coins[i] \in Nat
    BY <1>1, <1>3 DEF PumpTypeOK
  <2> QED BY <2>1 DEF Packets
<1>6. packets' \subseteq Packets /\ nextSeq' \in Nat
  BY <1>1, <1>3, <1>5 DEF Push, PumpTypeOK
<1>7. UNCHANGED <<destination, refundee, ica, channel, remote, transit, delivered>>
  BY DEF Push, config, account
<1> QED BY <1>3, <1>4, <1>6, <1>7 DEF PumpInv, PumpTypeOK, RegisteredIsOpen

LEMMA RegisterICAKeeps ==
  ASSUME PumpAssumption, PumpInv, NEW brought \in Brought, RegisterICA(brought)
  PROVE  PumpInv'
<1>1. brought \in Nat /\ RegisterFee \in Nat /\ PumpTypeOK
  BY DEF PumpAssumption, PumpInv
<1>2. local' \in Nat
  BY <1>1, FeesLeave DEF RegisterICA, PumpTypeOK
<1>3. channel' \in [id : Nat, state : ChannelStates]
  BY <1>1 DEF RegisterICA, PumpTypeOK, ChannelStates
<1>4. ica' = "InProgress" /\ UNCHANGED <<destination, refundee, packets, nextSeq, remote, transit, delivered>>
  BY DEF RegisterICA, config
<1> QED BY <1>1, <1>2, <1>3, <1>4 DEF PumpInv, PumpTypeOK, RegisteredIsOpen, IcaStates

(* Calls *)
LEMMA PumpExecuteKeeps ==
  ASSUME PumpAssumption, PumpInv, PumpExecute
  PROVE  PumpInv'
<1>1. CASE SetDestination \/ SetRefundee
  BY <1>1 DEF SetDestination, SetRefundee, account, PumpInv, PumpTypeOK, RegisteredIsOpen
<1>2. CASE Refund
  BY <1>2 DEF Refund, config, account, PumpInv, PumpTypeOK, RegisteredIsOpen
<1>3. CASE \E brought \in Brought : RegisterICA(brought)
  BY <1>3, RegisterICAKeeps
<1>4. CASE \E brought \in Brought, coins \in Pushes : Push(coins, brought)
  BY <1>4, PushKeeps
<1> QED BY <1>1, <1>2, <1>3, <1>4 DEF PumpExecute

(* Callbacks: an answer changes no state of the account, a timeout leaves Registered. *)
LEMMA PumpSudoKeeps ==
  ASSUME PumpAssumption, PumpInv, PumpSudo
  PROVE  PumpInv'
<1>1. AckFee \in Nat /\ TimeoutFee \in Nat /\ PumpTypeOK /\ RegisteredIsOpen
  BY DEF PumpAssumption, PumpInv
<1>2. CASE OpenAck
  BY <1>1, <1>2 DEF OpenAck, config, PumpInv, PumpTypeOK, RegisteredIsOpen, IcaStates, ChannelStates
<1>3. CASE \E p \in packets : SudoAnswer(p)
  BY <1>1, <1>3 DEF SudoAnswer, config, account, PumpInv, PumpTypeOK, RegisteredIsOpen
<1>4. CASE \E p \in packets : SudoTimeout(p)
  <2> PICK p \in packets : SudoTimeout(p)
    BY <1>4
  <2>1. ica' = "Timeout" /\ local' \in Nat /\ packets' \subseteq Packets
        /\ UNCHANGED <<destination, refundee, nextSeq, remote, transit, delivered>>
    BY <1>1 DEF SudoTimeout, IcaAfterTimeout, config, PumpTypeOK
  <2>2. channel' \in [id : Nat, state : ChannelStates]
    <3>1. channel' = channel \/ channel' = [channel EXCEPT !.state = "closed"]
      BY DEF SudoTimeout
    <3> QED BY <3>1, <1>1 DEF PumpTypeOK, ChannelStates
  <2> QED BY <1>1, <2>1, <2>2 DEF PumpInv, PumpTypeOK, RegisteredIsOpen, IcaStates
<1> QED BY <1>2, <1>3, <1>4 DEF PumpSudo

LEMMA ReceiveKeeps ==
  ASSUME PumpInv, NEW p \in packets, Receive(p)
  PROVE  PumpInv'
<1>1. PumpTypeOK /\ RegisteredIsOpen /\ p \in Packets
  BY DEF PumpInv, PumpTypeOK
<1>2. [p EXCEPT !.fate = "executed"] \in Packets /\ [p EXCEPT !.fate = "refused"] \in Packets
      /\ [seq |-> p.seq, amount |-> p.amount] \in Transfers /\ p.amount \in Nat
  BY <1>1 DEF Packets, Transfers
<1>3. packets' \subseteq Packets /\ remote' \in Nat /\ transit' \subseteq Transfers
  <2>1. CASE p.amount <= remote /\ remote' = remote - p.amount
             /\ transit' = transit \cup {[seq |-> p.seq, amount |-> p.amount]}
             /\ packets' = (packets \ {p}) \cup {[p EXCEPT !.fate = "executed"]}
    BY <1>1, <1>2, <2>1 DEF PumpTypeOK
  <2>2. CASE packets' = (packets \ {p}) \cup {[p EXCEPT !.fate = "refused"]}
             /\ UNCHANGED <<remote, transit>>
    BY <1>1, <1>2, <2>2 DEF PumpTypeOK
  <2> QED BY <2>1, <2>2 DEF Receive
<1>4. UNCHANGED <<destination, refundee, ica, channel, nextSeq, delivered, local>>
  BY DEF Receive, config, account
<1> QED BY <1>1, <1>3, <1>4 DEF PumpInv, PumpTypeOK, RegisteredIsOpen

LEMMA PumpNextKeeps ==
  ASSUME PumpAssumption, PumpInv, PumpNext
  PROVE  PumpInv'
<1>1. CASE \E t \in transit : TransferArrives(t) \/ TransferTimesOut(t)
  <2> PICK t \in transit : TransferArrives(t) \/ TransferTimesOut(t)
    BY <1>1
  <2>1. t.amount \in Nat /\ PumpTypeOK /\ RegisteredIsOpen
    BY DEF PumpInv, PumpTypeOK, Transfers
  <2>2. delivered' \in Nat /\ remote' \in Nat /\ transit' \subseteq Transfers
    <3>1. CASE TransferArrives(t)
      BY <2>1, <3>1 DEF TransferArrives, config, account, PumpTypeOK
    <3>2. CASE TransferTimesOut(t)
      BY <2>1, <3>2 DEF TransferTimesOut, config, account, PumpTypeOK
    <3> QED BY <3>1, <3>2
  <2>3. UNCHANGED <<destination, refundee, ica, channel, packets, nextSeq, local>>
    BY DEF TransferArrives, TransferTimesOut, config, account
  <2> QED BY <2>1, <2>2, <2>3 DEF PumpInv, PumpTypeOK, RegisteredIsOpen
<1> QED BY <1>1, PumpExecuteKeeps, PumpSudoKeeps, ReceiveKeeps DEF PumpNext

LEMMA PumpStays ==
  ASSUME PumpInv, UNCHANGED pumpVars
  PROVE  PumpInv'
  BY DEF PumpInv, PumpTypeOK, RegisteredIsOpen, pumpVars, config, account

-----------------------------------------------------------------------------
(***************************************************************************)
(* The batches as the manager sees them                                    *)
(***************************************************************************)

(* Batches from the open one on are open: none of them can be paid. *)
BatchesInv ==
  /\ openBatch \in Batch /\ batches \in [Batch -> Batches]
  /\ \A b \in Batch : b >= openBatch => batches[b].status = "open"

Withdrawn(b) == batches[b].status = "withdrawn"

LEMMA MintKeepsBatches ==
  ASSUME WithdrawalsAssumption, BatchesInv, NEW holder, NEW expected \in Expected,
         Mint(holder, expected), openBatch' = openBatch
  PROVE  BatchesInv' /\ \A b \in Batch : Withdrawn(b)' = Withdrawn(b)
<1>1. expected \in Nat /\ Batch \subseteq Nat
  BY DEF WithdrawalsAssumption, Batch
<1>2. batches[openBatch].expected + expected \in Nat
  BY <1>1 DEF BatchesInv, Batches
<1>3. batches' \in [Batch -> Batches] /\ \A b \in Batch : batches'[b].status = batches[b].status
  BY <1>2 DEF BatchesInv, Batches, Mint
<1> QED BY <1>3 DEF BatchesInv, Withdrawn

LEMMA CloseBatchKeepsBatches ==
  ASSUME WithdrawalsAssumption, BatchesInv, CloseBatch
  PROVE  BatchesInv' /\ \A b \in Batch : Withdrawn(b)' = Withdrawn(b)
<1>1. /\ openBatch \in 0..MaxBatch /\ MaxBatch \in Nat /\ openBatch < MaxBatch
      /\ openBatch' = openBatch + 1
      /\ batches' = [batches EXCEPT ![openBatch].status = "unbonding"]
  BY DEF WithdrawalsAssumption, BatchesInv, CloseBatch, Batch
<1>2. openBatch' \in Batch
  BY <1>1 DEF Batch
<1>3. batches' \in [Batch -> Batches]
  BY <1>1 DEF BatchesInv, Batches
<1>4. ASSUME NEW b \in Batch
      PROVE  batches'[b].status = IF b = openBatch THEN "unbonding" ELSE batches[b].status
  BY <1>1 DEF BatchesInv, Batches
<1>5. ASSUME NEW b \in Batch, b >= openBatch + 1
      PROVE  batches'[b].status = "open"
  <2>1. b \in Int /\ b # openBatch /\ b >= openBatch
    BY <1>1, <1>5 DEF Batch
  <2> QED BY <2>1, <1>4 DEF BatchesInv
<1>6. \A b \in Batch : Withdrawn(b)' = Withdrawn(b)
  <2>1. batches[openBatch].status = "open"
    BY <1>1 DEF BatchesInv
  <2> QED BY <2>1, <1>4 DEF Withdrawn
<1> QED BY <1>1, <1>2, <1>3, <1>5, <1>6 DEF BatchesInv

LEMMA PayKeepsBatches ==
  ASSUME BatchesInv, NEW b \in Batch,
         (\E amount \in 0..batches[b].expected : PayBatch(b, amount)) \/ PayBatchInEmergency(b)
  PROVE  BatchesInv' /\ \A c \in Batch : Withdrawn(c) => Withdrawn(c)'
<1>1. batches[b].status = "unbonding" /\ openBatch' = openBatch
  BY DEF PayBatch, PayBatchInEmergency
<1>2. PICK amount \in Nat :
        \/ batches' = [batches EXCEPT ![b].status = "withdrawn", ![b].unbonded = amount]
        \/ batches' = [batches EXCEPT ![b].status = "emergency"]
  <2>1. batches[b].expected \in Nat
    BY DEF BatchesInv, Batches
  <2>2. 0..batches[b].expected \subseteq Nat /\ 0 \in Nat
    BY <2>1
  <2> QED BY <2>2 DEF PayBatch, PayBatchInEmergency
<1>3. batches' \in [Batch -> Batches]
  BY <1>2 DEF BatchesInv, Batches
<1>4. \A c \in Batch : c # b => batches'[c] = batches[c]
  BY <1>2 DEF BatchesInv
<1> QED BY <1>1, <1>3, <1>4 DEF BatchesInv, Withdrawn

-----------------------------------------------------------------------------
(***************************************************************************)
(* Vouchers                                                                *)
(***************************************************************************)

VoucherTypeOK ==
  /\ minted \in Nat /\ minted <= MaxVoucher
  /\ vouchers \in [Voucher -> [batch : Batch, expected : Nat]]
  /\ owner \in [Voucher -> Holders] /\ approved \subseteq Voucher
  /\ bondings \in [Voucher -> [bonder : User \cup {Nobody}, deposit : Nat]]
  /\ paused \in BOOLEAN /\ wired \in BOOLEAN
  /\ claimant \in [Voucher -> User \cup {Nobody}]
  /\ payee \in [Voucher -> User \cup {Nobody}]

(* A voucher is nobody's before it is minted, and is the auto-withdrawer's while it has a
   record; only a user's is approved; the one user who may ask for it, or for its
   payment, is its claimant. *)
IsHeld(v) ==
  /\ v > minted => owner[v] = Nobody /\ payee[v] = Nobody
  /\ v \in approved => owner[v] \in User
  /\ owner[v] \in User => claimant[v] = owner[v]
  /\ bondings[v].bonder # Nobody => owner[v] = Withdrawer /\ claimant[v] = bondings[v].bonder
  /\ payee[v] # Nobody => /\ owner[v] = Manager
                          /\ payee[v] = claimant[v]
                          /\ Withdrawn(vouchers[v].batch)

VouchersInv == VoucherTypeOK /\ \A v \in Voucher : IsHeld(v)

(* What of the state the invariant of a voucher reads *)
Unmoved(v) ==
  /\ owner'[v] = owner[v] /\ bondings'[v] = bondings[v] /\ vouchers'[v] = vouchers[v]
  /\ claimant'[v] = claimant[v] /\ payee'[v] = payee[v]
  /\ v \in approved' => v \in approved

(* A voucher that a step does not touch stays as it is: batches that are withdrawn stay so. *)
LEMMA UnmovedIsHeld ==
  ASSUME VouchersInv, minted' \in Nat, minted' >= minted,
         \A b \in Batch : Withdrawn(b) => Withdrawn(b)',
         NEW v \in Voucher, Unmoved(v)
  PROVE  IsHeld(v)'
<1>1. vouchers[v].batch \in Batch /\ minted \in Nat /\ IsHeld(v) /\ v \in Int
  BY DEF VouchersInv, VoucherTypeOK, Voucher
<1>2. v > minted' => v > minted
  BY <1>1
<1> QED BY <1>1, <1>2 DEF IsHeld, Unmoved, Withdrawn

(* Steps that leave the vouchers alone. *)
LEMMA VouchersStay ==
  ASSUME VouchersInv, UNCHANGED <<minted, vouchers, owner, approved, bondings, claimant, payee>>,
         paused' \in BOOLEAN, wired' \in BOOLEAN,
         \A b \in Batch : Withdrawn(b) => Withdrawn(b)'
  PROVE  VouchersInv'
<1>1. minted' \in Nat /\ minted' >= minted /\ \A v \in Voucher : Unmoved(v)
  BY DEF VouchersInv, VoucherTypeOK, Unmoved
<1>2. \A v \in Voucher : IsHeld(v)'
  BY <1>1, UnmovedIsHeld
<1>3. VoucherTypeOK'
  BY DEF VouchersInv, VoucherTypeOK
<1> QED BY <1>2, <1>3 DEF VouchersInv

LEMMA Addresses ==
  ASSUME WithdrawalsAssumption
  PROVE  /\ \A u \in User : u # Nobody /\ u # Withdrawer /\ u # Manager
         /\ Withdrawer # Manager /\ Nobody # Withdrawer /\ Nobody # Manager
<1>1. {Withdrawer, Manager} \cap User = {} /\ Nobody \notin User \cup {Withdrawer, Manager} /\ Withdrawer # Manager
  BY Zenon DEF WithdrawalsAssumption
<1> QED BY <1>1

(* A new voucher, of a user or of the auto-withdrawer, which records whose it is. *)
LEMMA MintKeeps ==
  ASSUME WithdrawalsAssumption, BatchesInv, VouchersInv,
         NEW u \in User, NEW expected \in Expected,
         \/ Unbond(u, expected)
         \/ \E deposit \in Deposits : BondWithLdAssets(u, expected, deposit)
  PROVE  VouchersInv'
<1> DEFINE new == minted + 1
<1>0. u # Nobody /\ u # Withdrawer /\ u # Manager /\ Withdrawer # Manager /\ Nobody # Withdrawer /\ Nobody # Manager
  BY Addresses
<1>1. /\ VoucherTypeOK /\ expected \in Nat /\ openBatch \in Batch /\ MaxVoucher \in Nat
      /\ minted \in Nat
  <2>1. VoucherTypeOK /\ openBatch \in Batch
    BY DEF VouchersInv, BatchesInv
  <2>2. expected \in Nat /\ MaxVoucher \in Nat
    BY DEF WithdrawalsAssumption
  <2> QED BY <2>1, <2>2 DEF VoucherTypeOK
<1>2. /\ UNCHANGED openBatch /\ claimant' = [claimant EXCEPT ![new] = u]
      /\ UNCHANGED <<approved, paused, wired, payee>>
      /\ \/ Mint(u, expected) /\ UNCHANGED bondings
         \/ /\ Mint(Withdrawer, expected)
            /\ \E d \in Deposits : bondings' = [bondings EXCEPT ![new] = [bonder |-> u, deposit |-> d]]
  <2>1. CASE Unbond(u, expected)
    BY <2>1 DEF Unbond, autoVars, managerVars
  <2>2. CASE \E deposit \in Deposits : BondWithLdAssets(u, expected, deposit)
    BY <1>1, <2>2, Zenon DEF BondWithLdAssets, RecordMinted, Record, ClaimedBy, managerVars
  <2> QED BY <2>1, <2>2
<1>3. PICK holder \in {u, Withdrawer} :
        /\ Mint(holder, expected)
        /\ holder = u => UNCHANGED bondings
        /\ holder = Withdrawer => \E d \in Deposits :
             bondings' = [bondings EXCEPT ![new] = [bonder |-> u, deposit |-> d]]
  BY <1>0, <1>2
<1>4. /\ owner' = [owner EXCEPT ![new] = holder] /\ minted < MaxVoucher /\ minted' = new
      /\ vouchers' = [vouchers EXCEPT ![new] = [batch |-> openBatch, expected |-> expected]]
  BY <1>3, Zenon DEF Mint
<1>5. new \in Voucher /\ new <= MaxVoucher /\ new > minted /\ new \in Nat
  BY <1>1, <1>4 DEF Voucher
<1>6. owner[new] = Nobody /\ payee[new] = Nobody /\ bondings[new].bonder = Nobody /\ new \notin approved
  <2>1. IsHeld(new)
    BY <1>5 DEF VouchersInv
  <2>2. Nobody \notin User
    BY <1>0, Addresses
  <2> QED BY <1>0, <1>5, <2>1, <2>2 DEF IsHeld
<1>7. /\ bondings' \in [Voucher -> [bonder : User \cup {Nobody}, deposit : Nat]]
      /\ \A v \in Voucher : v # new => bondings'[v] = bondings[v]
      /\ bondings'[new].bonder = IF holder = u THEN Nobody ELSE u
  <2>1. \A d \in Deposits : d \in Nat
    BY DEF WithdrawalsAssumption
  <2>2. bondings \in [Voucher -> [bonder : User \cup {Nobody}, deposit : Nat]]
    BY <1>1 DEF VoucherTypeOK
  <2>3. CASE holder = u
    <3>1. bondings' = bondings
      BY <1>3, <2>3
    <3> HIDE DEF new
    <3> QED BY <1>6, <2>2, <2>3, <3>1
  <2>4. CASE holder = Withdrawer
    <3>1. PICK d \in Deposits : bondings' = [bondings EXCEPT ![new] = [bonder |-> u, deposit |-> d]]
      BY <1>3, <2>4
    <3> HIDE DEF new
    <3>2. [bonder |-> u, deposit |-> d] \in [bonder : User \cup {Nobody}, deposit : Nat]
      BY <2>1
    <3> QED BY <1>0, <1>5, <2>2, <2>4, <3>1, <3>2
  <2> QED BY <2>3, <2>4
<1> HIDE DEF new
<1>8. VoucherTypeOK'
  <2>1. owner' \in [Voucher -> Holders]
    BY <1>1, <1>4 DEF VoucherTypeOK, Holders
  <2>3. claimant' \in [Voucher -> User \cup {Nobody}]
    BY <1>1, <1>2 DEF VoucherTypeOK
  <2>2. vouchers' \in [Voucher -> [batch : Batch, expected : Nat]]
    BY <1>1, <1>4 DEF VoucherTypeOK
  <2> QED BY <1>1, <1>2, <1>4, <1>5, <1>7, <2>1, <2>2, <2>3 DEF VoucherTypeOK
<1>9. \A b \in Batch : Withdrawn(b) => Withdrawn(b)'
  BY <1>2, <1>3, MintKeepsBatches
<1>10. ASSUME NEW v \in Voucher PROVE IsHeld(v)'
  <2>1. CASE v # new
    <3>1. Unmoved(v)
      BY <1>1, <1>2, <1>4, <1>7, <2>1 DEF VoucherTypeOK, Unmoved
    <3>2. minted' \in Nat /\ minted' >= minted
      BY <1>1, <1>4, <1>5
    <3> QED BY <3>1, <3>2, <1>9, UnmovedIsHeld
  <2>2. CASE v = new
    <3>1. /\ owner'[new] = holder /\ claimant'[new] = u /\ payee'[new] = Nobody /\ ~(new > minted')
          /\ new \notin approved'
      BY <1>1, <1>2, <1>4, <1>5, <1>6 DEF VoucherTypeOK
    <3>2. holder = u \/ holder = Withdrawer
      OBVIOUS
    <3> QED BY <1>0, <1>7, <2>2, <3>1, <3>2 DEF IsHeld
  <2> QED BY <2>1, <2>2
<1> QED BY <1>8, <1>10 DEF VouchersInv

(* A step that gives one voucher another owner, claimant, record or payee, and leaves the
   others alone. *)
LEMMA OneMoves ==
  ASSUME WithdrawalsAssumption, VouchersInv, NEW v \in Voucher, NEW to \in Holders \ {Nobody},
         Move(v, to), v <= minted,
         UNCHANGED <<batches, wired, paused>>,
         bondings' \in [Voucher -> [bonder : User \cup {Nobody}, deposit : Nat]],
         claimant' \in [Voucher -> User \cup {Nobody}],
         payee' \in [Voucher -> User \cup {Nobody}],
         \A w \in Voucher : w # v => /\ bondings'[w] = bondings[w] /\ payee'[w] = payee[w]
                                     /\ claimant'[w] = claimant[w],
         IsHeld(v)'
  PROVE  VouchersInv'
<1>1. VoucherTypeOK /\ UNCHANGED <<minted, vouchers>> /\ owner' = [owner EXCEPT ![v] = to]
      /\ approved' = approved \ {v}
  BY DEF VouchersInv, Move
<1>2. VoucherTypeOK'
  BY <1>1 DEF VoucherTypeOK
<1>3. ASSUME NEW w \in Voucher, w # v PROVE IsHeld(w)'
  <2>1. Unmoved(w)
    BY <1>1, <1>3 DEF VoucherTypeOK, Unmoved
  <2>2. minted' \in Nat /\ minted' >= minted /\ \A b \in Batch : Withdrawn(b) => Withdrawn(b)'
    BY <1>1 DEF VoucherTypeOK, Withdrawn
  <2> QED BY <2>1, <2>2, UnmovedIsHeld
<1> QED BY <1>2, <1>3 DEF VouchersInv

(* ... of which someone is the claimant then. *)
LEMMA ClaimMoves ==
  ASSUME VoucherTypeOK, NEW v \in Voucher, NEW u \in User, ClaimedBy(v, u)
  PROVE  /\ claimant' \in [Voucher -> User \cup {Nobody}] /\ claimant'[v] = u
         /\ \A w \in Voucher : w # v => claimant'[w] = claimant[w]
BY DEF VoucherTypeOK, ClaimedBy

LEMMA MoveMoves ==
  ASSUME VoucherTypeOK, NEW v \in Voucher, NEW to, Move(v, to)
  PROVE  owner'[v] = to /\ v \notin approved' /\ minted' = minted /\ vouchers' = vouchers
BY DEF VoucherTypeOK, Move

(* A user's voucher is neither paid nor recorded by the auto-withdrawer. *)
LEMMA OwnedByUser ==
  ASSUME WithdrawalsAssumption, VouchersInv, NEW v \in Voucher, owner[v] \in User
  PROVE  payee[v] = Nobody /\ bondings[v].bonder = Nobody /\ claimant[v] = owner[v] /\ v <= minted
<1>1. IsHeld(v) /\ owner[v] # Manager /\ owner[v] # Withdrawer /\ owner[v] # Nobody
  BY Addresses DEF VouchersInv
<1>2. v \in Int /\ minted \in Nat
  BY DEF VouchersInv, VoucherTypeOK, Voucher
<1> QED BY <1>1, <1>2 DEF IsHeld

(* One that the auto-withdrawer can move is not paid yet. *)
LEMMA MovableIsUnpaid ==
  ASSUME WithdrawalsAssumption, VouchersInv, NEW v \in Voucher, MayMove(Withdrawer, v)
  PROVE  payee[v] = Nobody /\ v <= minted
<1>1. IsHeld(v) /\ Withdrawer # Manager /\ Withdrawer # Nobody
  BY Addresses DEF VouchersInv
<1>2. v \in Int /\ minted \in Nat
  BY DEF VouchersInv, VoucherTypeOK, Voucher
<1>3. owner[v] = Withdrawer \/ owner[v] \in User
  BY <1>1 DEF MayMove, IsHeld
<1> QED BY <1>1, <1>2, <1>3, OwnedByUser DEF IsHeld

(* One that is recorded is the auto-withdrawer's, not paid, and its bonder's to claim. *)
LEMMA Recorded ==
  ASSUME WithdrawalsAssumption, VouchersInv, NEW v \in Voucher, bondings[v].bonder # Nobody
  PROVE  /\ payee[v] = Nobody /\ claimant[v] = bondings[v].bonder /\ v <= minted
         /\ bondings[v].bonder \in User
<1>1. IsHeld(v) /\ owner[v] = Withdrawer /\ Withdrawer # Manager /\ Withdrawer # Nobody
  BY Addresses DEF VouchersInv, IsHeld
<1>2. v \in Int /\ minted \in Nat /\ bondings[v].bonder \in User \cup {Nobody}
  BY DEF VouchersInv, VoucherTypeOK, Voucher
<1> QED BY <1>1, <1>2 DEF IsHeld

LEMMA ApproveKeeps ==
  ASSUME WithdrawalsAssumption, VouchersInv, NEW u \in User, NEW v \in Voucher, Approve(u, v)
  PROVE  VouchersInv'
<1>1. /\ UNCHANGED <<minted, vouchers, owner, bondings, claimant, payee, paused, wired, batches>>
      /\ approved' = approved \cup {v} /\ owner[v] = u
  BY DEF Approve, coreVars, autoVars, managerVars, history
<1>2. VoucherTypeOK /\ VoucherTypeOK'
  BY <1>1 DEF VouchersInv, VoucherTypeOK
<1>3. ASSUME NEW w \in Voucher PROVE IsHeld(w)'
  BY <1>1 DEF VouchersInv, IsHeld, Withdrawn
<1> QED BY <1>2, <1>3 DEF VouchersInv

LEMMA TransferKeeps ==
  ASSUME WithdrawalsAssumption, VouchersInv,
         NEW u \in User, NEW v \in Voucher, NEW to \in User \cup {Withdrawer, Manager}, Transfer(u, v, to)
  PROVE  VouchersInv'
<1>1. payee[v] = Nobody /\ bondings[v].bonder = Nobody /\ v <= minted
  BY OwnedByUser DEF Transfer
<1>2. Move(v, to) /\ UNCHANGED <<batches, wired, paused, bondings, payee>>
  BY DEF Transfer, coreVars, autoVars, managerVars
<1>3. v \in Int /\ minted \in Nat /\ VoucherTypeOK
  BY DEF VouchersInv, VoucherTypeOK, Voucher
<1>4. /\ claimant' \in [Voucher -> User \cup {Nobody}]
      /\ to \in User => claimant'[v] = to
      /\ \A w \in Voucher : w # v => claimant'[w] = claimant[w]
  <2>1. CASE to \in User /\ ClaimedBy(v, to)
    BY <1>3, <2>1, ClaimMoves
  <2>2. CASE to \notin User /\ UNCHANGED claimant
    BY <1>3, <2>2 DEF VoucherTypeOK
  <2> QED BY <2>1, <2>2 DEF Transfer
<1>5. owner'[v] = to /\ v \notin approved' /\ minted' = minted
  BY <1>2, <1>3, MoveMoves
<1>6. IsHeld(v)'
  BY <1>1, <1>2, <1>3, <1>4, <1>5 DEF IsHeld
<1>7. to \in Holders \ {Nobody}
  BY Addresses DEF Holders
<1>8. bondings' \in [Voucher -> [bonder : User \cup {Nobody}, deposit : Nat]]
      /\ payee' \in [Voucher -> User \cup {Nobody}]
  BY <1>2, <1>3 DEF VoucherTypeOK
<1> QED BY <1>1, <1>2, <1>4, <1>6, <1>7, <1>8, OneMoves

(* A voucher that the manager takes is paid for. *)
LEMMA ReceiveMoves ==
  ASSUME WithdrawalsAssumption, VoucherTypeOK, NEW v \in Voucher, NEW u \in User,
         Move(v, Manager), ReceiveVoucher(v, u)
  PROVE  /\ owner'[v] = Manager /\ payee'[v] = u /\ v \notin approved' /\ minted' = minted
         /\ Manager \notin User /\ Manager \in Holders \ {Nobody}
         /\ Withdrawn(vouchers'[v].batch)
         /\ payee' \in [Voucher -> User \cup {Nobody}]
         /\ \A w \in Voucher : w # v => payee'[w] = payee[w]
         /\ UNCHANGED <<paused, wired>>
<1>1. payee' = [payee EXCEPT ![v] = u] /\ Withdrawn(vouchers[v].batch) /\ UNCHANGED <<paused, wired>>
  BY DEF ReceiveVoucher, Withdrawn
<1>2. payee \in [Voucher -> User \cup {Nobody}]
  BY DEF VoucherTypeOK
<1>3. Manager \notin User /\ Manager \in Holders \ {Nobody}
  BY Addresses DEF Holders
<1> QED BY <1>1, <1>2, <1>3, MoveMoves

LEMMA SendToManagerKeeps ==
  ASSUME WithdrawalsAssumption, VouchersInv, NEW u \in User, NEW v \in Voucher,
         NEW receiver \in User, SendToManager(u, v, receiver)
  PROVE  VouchersInv'
<1>1. bondings[v].bonder = Nobody /\ v <= minted
  BY OwnedByUser DEF SendToManager
<1>2. /\ Move(v, Manager) /\ ReceiveVoucher(v, receiver) /\ ClaimedBy(v, receiver)
      /\ UNCHANGED <<batches, bondings>>
  BY DEF SendToManager, coreVars, autoVars
<1>3. v \in Int /\ minted \in Nat /\ VoucherTypeOK
  BY DEF VouchersInv, VoucherTypeOK, Voucher
<1>4. IsHeld(v)'
  BY <1>1, <1>2, <1>3, ReceiveMoves, ClaimMoves DEF IsHeld, Withdrawn
<1>5. bondings' \in [Voucher -> [bonder : User \cup {Nobody}, deposit : Nat]]
  BY <1>2, <1>3 DEF VoucherTypeOK
<1> QED BY <1>1, <1>2, <1>3, <1>4, <1>5, ReceiveMoves, ClaimMoves, OneMoves

(* Whoever bonds a voucher, of a user or held already, takes over its claim. *)
LEMMA BondWithNFTKeeps ==
  ASSUME WithdrawalsAssumption, VouchersInv,
         NEW u \in User, NEW v \in Voucher, NEW deposit \in Deposits, BondWithNFT(u, v, deposit)
  PROVE  VouchersInv'
<1>1. payee[v] = Nobody /\ v <= minted
  BY MovableIsUnpaid DEF BondWithNFT
<1>2. /\ Move(v, Withdrawer) /\ ClaimedBy(v, u) /\ UNCHANGED <<batches, wired, paused, payee>>
      /\ bondings' = [bondings EXCEPT ![v] = [bonder |-> u, deposit |-> deposit]]
  BY DEF BondWithNFT, Record, coreVars, managerVars
<1>3. u # Nobody /\ Withdrawer \notin User /\ Withdrawer \in Holders \ {Nobody}
  BY Addresses DEF Holders
<1>4. v \in Int /\ minted \in Nat /\ VoucherTypeOK
  BY DEF VouchersInv, VoucherTypeOK, Voucher
<1>5. deposit \in Nat
  BY DEF WithdrawalsAssumption
<1>6. /\ bondings'[v].bonder = u
      /\ bondings' \in [Voucher -> [bonder : User \cup {Nobody}, deposit : Nat]]
      /\ \A w \in Voucher : w # v => bondings'[w] = bondings[w]
  BY <1>2, <1>4, <1>5 DEF VoucherTypeOK
<1>7. IsHeld(v)'
  BY <1>1, <1>2, <1>3, <1>4, <1>6, MoveMoves, ClaimMoves DEF IsHeld
<1>8. payee' \in [Voucher -> User \cup {Nobody}]
  BY <1>2, <1>4 DEF VoucherTypeOK
<1> QED BY <1>1, <1>2, <1>3, <1>4, <1>6, <1>7, <1>8, ClaimMoves, OneMoves

(* What the auto-withdrawer releases: its record is gone. *)
LEMMA ReleaseForgets ==
  ASSUME VouchersInv, NEW v \in Voucher, Release(v)
  PROVE  /\ bondings'[v].bonder = Nobody
         /\ bondings' \in [Voucher -> [bonder : User \cup {Nobody}, deposit : Nat]]
         /\ \A w \in Voucher : w # v => bondings'[w] = bondings[w]
<1>1. bondings' = [bondings EXCEPT ![v] = [bonder |-> Nobody, deposit |-> 0]]
  BY DEF Release, NoBonding
<1> QED BY <1>1 DEF VouchersInv, VoucherTypeOK

LEMMA UnbondVoucherKeeps ==
  ASSUME WithdrawalsAssumption, VouchersInv,
         NEW u \in User, NEW v \in Voucher, UnbondVoucher(u, v)
  PROVE  VouchersInv'
<1>1. u # Nobody /\ u # Manager /\ u # Withdrawer /\ bondings[v].bonder = u
  BY Addresses DEF UnbondVoucher
<1>2. payee[v] = Nobody /\ v <= minted
  BY <1>1, Recorded
<1>3. Move(v, u) /\ ClaimedBy(v, u) /\ Release(v) /\ UNCHANGED <<batches, wired, paused, payee>>
  BY DEF UnbondVoucher, coreVars, managerVars
<1>4. v \in Int /\ minted \in Nat /\ VoucherTypeOK
  BY DEF VouchersInv, VoucherTypeOK, Voucher
<1>5. IsHeld(v)'
  BY <1>1, <1>2, <1>3, <1>4, MoveMoves, ClaimMoves, ReleaseForgets DEF IsHeld
<1>6. u \in Holders \ {Nobody} /\ payee' \in [Voucher -> User \cup {Nobody}]
  BY <1>1, <1>3, <1>4 DEF Holders, VoucherTypeOK
<1> QED BY <1>2, <1>3, <1>4, <1>5, <1>6, ReleaseForgets, ClaimMoves, OneMoves

LEMMA WithdrawKeeps ==
  ASSUME WithdrawalsAssumption, VouchersInv,
         NEW u \in User, NEW v \in Voucher, Withdraw(u, v)
  PROVE  VouchersInv'
<1> DEFINE bonder == bondings[v].bonder
<1>1. bonder \in User /\ claimant[v] = bonder /\ v <= minted
  BY Recorded DEF Withdraw
<1>2. /\ Move(v, Manager) /\ ReceiveVoucher(v, bonder) /\ Release(v)
      /\ UNCHANGED <<batches, claimant>>
  BY DEF Withdraw, coreVars
<1>3. v \in Int /\ minted \in Nat /\ VoucherTypeOK
  BY DEF VouchersInv, VoucherTypeOK, Voucher
<1> HIDE DEF bonder
<1>4. IsHeld(v)'
  BY <1>1, <1>2, <1>3, ReceiveMoves, ReleaseForgets DEF IsHeld, Withdrawn
<1>5. claimant' \in [Voucher -> User \cup {Nobody}] /\ \A w \in Voucher : claimant'[w] = claimant[w]
  BY <1>2, <1>3 DEF VoucherTypeOK
<1> QED BY <1>1, <1>2, <1>3, <1>4, <1>5, ReceiveMoves, ReleaseForgets, OneMoves

-----------------------------------------------------------------------------
(***************************************************************************)
(* The whole                                                               *)
(***************************************************************************)

Inv == PumpInv /\ BatchesInv /\ VouchersInv

LEMMA InitInv ==
  ASSUME PumpAssumption, WithdrawalsAssumption, Init
  PROVE  Inv
<1>1. PumpInv
  BY PumpInitInv DEF Init
<1>2. BatchesInv
  <2>1. [status |-> "open", expected |-> 0, unbonded |-> 0] \in Batches /\ 0 \in Batch
    BY DEF Batches, Batch, WithdrawalsAssumption
  <2> QED BY <2>1 DEF Init, BatchesInv
<1>3. /\ minted = 0 /\ vouchers = [v \in Voucher |-> [batch |-> 0, expected |-> 0]]
      /\ owner = [v \in Voucher |-> Nobody] /\ approved = {}
      /\ bondings = [v \in Voucher |-> [bonder |-> Nobody, deposit |-> 0]]
      /\ paused = FALSE /\ wired = TRUE
      /\ claimant = [v \in Voucher |-> Nobody] /\ payee = [v \in Voucher |-> Nobody]
  BY DEF Init, VoucherInit, AutoInit, ManagerInit, NoBonding
<1>4. VoucherTypeOK
  <2>1. 0 \in Batch /\ 0 <= MaxVoucher /\ MaxVoucher \in Nat
    BY DEF Batch, WithdrawalsAssumption
  <2>2. vouchers \in [Voucher -> [batch : Batch, expected : Nat]]
    BY <1>3, <2>1
  <2>3. bondings \in [Voucher -> [bonder : User \cup {Nobody}, deposit : Nat]]
    BY <1>3
  <2> QED BY <1>3, <2>1, <2>2, <2>3 DEF VoucherTypeOK, Holders
<1>5. \A v \in Voucher : IsHeld(v)
  BY <1>3, Addresses DEF IsHeld
<1> QED BY <1>1, <1>2, <1>4, <1>5 DEF Inv, VouchersInv

(* A user's step moves no batch; only a new unbonding adds to the open one. *)
LEMMA UserStepKeeps ==
  ASSUME WithdrawalsAssumption, Inv, NEW u \in User, UserStep(u)
  PROVE  Inv'
<1>1. PumpInv /\ BatchesInv /\ VouchersInv
  BY DEF Inv
<1>2. Minted \subseteq Voucher
  BY <1>1 DEF VouchersInv, VoucherTypeOK, Minted, Voucher, WithdrawalsAssumption
<1>3. UNCHANGED <<pumpVars, openBatch>>
  BY DEF UserStep, Unbond, BondWithLdAssets, Approve, Transfer, SendToManager, BondWithNFT,
         UnbondVoucher, Withdraw, coreVars
<1>4. PumpInv'
  BY <1>1, <1>3, PumpStays
<1>5. CASE \E e \in Expected : \/ Unbond(u, e)
                               \/ \E d \in Deposits : BondWithLdAssets(u, e, d)
  <2> PICK e \in Expected : Unbond(u, e) \/ \E d \in Deposits : BondWithLdAssets(u, e, d)
    BY <1>5
  <2>1. BatchesInv'
    BY <1>1, <1>3, MintKeepsBatches DEF Unbond, BondWithLdAssets
  <2>2. VouchersInv'
    BY <1>1, MintKeeps
  <2> QED BY <1>4, <2>1, <2>2 DEF Inv
<1>6. CASE \E v \in Minted :
             \/ Approve(u, v)
             \/ \E to \in User \cup {Withdrawer, Manager} : Transfer(u, v, to)
             \/ \E receiver \in User : SendToManager(u, v, receiver)
             \/ \E d \in Deposits : BondWithNFT(u, v, d)
             \/ UnbondVoucher(u, v)
             \/ Withdraw(u, v)
  <2> PICK v \in Minted :
             \/ Approve(u, v)
             \/ \E to \in User \cup {Withdrawer, Manager} : Transfer(u, v, to)
             \/ \E receiver \in User : SendToManager(u, v, receiver)
             \/ \E d \in Deposits : BondWithNFT(u, v, d)
             \/ UnbondVoucher(u, v)
             \/ Withdraw(u, v)
    BY <1>6
  <2>1. batches' = batches /\ v \in Voucher
    BY <1>2 DEF Approve, Transfer, SendToManager, BondWithNFT, UnbondVoucher, Withdraw, coreVars
  <2>2. BatchesInv'
    BY <1>1, <1>3, <2>1 DEF BatchesInv
  <2>3. VouchersInv'
    <3> QED BY <1>1, <2>1, ApproveKeeps, TransferKeeps, SendToManagerKeeps, BondWithNFTKeeps,
               UnbondVoucherKeeps, WithdrawKeeps
  <2> QED BY <1>4, <2>2, <2>3 DEF Inv
<1> QED BY <1>5, <1>6 DEF UserStep

LEMMA NextKeeps ==
  ASSUME PumpAssumption, WithdrawalsAssumption, Inv, [Next]_vars
  PROVE  Inv'
<1>1. PumpInv /\ BatchesInv /\ VouchersInv
  BY DEF Inv
<1>2. CASE PumpNext /\ UNCHANGED <<coreVars, voucherVars, autoVars, managerVars, history>>
  <2>1. BatchesInv' /\ \A b \in Batch : Withdrawn(b)' = Withdrawn(b)
    BY <1>1, <1>2 DEF BatchesInv, coreVars, Withdrawn
  <2>2. VouchersInv'
    BY <1>1, <1>2, <2>1, VouchersStay
       DEF voucherVars, autoVars, managerVars, history, VouchersInv, VoucherTypeOK
  <2> QED BY <1>1, <1>2, <2>1, <2>2, PumpNextKeeps DEF Inv
<1>3. CASE \E u \in User : UserStep(u)
  BY <1>3, UserStepKeeps
<1>4. CASE CloseBatch
  <2>1. BatchesInv' /\ \A b \in Batch : Withdrawn(b)' = Withdrawn(b)
    BY <1>1, <1>4, CloseBatchKeepsBatches
  <2>2. VouchersInv'
    BY <1>1, <1>4, <2>1, VouchersStay
       DEF CloseBatch, voucherVars, autoVars, managerVars, history, VouchersInv, VoucherTypeOK
  <2>3. PumpInv'
    BY <1>1, <1>4, PumpStays DEF CloseBatch
  <2> QED BY <2>1, <2>2, <2>3 DEF Inv
<1>5. CASE \E b \in Batch : \/ \E amount \in 0..batches[b].expected : PayBatch(b, amount)
                            \/ PayBatchInEmergency(b)
  <2> PICK b \in Batch : \/ \E amount \in 0..batches[b].expected : PayBatch(b, amount)
                         \/ PayBatchInEmergency(b)
    BY <1>5
  <2>1. BatchesInv' /\ \A c \in Batch : Withdrawn(c) => Withdrawn(c)'
    BY <1>1, PayKeepsBatches
  <2>2. UNCHANGED <<voucherVars, autoVars, managerVars, history>>
    BY DEF PayBatch, PayBatchInEmergency
  <2>3. VouchersInv'
    BY <1>1, <2>1, <2>2, VouchersStay
       DEF voucherVars, autoVars, managerVars, history, VouchersInv, VoucherTypeOK
  <2>4. PumpInv'
    <3>1. CASE PayBatchInEmergency(b)
      BY <1>1, <3>1, PumpStays DEF PayBatchInEmergency
    <3>2. CASE \E amount \in 0..batches[b].expected : PayBatch(b, amount)
      <4> PICK amount \in 0..batches[b].expected : PayBatch(b, amount)
        BY <3>2
      <4>1. batches[b].expected \in Nat /\ remote \in Nat
        BY <1>1 DEF BatchesInv, Batches, PumpInv, PumpTypeOK
      <4>2. remote' \in Nat
        BY <4>1 DEF PayBatch
      <4>3. UNCHANGED <<destination, refundee, ica, channel, packets, nextSeq, transit, delivered, local>>
        BY DEF PayBatch, config, account
      <4> QED BY <1>1, <4>2, <4>3 DEF PumpInv, PumpTypeOK, RegisteredIsOpen
    <3> QED BY <3>1, <3>2
  <2> QED BY <2>1, <2>3, <2>4 DEF Inv
<1>6. CASE Pause \/ Unpause \/ \E right \in BOOLEAN : Rewire(right)
  <2>1. UNCHANGED <<pumpVars, coreVars, voucherVars, autoVars, history>>
        /\ paused' \in BOOLEAN /\ wired' \in BOOLEAN
    BY <1>1, <1>6 DEF Pause, Unpause, Rewire, VouchersInv, VoucherTypeOK
  <2>2. BatchesInv' /\ \A b \in Batch : Withdrawn(b)' = Withdrawn(b)
    BY <1>1, <2>1 DEF BatchesInv, coreVars, Withdrawn
  <2>3. VouchersInv'
    BY <1>1, <2>1, <2>2, VouchersStay DEF voucherVars, autoVars, history, VouchersInv, VoucherTypeOK
  <2> QED BY <1>1, <2>1, <2>2, <2>3, PumpStays DEF Inv
<1>7. CASE UNCHANGED vars
  <2>1. BatchesInv' /\ \A b \in Batch : Withdrawn(b)' = Withdrawn(b)
    BY <1>1, <1>7 DEF vars, BatchesInv, coreVars, Withdrawn
  <2>2. VouchersInv'
    BY <1>1, <1>7, <2>1, VouchersStay
       DEF vars, voucherVars, autoVars, managerVars, history, VouchersInv, VoucherTypeOK
  <2> QED BY <1>1, <1>7, <2>1, <2>2, PumpStays DEF Inv, vars
<1> QED BY <1>2, <1>3, <1>4, <1>5, <1>6, <1>7 DEF Next

-----------------------------------------------------------------------------
(***************************************************************************)
(* Theorems about holders                                                  *)
(***************************************************************************)

THEOREM Invariance == Spec => []Inv
<1>1. Init => Inv
  BY InitInv, PumpAssumption, WithdrawalsAssumption
<1>2. Inv /\ [Next]_vars => Inv'
  BY NextKeeps, PumpAssumption, WithdrawalsAssumption
<1> QED BY <1>1, <1>2, PTL DEF Spec

(* An account that the pump believes to have can send. *)
THEOREM RegisteredIsOpenAlways == Spec => []RegisteredIsOpen
<1>1. Inv => RegisteredIsOpen
  BY DEF Inv, PumpInv
<1> QED BY <1>1, Invariance, PTL

(* A voucher is paid once, to who held it or bonded it last, or was named by its holder. *)
THEOREM PaidToClaimantAlways == Spec => []PaidToClaimant
<1>1. Inv => PaidToClaimant
  <2> SUFFICES ASSUME Inv, NEW v \in Minted, payee[v] # Nobody
               PROVE  /\ owner[v] = Manager
                      /\ payee[v] = claimant[v]
                      /\ batches[vouchers[v].batch].status = "withdrawn"
    BY DEF PaidToClaimant
  <2>1. v \in Voucher
    BY WithdrawalsAssumption DEF Inv, VouchersInv, VoucherTypeOK, Minted, Voucher
  <2> QED BY <2>1 DEF Inv, VouchersInv, IsHeld, Withdrawn
<1> QED BY <1>1, Invariance, PTL

(* The auto-withdrawer holds every voucher it has a record of. *)
THEOREM BondedIsHeldAlways == Spec => []BondedIsHeld
<1>1. Inv => BondedIsHeld
  BY DEF Inv, VouchersInv, IsHeld, BondedIsHeld
<1> QED BY <1>1, Invariance, PTL

-----------------------------------------------------------------------------
(***************************************************************************)
(* What the auto-withdrawer holds                                          *)
(***************************************************************************)

(* The records are backed, and the auto-withdrawer's funds are a number: with the balance
   below the deposit of a record, a release would leave it in debt. *)
DepositsInv == DepositsCovered /\ autoFunds \in Int

Deposited == [v \in Voucher |-> bondings[v].deposit]

LEMMA VouchersAreFinite == WithdrawalsAssumption => IsFiniteSet(Voucher)
  BY FS_Interval DEF WithdrawalsAssumption, Voucher

(* A record is written or cleared, and the funds change by as much, or by more. *)
LEMMA OneRecordChanges ==
  ASSUME WithdrawalsAssumption, VoucherTypeOK, DepositsInv,
         NEW v \in Voucher, NEW bonder, NEW d \in Nat, NEW more \in Nat,
         bondings' = [bondings EXCEPT ![v] = [bonder |-> bonder, deposit |-> d]],
         autoFunds' = autoFunds - bondings[v].deposit + d + more
  PROVE  DepositsInv'
<1> DEFINE f == Deposited
           g == Deposited'
<1>1. bondings \in [Voucher -> [bonder : User \cup {Nobody}, deposit : Nat]]
  BY DEF VoucherTypeOK
<1>2. \A w \in Voucher : bondings'[w] = IF w = v THEN [bonder |-> bonder, deposit |-> d] ELSE bondings[w]
  BY <1>1
<1>3. \A w \in Voucher : f[w] \in Int /\ g[w] \in Int
  BY <1>1, <1>2 DEF Deposited
<1>4. \A w \in Voucher \ {v} : f[w] = g[w]
  BY <1>2 DEF Deposited
<1>5. f[v] = bondings[v].deposit /\ g[v] = d
  BY <1>2 DEF Deposited
<1>6. SumFunctionOnSet(f, Voucher) <= autoFunds /\ autoFunds \in Int
  BY DEF DepositsInv, DepositsCovered, SumFunction, Deposited
<1>7. DepositsCovered' <=> SumFunctionOnSet(g, Voucher) <= autoFunds'
  BY DEF DepositsCovered, SumFunction, Deposited
<1>8. IsFiniteSet(Voucher)
  BY VouchersAreFinite
<1>9. f[v] \in Int
  BY <1>3
<1> HIDE DEF f, g
<1>10. SumFunctionOnSet(g, Voucher) = SumFunctionOnSet(f, Voucher) - f[v] + g[v]
  BY <1>3, <1>4, <1>8, SumChange
<1>11. SumFunctionOnSet(f, Voucher) \in Int
  BY <1>3, <1>8, SumType
<1>12. autoFunds' = autoFunds - f[v] + d + more /\ autoFunds' \in Int
  BY <1>5, <1>6, <1>9
<1>13. SumFunctionOnSet(g, Voucher) <= autoFunds'
  BY <1>5, <1>6, <1>9, <1>10, <1>11, <1>12
<1> QED BY <1>7, <1>12, <1>13 DEF DepositsInv

LEMMA DepositsStay ==
  ASSUME DepositsInv, UNCHANGED <<bondings, autoFunds>>
  PROVE  DepositsInv'
  BY DEF DepositsInv, DepositsCovered

(* A record may be written over another, whose deposit stays with the auto-withdrawer. *)
LEMMA RecordKeeps ==
  ASSUME WithdrawalsAssumption, VoucherTypeOK, DepositsInv,
         NEW v \in Voucher, NEW u \in User, NEW d \in Deposits, Record(v, u, d)
  PROVE  DepositsInv'
<1>1. d \in Nat /\ autoFunds \in Int /\ bondings[v].deposit \in Nat
  BY DEF WithdrawalsAssumption, DepositsInv, VoucherTypeOK
<1>2. autoFunds' = autoFunds - bondings[v].deposit + d + bondings[v].deposit
  BY <1>1 DEF Record
<1> QED BY <1>1, <1>2, OneRecordChanges DEF Record

LEMMA ReleaseKeeps ==
  ASSUME WithdrawalsAssumption, VoucherTypeOK, DepositsInv, NEW v \in Voucher, Release(v)
  PROVE  DepositsInv'
<1>1. autoFunds \in Int /\ bondings[v].deposit \in Int
  BY DEF VoucherTypeOK, DepositsInv
<1>2. autoFunds' = autoFunds - bondings[v].deposit + 0 + 0
  BY <1>1 DEF Release
<1>3. bondings' = [bondings EXCEPT ![v] = [bonder |-> Nobody, deposit |-> 0]]
  BY DEF Release, NoBonding
<1> QED BY <1>2, <1>3, OneRecordChanges

LEMMA UserStepKeepsDeposits ==
  ASSUME WithdrawalsAssumption, Inv, DepositsInv, NEW u \in User, UserStep(u)
  PROVE  DepositsInv'
<1>1. VoucherTypeOK /\ Minted \subseteq Voucher
  BY DEF Inv, VouchersInv, VoucherTypeOK, Minted, Voucher, WithdrawalsAssumption
<1>2. CASE \E e \in Expected : Unbond(u, e)
  BY <1>2, DepositsStay DEF Unbond, autoVars
<1>3. CASE \E e \in Expected, d \in Deposits : BondWithLdAssets(u, e, d)
  <2> PICK e \in Expected, d \in Deposits : BondWithLdAssets(u, e, d)
    BY <1>3
  <2>1. minted + 1 \in Voucher
    BY <1>1 DEF BondWithLdAssets, Mint, VoucherTypeOK, Voucher, WithdrawalsAssumption
  <2>2. Record(minted + 1, u, d)
    BY DEF BondWithLdAssets, RecordMinted
  <2> QED BY <1>1, <2>1, <2>2, RecordKeeps
<1>4. CASE \E v \in Minted : \/ Approve(u, v)
                             \/ \E to \in User \cup {Withdrawer, Manager} : Transfer(u, v, to)
                             \/ \E receiver \in User : SendToManager(u, v, receiver)
  BY <1>4, DepositsStay DEF Approve, Transfer, SendToManager, autoVars
<1>5. CASE \E v \in Minted, d \in Deposits : BondWithNFT(u, v, d)
  BY <1>1, <1>5, RecordKeeps DEF BondWithNFT
<1>6. CASE \E v \in Minted : UnbondVoucher(u, v) \/ Withdraw(u, v)
  BY <1>1, <1>6, ReleaseKeeps DEF UnbondVoucher, Withdraw
<1> QED BY <1>2, <1>3, <1>4, <1>5, <1>6 DEF UserStep

LEMMA NextKeepsDeposits ==
  ASSUME WithdrawalsAssumption, Inv, DepositsInv, [Next]_vars
  PROVE  DepositsInv'
<1>1. CASE \E u \in User : UserStep(u)
  BY <1>1, UserStepKeepsDeposits
<1>2. CASE UNCHANGED <<bondings, autoFunds>>
  BY <1>2, DepositsStay
<1> QED BY <1>1, <1>2 DEF Next, vars, autoVars, CloseBatch, PayBatch, PayBatchInEmergency, Pause, Unpause, Rewire

LEMMA InitDeposits ==
  ASSUME WithdrawalsAssumption, Init
  PROVE  DepositsInv
<1>1. bondings = [v \in Voucher |-> [bonder |-> Nobody, deposit |-> 0]] /\ autoFunds = 0
  BY DEF Init, AutoInit, NoBonding
<1>2. \A v \in Voucher : Deposited[v] = 0
  BY <1>1 DEF Deposited
<1>3. DepositsCovered <=> SumFunctionOnSet(Deposited, Voucher) <= autoFunds
  BY DEF DepositsCovered, SumFunction, Deposited
<1>4. SumFunctionOnSet(Deposited, Voucher) = 0
  BY <1>2, VouchersAreFinite, SumZero
<1> QED BY <1>1, <1>3, <1>4 DEF DepositsInv

(* The auto-withdrawer can give back the deposit of every record it has, in any order,
   also where one bonding was written over another. *)
THEOREM DepositsCoveredAlways == Spec => []DepositsCovered
<1>1. Init => DepositsInv
  BY InitDeposits, WithdrawalsAssumption
<1>2. Inv /\ DepositsInv /\ [Next]_vars => DepositsInv'
  BY NextKeepsDeposits, WithdrawalsAssumption
<1>3. DepositsInv => DepositsCovered
  BY DEF DepositsInv
<1> QED BY <1>1, <1>2, <1>3, Invariance, PTL DEF Spec

-----------------------------------------------------------------------------
(***************************************************************************)
(* The pump moves funds and makes none: a transfer that sets out is not    *)
(* the same as one that is under way, as sequence numbers are never used   *)
(* twice.                                                                  *)
(***************************************************************************)

(* Sequence numbers of packets differ; a transfer has the number of the packet that made
   it, which was received before. *)
TransfersInv ==
  /\ IsFiniteSet(transit)
  /\ \A p \in packets : p.seq < nextSeq
  /\ \A p, q \in packets : p.seq = q.seq => p = q
  /\ \A t \in transit : /\ t.seq < nextSeq
                        /\ \A p \in packets : p.seq = t.seq => p.fate # "sent"

LEMMA PushKeepsTransfers ==
  ASSUME PumpAssumption, PumpInv, TransfersInv, NEW coins \in Pushes, NEW brought, Push(coins, brought)
  PROVE  TransfersInv'
<1>1. coins \in Seq(Nat) /\ Len(coins) \in Nat /\ DOMAIN coins = 1..Len(coins)
  BY DEF PumpAssumption
<1>2. PumpTypeOK /\ nextSeq \in Nat
  BY DEF PumpInv, PumpTypeOK
<1>3. packets' = packets \cup PacketsFor(coins) /\ nextSeq' = nextSeq + Len(coins) /\ transit' = transit
  BY DEF Push
<1>4. ASSUME NEW p \in PacketsFor(coins)
      PROVE  \E i \in 1..Len(coins) :
               p = [seq |-> nextSeq + i - 1, chan |-> channel.id, amount |-> coins[i], fate |-> "sent"]
  BY <1>1 DEF PacketsFor
<1>5. \A p \in PacketsFor(coins) : p.seq \in Nat /\ p.seq >= nextSeq /\ p.seq < nextSeq'
  BY <1>1, <1>2, <1>3, <1>4
<1>6. ASSUME NEW p \in PacketsFor(coins), NEW q \in PacketsFor(coins), p.seq = q.seq
      PROVE  p = q
  <2>1. PICK i \in 1..Len(coins) :
          p = [seq |-> nextSeq + i - 1, chan |-> channel.id, amount |-> coins[i], fate |-> "sent"]
    BY <1>4
  <2>2. PICK j \in 1..Len(coins) :
          q = [seq |-> nextSeq + j - 1, chan |-> channel.id, amount |-> coins[j], fate |-> "sent"]
    BY <1>4
  <2>3. nextSeq + i - 1 = nextSeq + j - 1
    BY <1>6, <2>1, <2>2
  <2>4. i = j
    BY <1>1, <1>2, <2>3
  <2> QED BY <2>1, <2>2, <2>4
<1>7. \A p \in packets : p.seq \in Nat /\ p.seq < nextSeq /\ p.seq < nextSeq'
  BY <1>1, <1>2, <1>3 DEF TransfersInv, PumpTypeOK, Packets
<1>8. \A t \in transit : t.seq \in Nat /\ t.seq < nextSeq /\ t.seq < nextSeq'
  BY <1>1, <1>2, <1>3 DEF TransfersInv, PumpTypeOK, Transfers
<1>9. \A p, q \in packets' : p.seq = q.seq => p = q
  BY <1>2, <1>3, <1>5, <1>6, <1>7 DEF TransfersInv
<1>10. \A t \in transit : \A p \in packets' : p.seq = t.seq => p.fate # "sent"
  BY <1>2, <1>3, <1>5, <1>8 DEF TransfersInv
<1> QED BY <1>3, <1>5, <1>7, <1>8, <1>9, <1>10 DEF TransfersInv

(* What a received packet leaves in its place *)
LEMMA ReceiveKeepsTransfers ==
  ASSUME PumpInv, TransfersInv, NEW p \in packets, Receive(p)
  PROVE  TransfersInv'
<1>1. p \in Packets /\ p.fate = "sent" /\ nextSeq' = nextSeq /\ p.seq < nextSeq
  BY DEF PumpInv, PumpTypeOK, Receive, TransfersInv
<1>2. PICK q \in {[p EXCEPT !.fate = "executed"], [p EXCEPT !.fate = "refused"]} :
        /\ packets' = (packets \ {p}) \cup {q}
        /\ transit' = transit \/ transit' = transit \cup {[seq |-> p.seq, amount |-> p.amount]}
  BY DEF Receive
<1>3. q.seq = p.seq /\ q.fate # "sent"
  BY <1>1, <1>2 DEF Packets
<1>4. IsFiniteSet(transit')
  <2>1. IsFiniteSet(transit \cup {[seq |-> p.seq, amount |-> p.amount]})
    BY FS_AddElement DEF TransfersInv
  <2> QED BY <1>2, <2>1 DEF TransfersInv
<1>5. \A r \in packets' : r.seq < nextSeq'
  BY <1>1, <1>2, <1>3 DEF TransfersInv
<1>6. \A r, s \in packets' : r.seq = s.seq => r = s
  BY <1>2, <1>3 DEF TransfersInv
<1>7. ASSUME NEW t \in transit'
      PROVE  t.seq < nextSeq' /\ \A r \in packets' : r.seq = t.seq => r.fate # "sent"
  <2>1. CASE t \in transit
    BY <1>1, <1>2, <1>3, <2>1 DEF TransfersInv
  <2>2. CASE t = [seq |-> p.seq, amount |-> p.amount]
    BY <1>1, <1>2, <1>3, <2>2 DEF TransfersInv
  <2> QED BY <1>2, <2>1, <2>2
<1> QED BY <1>4, <1>5, <1>6, <1>7 DEF TransfersInv

(* Fewer packets and transfers, of which nothing changed *)
LEMMA FewerKeepTransfers ==
  ASSUME TransfersInv, packets' \subseteq packets, transit' \subseteq transit, nextSeq' = nextSeq
  PROVE  TransfersInv'
<1>1. IsFiniteSet(transit')
  BY FS_Subset DEF TransfersInv
<1> QED BY <1>1 DEF TransfersInv

LEMMA PumpNextKeepsTransfers ==
  ASSUME PumpAssumption, PumpInv, TransfersInv, PumpNext
  PROVE  TransfersInv'
<1>1. CASE \E brought \in Brought, coins \in Pushes : Push(coins, brought)
  BY <1>1, PushKeepsTransfers
<1>2. CASE \E p \in packets : Receive(p)
  BY <1>2, ReceiveKeepsTransfers
<1>3. CASE packets' \subseteq packets /\ transit' \subseteq transit /\ nextSeq' = nextSeq
  BY <1>3, FewerKeepTransfers
<1>4. CASE SetDestination \/ SetRefundee \/ Refund \/ OpenAck \/ \E brought \in Brought : RegisterICA(brought)
  BY <1>3, <1>4 DEF SetDestination, SetRefundee, Refund, OpenAck, RegisterICA
<1>5. CASE \E p \in packets : SudoAnswer(p) \/ SudoTimeout(p)
  BY <1>3, <1>5 DEF SudoAnswer, SudoTimeout
<1>6. CASE \E t \in transit : TransferArrives(t) \/ TransferTimesOut(t)
  BY <1>3, <1>6 DEF TransferArrives, TransferTimesOut
<1> QED BY <1>1, <1>2, <1>4, <1>5, <1>6 DEF PumpNext, PumpExecute, PumpSudo

Funds == delivered + InTransit + remote

Amount == [t \in Transfers |-> t.amount]

(* The amounts of any transfers, as a sum of one function *)
LEMMA TransfersSum ==
  ASSUME NEW T, IsFiniteSet(T), T \subseteq Transfers
  PROVE  /\ SumFunction([t \in T |-> t.amount]) = SumFunctionOnSet(Amount, T)
         /\ SumFunctionOnSet(Amount, T) \in Nat
<1> DEFINE f == [t \in T |-> t.amount]
<1>1. SumFunction(f) = SumFunctionOnSet(f, T)
  BY DEF SumFunction
<1>2. \A t \in T : f[t] = Amount[t] /\ f[t] \in Int /\ Amount[t] \in Nat
  BY DEF Amount, Transfers
<1>3. \A t \in T : f[t] \in Int /\ Amount[t] \in Int
  BY <1>2
<1> HIDE DEF f
<1>4. SumFunctionOnSet(f, T) = SumFunctionOnSet(Amount, T)
  BY <1>2, <1>3, SumMonotone
<1>5. SumFunctionOnSet(Amount, T) \in Nat
  BY <1>2, SumType
<1> QED BY <1>1, <1>4, <1>5 DEF f

LEMMA OneTransferMore ==
  ASSUME NEW T, IsFiniteSet(T), NEW t, t \notin T, T \cup {t} \subseteq Transfers
  PROVE  SumFunctionOnSet(Amount, T \cup {t}) = SumFunctionOnSet(Amount, T) + t.amount
<1>1. \A x \in T \cup {t} : Amount[x] \in Int /\ Amount[x] = x.amount
  BY DEF Amount, Transfers
<1> QED BY <1>1, SumInsert

(* Every step of the pump and of its account moves funds along. *)
LEMMA PumpNextKeepsFunds ==
  ASSUME PumpAssumption, PumpInv, TransfersInv, PumpNext
  PROVE  Funds' = Funds
<1> DEFINE S == SumFunctionOnSet(Amount, transit)
           S1 == SumFunctionOnSet(Amount, transit')
<1>1. /\ PumpTypeOK /\ delivered \in Nat /\ remote \in Nat /\ transit \subseteq Transfers
      /\ IsFiniteSet(transit)
  BY DEF PumpInv, PumpTypeOK, TransfersInv
<1>2. transit' \subseteq Transfers /\ IsFiniteSet(transit')
  BY PumpNextKeeps, PumpNextKeepsTransfers DEF PumpInv, PumpTypeOK, TransfersInv
<1>3. InTransit = S /\ S \in Nat
  BY <1>1, TransfersSum DEF InTransit
<1>4. InTransit' = S1 /\ S1 \in Nat
  BY <1>2, TransfersSum DEF InTransit
<1>5. CASE UNCHANGED <<delivered, remote, transit>>
  BY <1>5 DEF Funds, InTransit
<1>6. CASE \E p \in packets : Receive(p)
  <2> PICK p \in packets : Receive(p)
    BY <1>6
  <2> DEFINE t == [seq |-> p.seq, amount |-> p.amount]
  <2>1. CASE UNCHANGED <<remote, transit>>
    BY <1>5, <2>1 DEF Receive
  <2>2. CASE /\ p.amount <= remote
             /\ remote' = remote - p.amount
             /\ transit' = transit \cup {t}
    <3>1. t \notin transit /\ t.amount = p.amount /\ p.amount \in Nat /\ delivered' = delivered
      BY <1>1 DEF TransfersInv, Receive, PumpTypeOK, Packets
    <3> HIDE DEF t
    <3>2. S1 = S + t.amount
      BY <1>1, <1>2, <2>2, <3>1, OneTransferMore
    <3>3. InTransit' = InTransit + p.amount
      BY <1>3, <1>4, <3>1, <3>2
    <3>4. remote' = remote - p.amount
      BY <2>2
    <3>5. delivered \in Int /\ InTransit \in Int /\ remote \in Int /\ p.amount \in Int
      BY <1>1, <1>3, <3>1
    <3>6. Funds' = delivered + (InTransit + p.amount) + (remote - p.amount)
      BY <3>1, <3>3, <3>4 DEF Funds
    <3> QED BY <3>5, <3>6 DEF Funds
  <2> QED BY <2>1, <2>2 DEF Receive
<1>7. CASE \E t \in transit : TransferArrives(t) \/ TransferTimesOut(t)
  <2> PICK t \in transit : TransferArrives(t) \/ TransferTimesOut(t)
    BY <1>7
  <2>1. /\ transit' = transit \ {t} /\ transit' \cup {t} = transit /\ t \notin transit'
        /\ t.amount \in Nat
    BY <1>1 DEF TransferArrives, TransferTimesOut, Transfers
  <2>2. S = S1 + t.amount
    <3>1. SumFunctionOnSet(Amount, transit' \cup {t}) = S1 + t.amount
      BY <1>1, <1>2, <2>1, OneTransferMore
    <3> QED BY <2>1, <3>1
  <2>3. \/ delivered' = delivered + t.amount /\ remote' = remote
        \/ remote' = remote + t.amount /\ delivered' = delivered
    BY DEF TransferArrives, TransferTimesOut
  <2>4. InTransit = InTransit' + t.amount /\ InTransit' \in Nat
    BY <1>3, <1>4, <2>2
  <2>5. delivered \in Int /\ InTransit' \in Int /\ remote \in Int /\ t.amount \in Int
    BY <1>1, <2>1, <2>4
  <2>6. Funds = delivered + (InTransit' + t.amount) + remote
    BY <2>4 DEF Funds
  <2>7. \/ Funds' = (delivered + t.amount) + InTransit' + remote
        \/ Funds' = delivered + InTransit' + (remote + t.amount)
    BY <2>3 DEF Funds
  <2> QED BY <2>5, <2>6, <2>7
<1>8. CASE PumpExecute \/ PumpSudo
  BY <1>5, <1>8 DEF PumpExecute, PumpSudo, SetDestination, SetRefundee, Refund, RegisterICA, Push,
         OpenAck, SudoAnswer, SudoTimeout
<1> QED BY <1>6, <1>7, <1>8 DEF PumpNext

-----------------------------------------------------------------------------
(***************************************************************************)
(* What is owed and what there is to pay it with                           *)
(***************************************************************************)

WithdrawnBatches == {b \in Batch : Withdrawn(b)}
VouchersOf(b) == {v \in Minted : vouchers[v].batch = b}
Paid == {v \in Voucher : payee[v] # Nobody}

Unbonded == [b \in Batch |-> batches[b].unbonded]
Worth == [v \in Voucher |-> vouchers[v].expected]
PayoutOf == [v \in Voucher |-> Payout(v)]

(* What came for the withdrawn batches is there, or has been paid out. *)
FundsAreUnbonded == Funds = SumFunctionOnSet(Unbonded, WithdrawnBatches)

NoMoreThanExpected ==
  \A b \in Batch : Withdrawn(b) => batches[b].unbonded <= batches[b].expected

(* A batch expects what its vouchers say. *)
ExpectedIsMinted == \A b \in Batch : batches[b].expected = SumFunctionOnSet(Worth, VouchersOf(b))

(* Each paid voucher was paid what it still would be: its batch does not change any more. *)
PaidIsOwed == paidOut = SumFunctionOnSet(PayoutOf, Paid)

FundsInv ==
  TransfersInv /\ FundsAreUnbonded /\ NoMoreThanExpected /\ ExpectedIsMinted /\ PaidIsOwed

(* The steps, by what they do to these sums: a voucher is minted, a batch is withdrawn, a
   voucher is paid, or the pump moves funds. *)
MintsVoucher == \E holder, e : e \in Expected /\ Mint(holder, e) /\ UNCHANGED <<openBatch, pumpVars, payee, paidOut>>
BatchIsPaid == \E b \in Batch : \E amount \in 0..batches[b].expected : PayBatch(b, amount)
VoucherIsPaid ==
  \E v \in Voucher, u \in User : /\ ReceiveVoucher(v, u) /\ payee[v] = Nobody
                                 /\ UNCHANGED <<pumpVars, coreVars, minted, vouchers>>
FundsMove ==
  /\ UNCHANGED <<minted, vouchers, payee, paidOut>>
  /\ \A b \in Batch : /\ batches'[b].expected = batches[b].expected
                      /\ batches'[b].unbonded = batches[b].unbonded
                      /\ Withdrawn(b)' = Withdrawn(b)
  /\ PumpNext \/ UNCHANGED pumpVars

LEMMA UserStepPays ==
  ASSUME WithdrawalsAssumption, Inv, NEW u \in User, UserStep(u)
  PROVE  MintsVoucher \/ VoucherIsPaid \/ FundsMove
<1>1. VouchersInv /\ VoucherTypeOK
  BY DEF Inv, VouchersInv
<1>2. Minted \subseteq Voucher
  BY <1>1 DEF VoucherTypeOK, Minted, Voucher, WithdrawalsAssumption
<1>3. CASE \E e \in Expected : Unbond(u, e) \/ \E d \in Deposits : BondWithLdAssets(u, e, d)
  <2> PICK e \in Expected : Unbond(u, e) \/ \E d \in Deposits : BondWithLdAssets(u, e, d)
    BY <1>3
  <2>1. Mint(u, e) \/ Mint(Withdrawer, e)
    BY DEF Unbond, BondWithLdAssets
  <2>2. UNCHANGED <<openBatch, pumpVars, payee, paidOut>>
    BY DEF Unbond, BondWithLdAssets, managerVars
  <2> QED BY <2>1, <2>2 DEF MintsVoucher
<1>4. ASSUME NEW v \in Minted,
             \/ Approve(u, v) \/ UnbondVoucher(u, v)
             \/ \E to \in User \cup {Withdrawer, Manager} : Transfer(u, v, to)
             \/ \E d \in Deposits : BondWithNFT(u, v, d)
      PROVE  FundsMove
  <2>1. UNCHANGED <<pumpVars, batches, minted, vouchers, payee, paidOut>>
    BY <1>4 DEF Approve, UnbondVoucher, Transfer, BondWithNFT, Move, coreVars, managerVars, history
  <2> QED BY <2>1 DEF FundsMove, Withdrawn
<1>5. ASSUME NEW v \in Minted, Withdraw(u, v) \/ \E receiver \in User : SendToManager(u, v, receiver)
      PROVE  VoucherIsPaid
  <2>1. v \in Voucher
    BY <1>2
  <2>2. CASE \E receiver \in User : SendToManager(u, v, receiver)
    <3>1. payee[v] = Nobody
      BY <1>1, <2>1, <2>2, OwnedByUser DEF SendToManager
    <3> QED BY <2>1, <2>2, <3>1 DEF SendToManager, Move, VoucherIsPaid
  <2>3. CASE Withdraw(u, v)
    <3>1. payee[v] = Nobody /\ bondings[v].bonder \in User
      BY <1>1, <2>1, <2>3, Recorded DEF Withdraw
    <3> QED BY <2>1, <2>3, <3>1 DEF Withdraw, Move, VoucherIsPaid
  <2> QED BY <1>5, <2>2, <2>3
<1> QED BY <1>3, <1>4, <1>5 DEF UserStep

LEMMA NextPays ==
  ASSUME WithdrawalsAssumption, Inv, [Next]_vars
  PROVE  MintsVoucher \/ BatchIsPaid \/ VoucherIsPaid \/ FundsMove
<1>1. CASE PumpNext /\ UNCHANGED <<coreVars, voucherVars, autoVars, managerVars, history>>
  BY <1>1 DEF FundsMove, coreVars, voucherVars, managerVars, history, Withdrawn
<1>2. CASE \E u \in User : UserStep(u)
  BY <1>2, UserStepPays
<1>3. CASE CloseBatch
  <2>1. BatchesInv /\ openBatch \in Batch /\ batches \in [Batch -> Batches]
    BY DEF Inv, BatchesInv
  <2>2. \A b \in Batch : Withdrawn(b)' = Withdrawn(b)
    BY <1>3, <2>1, CloseBatchKeepsBatches
  <2>3. \A b \in Batch : batches'[b].expected = batches[b].expected /\ batches'[b].unbonded = batches[b].unbonded
    BY <1>3, <2>1 DEF CloseBatch, Batches
  <2>4. UNCHANGED <<pumpVars, minted, vouchers, payee, paidOut>>
    BY <1>3 DEF CloseBatch, voucherVars, managerVars, history
  <2> QED BY <2>2, <2>3, <2>4 DEF FundsMove
<1>4. CASE \E b \in Batch : PayBatchInEmergency(b)
  <2> PICK b \in Batch : PayBatchInEmergency(b)
    BY <1>4
  <2>1. batches \in [Batch -> Batches]
    BY DEF Inv, BatchesInv
  <2>2. \A c \in Batch : batches'[c] = IF c = b THEN [batches[b] EXCEPT !.status = "emergency"] ELSE batches[c]
    BY <2>1 DEF PayBatchInEmergency
  <2>3. \A c \in Batch : /\ batches'[c].expected = batches[c].expected
                         /\ batches'[c].unbonded = batches[c].unbonded
                         /\ Withdrawn(c)' = Withdrawn(c)
    BY <2>1, <2>2 DEF PayBatchInEmergency, Batches, Withdrawn
  <2>4. UNCHANGED <<pumpVars, minted, vouchers, payee, paidOut>>
    BY DEF PayBatchInEmergency, voucherVars, managerVars, history
  <2> QED BY <2>3, <2>4 DEF FundsMove
<1>5. CASE \E b \in Batch : \E amount \in 0..batches[b].expected : PayBatch(b, amount)
  BY <1>5 DEF BatchIsPaid
<1>6. CASE Pause \/ Unpause \/ (\E right \in BOOLEAN : Rewire(right)) \/ UNCHANGED vars
  <2>1. UNCHANGED <<pumpVars, batches, minted, vouchers, payee, paidOut>>
    BY <1>6 DEF Pause, Unpause, Rewire, vars, coreVars, voucherVars, managerVars, history
  <2> QED BY <2>1 DEF FundsMove, Withdrawn
<1> QED BY <1>1, <1>2, <1>3, <1>4, <1>5, <1>6 DEF Next

(* What every step leaves alone *)
LEMMA PayFacts ==
  ASSUME BatchesInv, NEW b \in Batch, NEW amount \in 0..batches[b].expected, PayBatch(b, amount)
  PROVE  /\ amount \in Nat /\ amount <= batches[b].expected
         /\ ~Withdrawn(b) /\ Withdrawn(b)'
         /\ batches'[b].unbonded = amount /\ batches'[b].expected = batches[b].expected
         /\ \A c \in Batch : c # b => batches'[c] = batches[c]
<1>1. batches \in [Batch -> Batches] /\ batches[b].expected \in Nat
  BY DEF BatchesInv, Batches
<1>2. batches[b].status = "unbonding"
      /\ batches' = [batches EXCEPT ![b].status = "withdrawn", ![b].unbonded = amount]
  BY DEF PayBatch
<1>3. batches'[b] = [batches[b] EXCEPT !.status = "withdrawn", !.unbonded = amount]
      /\ \A c \in Batch : c # b => batches'[c] = batches[c]
  BY <1>1, <1>2
<1>4. batches[b] \in Batches
  BY <1>1
<1>5. batches'[b].status = "withdrawn" /\ batches'[b].unbonded = amount
      /\ batches'[b].expected = batches[b].expected
  BY <1>3, <1>4 DEF Batches
<1> QED BY <1>1, <1>2, <1>3, <1>5 DEF Withdrawn

(* A minted voucher adds to what the open batch expects, and to nothing else. *)
LEMMA MintFacts ==
  ASSUME WithdrawalsAssumption, BatchesInv, VouchersInv, NEW holder, NEW e \in Expected,
         Mint(holder, e), UNCHANGED openBatch
  PROVE  /\ e \in Nat /\ minted + 1 \in Voucher /\ minted + 1 \notin Minted
         /\ minted' = minted + 1 /\ Minted' = Minted \cup {minted + 1} /\ Minted \subseteq Voucher
         /\ vouchers'[minted + 1] = [batch |-> openBatch, expected |-> e]
         /\ \A v \in Voucher : v # minted + 1 => vouchers'[v] = vouchers[v]
         /\ openBatch \in Batch /\ ~Withdrawn(openBatch)
         /\ batches'[openBatch].expected = batches[openBatch].expected + e
         /\ \A b \in Batch : /\ batches'[b].unbonded = batches[b].unbonded
                             /\ b # openBatch => batches'[b] = batches[b]
                             /\ Withdrawn(b)' = Withdrawn(b)
<1>1. /\ e \in Nat /\ openBatch \in Batch /\ openBatch \in Nat /\ minted \in Nat
      /\ minted + 1 \in Voucher /\ minted + 1 \notin Minted /\ Minted \subseteq Voucher
  <2>1. e \in Nat /\ MaxVoucher \in Nat /\ MaxBatch \in Nat
    BY DEF WithdrawalsAssumption
  <2>2. openBatch \in Batch /\ minted \in Nat /\ minted <= MaxVoucher /\ minted < MaxVoucher
    BY DEF BatchesInv, VouchersInv, VoucherTypeOK, Mint
  <2> QED BY <2>1, <2>2 DEF Batch, Voucher, Minted
<1>2. minted' = minted + 1 /\ Minted' = Minted \cup {minted + 1}
  BY <1>1 DEF Mint, Minted
<1>3. vouchers' = [vouchers EXCEPT ![minted + 1] = [batch |-> openBatch, expected |-> e]]
  BY DEF Mint
<1>4. /\ vouchers'[minted + 1] = [batch |-> openBatch, expected |-> e]
      /\ \A v \in Voucher : v # minted + 1 => vouchers'[v] = vouchers[v]
  BY <1>1, <1>3 DEF VouchersInv, VoucherTypeOK
<1>5. ~Withdrawn(openBatch)
  BY <1>1 DEF BatchesInv, Withdrawn
<1>6. \A b \in Batch : Withdrawn(b)' = Withdrawn(b)
  BY MintKeepsBatches
<1>7. /\ batches'[openBatch].expected = batches[openBatch].expected + e
      /\ \A b \in Batch : /\ batches'[b].unbonded = batches[b].unbonded
                          /\ b # openBatch => batches'[b] = batches[b]
  <2>1. batches \in [Batch -> Batches]
        /\ batches' = [batches EXCEPT ![openBatch].expected = @ + e]
    BY DEF BatchesInv, Mint
  <2>2. batches'[openBatch] = [batches[openBatch] EXCEPT !.expected = @ + e]
        /\ \A b \in Batch : b # openBatch => batches'[b] = batches[b]
    BY <1>1, <2>1
  <2>3. batches[openBatch] \in Batches
    BY <1>1, <2>1
  <2> QED BY <2>2, <2>3 DEF Batches
<1> QED BY <1>1, <1>2, <1>4, <1>5, <1>6, <1>7

LEMMA UnbondedStays ==
  ASSUME FundsAreUnbonded, Funds' = Funds,
         \A b \in Batch : batches'[b].unbonded = batches[b].unbonded /\ Withdrawn(b)' = Withdrawn(b)
  PROVE  FundsAreUnbonded'
<1>1. Unbonded' = Unbonded
  BY DEF Unbonded
<1>2. WithdrawnBatches' = WithdrawnBatches
  BY DEF WithdrawnBatches
<1> QED BY <1>1, <1>2 DEF FundsAreUnbonded

(* The sum over withdrawn batches, as a number *)
LEMMA WithdrawnSum ==
  ASSUME WithdrawalsAssumption, BatchesInv
  PROVE  /\ IsFiniteSet(WithdrawnBatches)
         /\ \A b \in Batch : Unbonded[b] = batches[b].unbonded /\ batches[b].unbonded \in Nat
         /\ SumFunctionOnSet(Unbonded, WithdrawnBatches) \in Nat
<1>1. IsFiniteSet(Batch)
  BY FS_Interval DEF Batch, WithdrawalsAssumption
<1>2. WithdrawnBatches \subseteq Batch
  BY DEF WithdrawnBatches
<1>3. IsFiniteSet(WithdrawnBatches)
  BY <1>1, <1>2, FS_Subset
<1>4. \A b \in Batch : Unbonded[b] = batches[b].unbonded /\ batches[b].unbonded \in Nat
  BY DEF Unbonded, BatchesInv, Batches
<1>5. \A b \in WithdrawnBatches : Unbonded[b] \in Nat
  BY <1>2, <1>4
<1> QED BY <1>3, <1>4, <1>5, SumType

(* Funds come in with the withdrawal of a batch, and go nowhere. *)
LEMMA KeepsUnbonded ==
  ASSUME PumpAssumption, WithdrawalsAssumption, Inv, FundsInv,
         MintsVoucher \/ BatchIsPaid \/ VoucherIsPaid \/ FundsMove
  PROVE  FundsAreUnbonded'
<1>1. FundsAreUnbonded /\ TransfersInv /\ PumpInv /\ PumpTypeOK /\ BatchesInv /\ VouchersInv
  BY DEF FundsInv, Inv, PumpInv
<1>2. UNCHANGED pumpVars => Funds' = Funds
  BY DEF pumpVars, Funds, InTransit
<1>3. CASE MintsVoucher
  <2> PICK holder, e : e \in Expected /\ Mint(holder, e) /\ UNCHANGED <<openBatch, pumpVars>>
    BY <1>3 DEF MintsVoucher
  <2>1. \A b \in Batch : batches'[b].unbonded = batches[b].unbonded /\ Withdrawn(b)' = Withdrawn(b)
    BY <1>1, MintFacts
  <2> QED BY <1>1, <1>2, <2>1, UnbondedStays
<1>4. CASE VoucherIsPaid
  BY <1>1, <1>2, <1>4, UnbondedStays DEF VoucherIsPaid, coreVars, Withdrawn
<1>5. CASE FundsMove
  <2>1. Funds' = Funds
    BY <1>1, <1>2, <1>5, PumpNextKeepsFunds DEF FundsMove
  <2> QED BY <1>1, <1>5, <2>1, UnbondedStays DEF FundsMove
<1>6. CASE BatchIsPaid
  <2> PICK b \in Batch : \E amount \in 0..batches[b].expected : PayBatch(b, amount)
    BY <1>6 DEF BatchIsPaid
  <2> PICK amount \in 0..batches[b].expected : PayBatch(b, amount)
    OBVIOUS
  <2>1. /\ amount \in Nat /\ ~Withdrawn(b) /\ Withdrawn(b)' /\ batches'[b].unbonded = amount
        /\ \A c \in Batch : c # b => batches'[c] = batches[c]
    BY <1>1, PayFacts
  <2> DEFINE f == Unbonded
             g == [c \in Batch |-> batches'[c].unbonded]
             W == WithdrawnBatches
  <2>2. Unbonded' = g
    BY DEF Unbonded
  <2>3. WithdrawnBatches' = W \cup {b} /\ b \notin W /\ W \subseteq Batch
    BY <2>1 DEF WithdrawnBatches, Withdrawn
  <2>4. IsFiniteSet(W) /\ SumFunctionOnSet(f, W) \in Nat
    BY <1>1, WithdrawnSum
  <2>5. \A c \in W : f[c] = g[c] /\ f[c] \in Int
    BY <1>1, <2>1, <2>3, WithdrawnSum
  <2>6. g[b] = amount
    BY <2>1
  <2> HIDE DEF f, g, W
  <2>7. SumFunctionOnSet(g, W \cup {b}) = SumFunctionOnSet(g, W) + g[b]
    BY <2>1, <2>3, <2>4, <2>5, <2>6, SumInsert
  <2>8. SumFunctionOnSet(f, W) = SumFunctionOnSet(g, W)
    BY <2>4, <2>5, SumMonotone
  <2>9. Funds = SumFunctionOnSet(f, W)
    BY <1>1 DEF FundsAreUnbonded, f, W
  <2>10. Funds' = Funds + amount
    <3>1. delivered \in Int /\ remote \in Int /\ InTransit \in Int
      BY <1>1, TransfersSum DEF PumpTypeOK, TransfersInv, InTransit
    <3>2. Funds' = delivered + InTransit + (remote + amount)
      BY DEF PayBatch, Funds, InTransit
    <3> QED BY <2>1, <3>1, <3>2 DEF Funds
  <2>11. Funds' = SumFunctionOnSet(g, W \cup {b})
    BY <2>6, <2>7, <2>8, <2>9, <2>10
  <2> QED BY <2>2, <2>3, <2>11 DEF FundsAreUnbonded
<1> QED BY <1>3, <1>4, <1>5, <1>6

LEMMA KeepsNoMore ==
  ASSUME WithdrawalsAssumption, Inv, FundsInv, MintsVoucher \/ BatchIsPaid \/ VoucherIsPaid \/ FundsMove
  PROVE  NoMoreThanExpected'
<1>1. NoMoreThanExpected /\ BatchesInv /\ VouchersInv
  BY DEF FundsInv, Inv
<1>2. CASE MintsVoucher
  <2> PICK holder, e : e \in Expected /\ Mint(holder, e) /\ UNCHANGED <<openBatch, pumpVars>>
    BY <1>2 DEF MintsVoucher
  <2>1. /\ ~Withdrawn(openBatch)
        /\ \A b \in Batch : /\ b # openBatch => batches'[b] = batches[b]
                            /\ Withdrawn(b)' = Withdrawn(b)
    BY <1>1, MintFacts
  <2> QED BY <1>1, <2>1 DEF NoMoreThanExpected
<1>3. CASE BatchIsPaid
  <2> PICK b \in Batch : \E amount \in 0..batches[b].expected : PayBatch(b, amount)
    BY <1>3 DEF BatchIsPaid
  <2> PICK amount \in 0..batches[b].expected : PayBatch(b, amount)
    OBVIOUS
  <2>1. /\ amount <= batches[b].expected
        /\ batches'[b].unbonded = amount /\ batches'[b].expected = batches[b].expected
        /\ \A c \in Batch : c # b => batches'[c] = batches[c]
    BY <1>1, PayFacts
  <2> QED BY <1>1, <2>1 DEF NoMoreThanExpected, Withdrawn
<1>4. CASE VoucherIsPaid
  BY <1>1, <1>4 DEF VoucherIsPaid, coreVars, NoMoreThanExpected, Withdrawn
<1>5. CASE FundsMove
  BY <1>1, <1>5 DEF FundsMove, NoMoreThanExpected
<1> QED BY <1>2, <1>3, <1>4, <1>5

LEMMA VouchersOfBatch ==
  ASSUME WithdrawalsAssumption, VouchersInv, NEW b
  PROVE  /\ VouchersOf(b) \subseteq Minted /\ Minted \subseteq Voucher /\ IsFiniteSet(VouchersOf(b))
         /\ \A v \in Voucher : Worth[v] = vouchers[v].expected /\ vouchers[v].expected \in Nat
         /\ SumFunctionOnSet(Worth, VouchersOf(b)) \in Nat
<1>1. VouchersOf(b) \subseteq Minted
  BY DEF VouchersOf
<1>2. Minted \subseteq Voucher
  BY DEF VouchersInv, VoucherTypeOK, Minted, Voucher, WithdrawalsAssumption
<1>3. IsFiniteSet(VouchersOf(b))
  BY <1>1, <1>2, VouchersAreFinite, FS_Subset
<1>4. \A v \in Voucher : Worth[v] = vouchers[v].expected /\ vouchers[v].expected \in Nat
  BY DEF Worth, VouchersInv, VoucherTypeOK
<1>5. \A v \in VouchersOf(b) : Worth[v] \in Nat
  BY <1>1, <1>2, <1>4
<1> QED BY <1>1, <1>2, <1>3, <1>4, <1>5, SumType

(* A batch's expectation and its vouchers change together. *)
LEMMA KeepsExpected ==
  ASSUME WithdrawalsAssumption, Inv, FundsInv, MintsVoucher \/ BatchIsPaid \/ VoucherIsPaid \/ FundsMove
  PROVE  ExpectedIsMinted'
<1>1. ExpectedIsMinted /\ BatchesInv /\ VouchersInv
  BY DEF FundsInv, Inv
<1>2. ASSUME UNCHANGED <<minted, vouchers>>, \A b \in Batch : batches'[b].expected = batches[b].expected
      PROVE  ExpectedIsMinted'
  <2>1. Worth' = Worth /\ \A b \in Batch : VouchersOf(b)' = VouchersOf(b)
    BY <1>2 DEF Worth, VouchersOf, Minted
  <2> QED BY <1>1, <1>2, <2>1 DEF ExpectedIsMinted
<1>3. CASE MintsVoucher
  <2> PICK holder, e : e \in Expected /\ Mint(holder, e) /\ UNCHANGED <<openBatch, pumpVars>>
    BY <1>3 DEF MintsVoucher
  <2> DEFINE new == minted + 1
  <2>1. /\ e \in Nat /\ new \in Voucher /\ new \notin Minted /\ Minted \subseteq Voucher
        /\ Minted' = Minted \cup {new}
        /\ vouchers'[new] = [batch |-> openBatch, expected |-> e]
        /\ \A v \in Voucher : v # new => vouchers'[v] = vouchers[v]
    BY <1>1, MintFacts
  <2>2. /\ openBatch \in Batch
        /\ batches'[openBatch].expected = batches[openBatch].expected + e
        /\ \A b \in Batch : b # openBatch => batches'[b] = batches[b]
    BY <1>1, MintFacts
  <2> HIDE DEF new
  <2> DEFINE f == Worth
             g == [v \in Voucher |-> vouchers'[v].expected]
  <2>3. Worth' = g
    BY DEF Worth
  <2>4. g[new] = e
    BY <2>1
  <2>5. \A v \in Minted : f[v] = g[v] /\ f[v] \in Int /\ g[v] \in Int
    BY <1>1, <2>1, VouchersOfBatch
  <2>6. ASSUME NEW b \in Batch
        PROVE  batches'[b].expected = SumFunctionOnSet(Worth, VouchersOf(b))'
    <3> DEFINE W == VouchersOf(b)
    <3>1. IsFiniteSet(W) /\ W \subseteq Minted
      BY <1>1, VouchersOfBatch
    <3>2. batches[b].expected = SumFunctionOnSet(f, W)
      BY <1>1 DEF ExpectedIsMinted
    <3>3. VouchersOf(b)' = IF b = openBatch THEN W \cup {new} ELSE W
      <4>1. \A v \in Minted : vouchers'[v] = vouchers[v]
        BY <2>1
      <4> QED BY <2>1, <4>1 DEF VouchersOf
    <3> HIDE DEF f, g, W
    <3>4. SumFunctionOnSet(f, W) = SumFunctionOnSet(g, W)
      BY <2>5, <3>1, SumMonotone
    <3>5. SumFunctionOnSet(g, W \cup {new}) = SumFunctionOnSet(g, W) + g[new]
      <4>1. new \notin W /\ \A v \in W \cup {new} : g[v] \in Int
        BY <2>1, <2>4, <2>5, <3>1
      <4> QED BY <3>1, <4>1, SumInsert
    <3>6. SumFunctionOnSet(Worth, VouchersOf(b))' = SumFunctionOnSet(g, VouchersOf(b)')
      BY <2>3
    <3> QED BY <2>2, <2>4, <3>2, <3>3, <3>4, <3>5, <3>6
  <2> QED BY <2>6 DEF ExpectedIsMinted
<1>4. CASE BatchIsPaid
  <2> PICK b \in Batch : \E amount \in 0..batches[b].expected : PayBatch(b, amount)
    BY <1>4 DEF BatchIsPaid
  <2> PICK amount \in 0..batches[b].expected : PayBatch(b, amount)
    OBVIOUS
  <2>1. /\ batches'[b].expected = batches[b].expected
        /\ \A c \in Batch : c # b => batches'[c] = batches[c]
    BY <1>1, PayFacts
  <2>2. UNCHANGED <<minted, vouchers>>
    BY DEF PayBatch, voucherVars
  <2> QED BY <1>2, <2>1, <2>2
<1>5. CASE VoucherIsPaid
  BY <1>2, <1>5 DEF VoucherIsPaid, coreVars
<1>6. CASE FundsMove
  BY <1>2, <1>6 DEF FundsMove
<1> QED BY <1>3, <1>4, <1>5, <1>6

(* a div b is the greatest number that fits. *)
LEMMA DivFits ==
  ASSUME NEW a \in Nat, NEW b \in Nat \ {0}
  PROVE  a \div b \in Nat /\ (a \div b) * b <= a
  OBVIOUS

LEMMA ProductOfNats ==
  ASSUME NEW a \in Nat, NEW b \in Nat
  PROVE  a * b \in Nat
  OBVIOUS

LEMMA EffectOfSlashing ==
  ASSUME WithdrawalsAssumption, BatchesInv, NEW b \in Batch
  PROVE  /\ SlashingEffect(b) \in Nat /\ Scale \in Nat \ {0}
         /\ batches[b].unbonded \in Nat /\ batches[b].expected \in Nat
         /\ batches[b].unbonded < batches[b].expected =>
              SlashingEffect(b) * batches[b].expected <= batches[b].unbonded * Scale
<1> DEFINE u == batches[b].unbonded
           e == batches[b].expected
<1>1. u \in Nat /\ e \in Nat
  BY DEF BatchesInv, Batches
<1>2. Scale \in Nat \ {0}
  BY DEF WithdrawalsAssumption
<1>3. SlashingEffect(b) = IF u < e THEN (u * Scale) \div e ELSE Scale
  BY DEF SlashingEffect
<1> HIDE DEF u, e
<1>4. CASE u < e
  <2>1. u * Scale \in Nat /\ e \in Nat \ {0}
    BY <1>1, <1>2, <1>4, ProductOfNats
  <2>2. (u * Scale) \div e \in Nat /\ ((u * Scale) \div e) * e <= u * Scale
    BY <2>1, DivFits
  <2> QED BY <1>1, <1>2, <1>3, <1>4, <2>2 DEF u, e
<1>5. CASE ~(u < e)
  BY <1>1, <1>2, <1>3, <1>5 DEF u, e
<1> QED BY <1>4, <1>5

(* A voucher's payout: no more than it expects, nor than its share of what came. *)
LEMMA PayoutBounds ==
  ASSUME WithdrawalsAssumption, BatchesInv, VouchersInv, NEW v \in Voucher
  PROVE  /\ Payout(v) \in Nat /\ Payout(v) <= vouchers[v].expected
         /\ Scale * Payout(v) <= SlashingEffect(vouchers[v].batch) * vouchers[v].expected
<1> DEFINE s == SlashingEffect(vouchers[v].batch)
           e == vouchers[v].expected
           q == (s * e) \div Scale
<1>1. e \in Nat /\ vouchers[v].batch \in Batch
  BY DEF VouchersInv, VoucherTypeOK
<1>2. s \in Nat /\ Scale \in Nat \ {0}
  BY <1>1, EffectOfSlashing
<1>3. Payout(v) = IF q < e THEN q ELSE e
  BY DEF Payout
<1> HIDE DEF s, e
<1>4. s * e \in Nat
  BY <1>1, <1>2, ProductOfNats
<1>5. q \in Nat /\ q * Scale <= s * e
  BY <1>2, <1>4, DivFits
<1> HIDE DEF q
<1>6. Payout(v) \in Nat /\ Payout(v) <= e /\ Payout(v) <= q
  BY <1>1, <1>3, <1>5
<1>7. Scale * Payout(v) <= s * e
  <2> DEFINE p == Payout(v)  x == Scale * p  y == q * Scale  z == s * e
  <2>1. p \in Nat /\ p <= q
    BY <1>6
  <2> HIDE DEF p
  <2>2. x <= y
    BY <1>2, <1>5, <2>1
  <2>3. x \in Nat /\ y \in Nat
    BY <1>2, <1>5, <2>1, ProductOfNats
  <2>4. y <= z /\ z \in Nat
    BY <1>4, <1>5
  <2> HIDE DEF x, y, z
  <2>5. x <= z
    BY <2>2, <2>3, <2>4
  <2> QED BY <2>5 DEF x, z, p
<1> QED BY <1>6, <1>7 DEF s, e

(* What a paid voucher was paid does not change: its batch is withdrawn. *)
LEMMA PayoutStays ==
  ASSUME NEW v, vouchers'[v] = vouchers[v],
         batches'[vouchers[v].batch].unbonded = batches[vouchers[v].batch].unbonded,
         batches'[vouchers[v].batch].expected = batches[vouchers[v].batch].expected
  PROVE  Payout(v)' = Payout(v)
  BY DEF Payout, SlashingEffect

LEMMA PaidVouchers ==
  ASSUME WithdrawalsAssumption, BatchesInv, VouchersInv
  PROVE  /\ IsFiniteSet(Paid) /\ Paid \subseteq Voucher
         /\ \A v \in Paid : v \in Minted /\ Withdrawn(vouchers[v].batch) /\ vouchers[v].batch \in Batch
         /\ \A v \in Voucher : PayoutOf[v] = Payout(v) /\ Payout(v) \in Nat
         /\ SumFunctionOnSet(PayoutOf, Paid) \in Nat
<1>1. Paid \subseteq Voucher
  BY DEF Paid
<1>2. IsFiniteSet(Paid)
  BY <1>1, VouchersAreFinite, FS_Subset
<1>3. ASSUME NEW v \in Paid
      PROVE  v \in Minted /\ Withdrawn(vouchers[v].batch) /\ vouchers[v].batch \in Batch
  <2>1. v \in Voucher /\ payee[v] # Nobody /\ IsHeld(v) /\ v \in Nat \ {0}
    BY DEF Paid, VouchersInv, Voucher
  <2>2. Withdrawn(vouchers[v].batch) /\ ~(v > minted)
    BY <2>1 DEF IsHeld
  <2>3. minted \in Nat /\ vouchers[v].batch \in Batch
    BY <2>1 DEF VouchersInv, VoucherTypeOK
  <2> QED BY <2>1, <2>2, <2>3 DEF Minted
<1>4. \A v \in Voucher : PayoutOf[v] = Payout(v) /\ Payout(v) \in Nat
  BY PayoutBounds DEF PayoutOf
<1>5. \A v \in Paid : PayoutOf[v] \in Nat
  BY <1>1, <1>4
<1> QED BY <1>1, <1>2, <1>3, <1>4, <1>5, SumType

LEMMA PaidStays ==
  ASSUME WithdrawalsAssumption, BatchesInv, VouchersInv, PaidIsOwed, UNCHANGED <<payee, paidOut>>,
         \A v \in Minted : vouchers'[v] = vouchers[v],
         \A b \in Batch : Withdrawn(b) => /\ batches'[b].unbonded = batches[b].unbonded
                                          /\ batches'[b].expected = batches[b].expected
  PROVE  PaidIsOwed'
<1> DEFINE f == PayoutOf
           g == [v \in Voucher |-> Payout(v)']
<1>1. /\ IsFiniteSet(Paid) /\ Paid \subseteq Voucher
      /\ \A v \in Paid : v \in Minted /\ Withdrawn(vouchers[v].batch) /\ vouchers[v].batch \in Batch
      /\ \A v \in Voucher : f[v] = Payout(v) /\ Payout(v) \in Nat
  BY PaidVouchers
<1>2. Paid' = Paid
  BY DEF Paid
<1>3. \A v \in Paid : Payout(v)' = Payout(v)
  BY <1>1, PayoutStays
<1>4. \A v \in Paid : f[v] = g[v] /\ f[v] \in Int /\ g[v] \in Int
  BY <1>1, <1>3
<1>5. PayoutOf' = g
  BY DEF PayoutOf
<1> HIDE DEF f, g
<1>6. SumFunctionOnSet(f, Paid) = SumFunctionOnSet(g, Paid)
  BY <1>1, <1>4, SumMonotone
<1>7. paidOut = SumFunctionOnSet(f, Paid)
  BY DEF PaidIsOwed, f
<1> QED BY <1>2, <1>5, <1>6, <1>7 DEF PaidIsOwed

LEMMA KeepsPaid ==
  ASSUME WithdrawalsAssumption, Inv, FundsInv, MintsVoucher \/ BatchIsPaid \/ VoucherIsPaid \/ FundsMove
  PROVE  PaidIsOwed'
<1>1. PaidIsOwed /\ BatchesInv /\ VouchersInv
  BY DEF FundsInv, Inv
<1>2. CASE MintsVoucher
  <2> PICK holder, e : /\ e \in Expected /\ Mint(holder, e)
                       /\ UNCHANGED <<openBatch, pumpVars, payee, paidOut>>
    BY <1>2 DEF MintsVoucher
  <2>1. \A v \in Minted : vouchers'[v] = vouchers[v]
    BY <1>1, MintFacts
  <2>2. ~Withdrawn(openBatch) /\ \A b \in Batch : b # openBatch => batches'[b] = batches[b]
    BY <1>1, MintFacts
  <2>3. \A b \in Batch : Withdrawn(b) => /\ batches'[b].unbonded = batches[b].unbonded
                                         /\ batches'[b].expected = batches[b].expected
    BY <2>2
  <2>4. UNCHANGED <<payee, paidOut>>
    OBVIOUS
  <2> QED BY <1>1, <2>1, <2>3, <2>4, PaidStays
<1>3. CASE BatchIsPaid
  <2> PICK b \in Batch : \E amount \in 0..batches[b].expected : PayBatch(b, amount)
    BY <1>3 DEF BatchIsPaid
  <2> PICK amount \in 0..batches[b].expected : PayBatch(b, amount)
    OBVIOUS
  <2>1. ~Withdrawn(b) /\ \A c \in Batch : c # b => batches'[c] = batches[c]
    BY <1>1, PayFacts
  <2>2. UNCHANGED <<vouchers, payee, paidOut>>
    BY DEF PayBatch, voucherVars, managerVars, history
  <2>3. \A c \in Batch : Withdrawn(c) => /\ batches'[c].unbonded = batches[c].unbonded
                                         /\ batches'[c].expected = batches[c].expected
    BY <2>1
  <2> QED BY <1>1, <2>2, <2>3, PaidStays
<1>4. CASE FundsMove
  BY <1>1, <1>4, PaidStays DEF FundsMove
<1>5. CASE VoucherIsPaid
  <2> PICK v \in Voucher, u \in User : /\ ReceiveVoucher(v, u) /\ payee[v] = Nobody
                                       /\ UNCHANGED <<pumpVars, coreVars, minted, vouchers>>
    BY <1>5 DEF VoucherIsPaid
  <2>1. /\ IsFiniteSet(Paid) /\ Paid \subseteq Voucher
        /\ \A w \in Voucher : PayoutOf[w] = Payout(w) /\ Payout(w) \in Nat
        /\ SumFunctionOnSet(PayoutOf, Paid) \in Nat
    BY <1>1, PaidVouchers
  <2>2. PayoutOf' = PayoutOf
    BY DEF coreVars, PayoutOf, Payout, SlashingEffect
  <2>3. Paid' = Paid \cup {v} /\ v \notin Paid
    <3>1. payee' = [payee EXCEPT ![v] = u] /\ u # Nobody
      BY Addresses DEF ReceiveVoucher
    <3>2. payee \in [Voucher -> User \cup {Nobody}]
      BY <1>1 DEF VouchersInv, VoucherTypeOK
    <3> QED BY <3>1, <3>2 DEF Paid
  <2>4. SumFunctionOnSet(PayoutOf, Paid \cup {v}) = SumFunctionOnSet(PayoutOf, Paid) + PayoutOf[v]
    BY <2>1, <2>3, SumInsert
  <2>5. paidOut' = paidOut + PayoutOf[v]
    BY <2>1 DEF ReceiveVoucher
  <2> QED BY <1>1, <2>2, <2>3, <2>4, <2>5 DEF PaidIsOwed
<1> QED BY <1>2, <1>3, <1>4, <1>5

LEMMA FundsInvHolds ==
  ASSUME PumpAssumption, WithdrawalsAssumption, Inv, FundsInv, [Next]_vars
  PROVE  FundsInv'
<1>1. MintsVoucher \/ BatchIsPaid \/ VoucherIsPaid \/ FundsMove
  BY NextPays
<1>2. TransfersInv'
  <2>1. TransfersInv /\ PumpInv
    BY DEF FundsInv, Inv
  <2>2. CASE PumpNext
    BY <2>1, <2>2, PumpNextKeepsTransfers
  <2>3. CASE UNCHANGED <<packets, transit, nextSeq>>
    BY <2>1, <2>3 DEF TransfersInv
  <2>4. UNCHANGED pumpVars => UNCHANGED <<packets, transit, nextSeq>>
    BY DEF pumpVars
  <2>5. BatchIsPaid => UNCHANGED <<packets, transit, nextSeq>>
    BY DEF BatchIsPaid, PayBatch
  <2> QED BY <1>1, <2>2, <2>3, <2>4, <2>5 DEF MintsVoucher, VoucherIsPaid, FundsMove
<1> QED BY <1>1, <1>2, KeepsUnbonded, KeepsNoMore, KeepsExpected, KeepsPaid DEF FundsInv

LEMMA InitFunds ==
  ASSUME PumpAssumption, WithdrawalsAssumption, Init
  PROVE  FundsInv
<1>1. Inv
  BY InitInv
<1>2. BatchesInv /\ VouchersInv
  BY <1>1 DEF Inv
<1>3. /\ packets = {} /\ transit = {} /\ delivered = 0 /\ remote = 0 /\ minted = 0 /\ paidOut = 0
      /\ payee = [v \in Voucher |-> Nobody]
      /\ batches = [b \in Batch |-> [status |-> "open", expected |-> 0, unbonded |-> 0]]
  BY DEF Init, PumpInit, VoucherInit, ManagerInit
<1>4. TransfersInv
  BY <1>3, FS_EmptySet DEF TransfersInv
<1>5. WithdrawnBatches = {} /\ Paid = {} /\ \A b \in Batch : VouchersOf(b) = {}
  BY <1>3 DEF WithdrawnBatches, Withdrawn, Paid, VouchersOf, Minted
<1>6. FundsAreUnbonded
  <2>1. InTransit = 0
    <3>1. SumFunction([t \in {} |-> t.amount]) = SumFunctionOnSet(Amount, {})
      BY TransfersSum, FS_EmptySet
    <3> QED BY <1>3, <3>1, SumEmpty DEF InTransit
  <2>2. Funds = 0
    BY <1>3, <2>1 DEF Funds
  <2>3. SumFunctionOnSet(Unbonded, WithdrawnBatches) = 0
    BY <1>5, SumEmpty
  <2> QED BY <2>2, <2>3 DEF FundsAreUnbonded
<1>7. NoMoreThanExpected
  BY <1>3 DEF NoMoreThanExpected, Withdrawn
<1>8. ExpectedIsMinted
  BY <1>3, <1>5, SumEmpty DEF ExpectedIsMinted
<1>9. PaidIsOwed
  BY <1>3, <1>5, SumEmpty DEF PaidIsOwed
<1> QED BY <1>4, <1>6, <1>7, <1>8, <1>9 DEF FundsInv

LEMMA CancelFactor ==
  ASSUME NEW c \in Nat \ {0}, NEW a \in Nat, NEW b \in Nat, c * a <= b * c
  PROVE  a <= b
<1>1. ASSUME b < a PROVE FALSE
  <2>1. b + 1 <= a
    BY <1>1
  <2>2. (b + 1) * c <= a * c
    BY <2>1
  <2>3. (b + 1) * c = b * c + c /\ c * a = a * c /\ b * c \in Nat /\ a * c \in Nat
    BY ProductOfNats
  <2> QED BY <2>2, <2>3
<1> QED BY <1>1

(* The vouchers of one batch are worth no more, together, than what came for it: every
   payout is rounded down, and so is the share it is computed with. *)
LEMMA BatchCovers ==
  ASSUME WithdrawalsAssumption, Inv, FundsInv, NEW b \in Batch, Withdrawn(b)
  PROVE  SumFunctionOnSet(PayoutOf, VouchersOf(b)) <= batches[b].unbonded
<1> DEFINE W == VouchersOf(b)
           P == SumFunctionOnSet(PayoutOf, W)
           E == SumFunctionOnSet(Worth, W)
           s == SlashingEffect(b)
           u == batches[b].unbonded
           times == [v \in Voucher |-> Scale * PayoutOf[v]]
           share == [v \in Voucher |-> s * Worth[v]]
<1>1. BatchesInv /\ VouchersInv /\ NoMoreThanExpected /\ ExpectedIsMinted
  BY DEF Inv, FundsInv
<1>2. /\ W \subseteq Voucher /\ IsFiniteSet(W) /\ E \in Nat
      /\ \A v \in W : Worth[v] = vouchers[v].expected /\ Worth[v] \in Nat
  BY <1>1, VouchersOfBatch
<1>3. batches[b].expected = E /\ u <= E
  BY <1>1 DEF ExpectedIsMinted, NoMoreThanExpected
<1>4. s \in Nat /\ Scale \in Nat \ {0} /\ u \in Nat /\ (u < E => s * E <= u * Scale)
  BY <1>1, <1>3, EffectOfSlashing
<1>5. \A v \in W : vouchers[v].batch = b
  BY DEF VouchersOf
<1>6. \A v \in W : /\ PayoutOf[v] \in Nat /\ PayoutOf[v] <= Worth[v]
                   /\ Scale * PayoutOf[v] <= s * Worth[v]
  BY <1>1, <1>2, <1>5, PayoutBounds DEF PayoutOf
<1>7. \A v \in W : times[v] = Scale * PayoutOf[v] /\ share[v] = s * Worth[v]
  BY <1>2
<1>8. P \in Nat
  BY <1>2, <1>6, SumType
<1> HIDE DEF W, s, u, times, share
<1>9. P <= E
  <2>1. \A v \in W : PayoutOf[v] \in Int /\ Worth[v] \in Int
    BY <1>2, <1>6
  <2> QED BY <1>2, <1>6, <2>1, SumMonotone
<1>10. Scale * P <= s * E
  <2>1. \A v \in W : times[v] \in Int /\ share[v] \in Int /\ times[v] <= share[v]
    BY <1>2, <1>4, <1>6, <1>7, ProductOfNats
  <2>2. SumFunctionOnSet(times, W) <= SumFunctionOnSet(share, W)
    BY <1>2, <2>1, SumMonotone
  <2>3. SumFunctionOnSet(times, W) = Scale * P
    <3>1. \A v \in W : PayoutOf[v] \in Int /\ times[v] = Scale * PayoutOf[v]
      BY <1>6, <1>7
    <3>2. Scale \in Int /\ IsFiniteSet(W)
      BY <1>2, <1>4
    <3> HIDE DEF P
    <3>3. SumFunctionOnSet(times, W) = Scale * SumFunctionOnSet(PayoutOf, W)
      BY <3>1, <3>2, SumTimes
    <3> QED BY <3>3 DEF P
  <2>4. SumFunctionOnSet(share, W) = s * E
    <3>1. \A v \in W : Worth[v] \in Int /\ share[v] = s * Worth[v]
      BY <1>2, <1>7
    <3>2. s \in Int /\ IsFiniteSet(W)
      BY <1>2, <1>4
    <3> HIDE DEF E
    <3>3. SumFunctionOnSet(share, W) = s * SumFunctionOnSet(Worth, W)
      BY <3>1, <3>2, SumTimes
    <3> QED BY <3>3 DEF E
  <2> QED BY <2>2, <2>3, <2>4
<1> HIDE DEF P, E
<1>11. CASE u < E
  <2> DEFINE x == Scale * P  y == s * E  z == u * Scale
  <2>1. x <= y /\ y <= z
    BY <1>4, <1>10, <1>11
  <2>2. x \in Nat /\ y \in Nat /\ z \in Nat
    BY <1>2, <1>4, <1>8, ProductOfNats
  <2>3. x <= z
    <3> HIDE DEF x, y, z
    <3> QED BY <2>1, <2>2
  <2>4. P <= u
    BY <1>4, <1>8, <2>3, CancelFactor
  <2> QED BY <2>4 DEF P, W, u
<1>12. CASE u = E
  BY <1>9, <1>12 DEF P, W, u
<1> QED BY <1>2, <1>3, <1>4, <1>11, <1>12

(* Together, the vouchers of all withdrawn batches are worth no more than all that came. *)
LEMMA AllCovered ==
  ASSUME WithdrawalsAssumption, Inv, FundsInv
  PROVE  LET V == {v \in Minted : vouchers[v].batch \in WithdrawnBatches}
         IN  SumFunctionOnSet(PayoutOf, V) <= Funds /\ Funds \in Nat
<1> DEFINE c == [v \in Voucher |-> vouchers[v].batch]
           V == {v \in Minted : vouchers[v].batch \in WithdrawnBatches}
           C == WithdrawnBatches
<1>1. BatchesInv /\ VouchersInv /\ FundsAreUnbonded
  BY DEF Inv, FundsInv
<1>2. Minted \subseteq Voucher /\ IsFiniteSet(Minted)
  BY <1>1, VouchersOfBatch, VouchersAreFinite, FS_Subset
<1>3. \A v \in Minted : PayoutOf[v] \in Int
  BY <1>1, <1>2, PayoutBounds DEF PayoutOf
<1>4. /\ IsFiniteSet(C) /\ SumFunctionOnSet(Unbonded, C) \in Nat
      /\ \A b \in C : Unbonded[b] = batches[b].unbonded /\ Unbonded[b] \in Int
  BY <1>1, WithdrawnSum DEF WithdrawnBatches
<1>5. \A b \in C : {v \in Minted : c[v] = b} = VouchersOf(b)
  BY <1>2 DEF VouchersOf
<1>6. \A b \in C : SumFunctionOnSet(PayoutOf, VouchersOf(b)) <= Unbonded[b]
  BY <1>4, BatchCovers DEF WithdrawnBatches
<1>7. \A b \in C : SumFunctionOnSet(PayoutOf, {v \in Minted : c[v] = b}) <= Unbonded[b]
  BY <1>5, <1>6
<1>8. V = {v \in Minted : c[v] \in C}
  BY <1>2
<1> HIDE DEF c, C, V
<1>9. SumFunctionOnSet(PayoutOf, {v \in Minted : c[v] \in C}) <= SumFunctionOnSet(Unbonded, C)
  BY <1>2, <1>3, <1>4, <1>7, SumByClass
<1>10. Funds = SumFunctionOnSet(Unbonded, C)
  BY <1>1 DEF FundsAreUnbonded, C
<1>11. SumFunctionOnSet(PayoutOf, V) <= Funds /\ Funds \in Nat
  BY <1>4, <1>8, <1>9, <1>10
<1> QED BY <1>11 DEF V

(* Everybody can be paid in the end: what the unpaid vouchers of withdrawn batches are
   worth is with the manager, on its way to it or with the pump's account, whatever has
   been slashed, for any order of payouts and any rounding. *)
LEMMA InvCovers ==
  ASSUME PumpAssumption, WithdrawalsAssumption, Inv, FundsInv
  PROVE  PayoutsCovered
<1> DEFINE V == {v \in Minted : vouchers[v].batch \in WithdrawnBatches}
           U == SumFunctionOnSet(PayoutOf, Unpaid)
<1>1. BatchesInv /\ VouchersInv /\ VoucherTypeOK /\ PaidIsOwed /\ TransfersInv /\ PumpTypeOK
  BY DEF Inv, FundsInv, VouchersInv, PumpInv
<1>2. Minted \subseteq Voucher
  BY <1>1, VouchersOfBatch
<1>3. /\ IsFiniteSet(Paid) /\ Paid \subseteq Voucher
      /\ \A v \in Paid : v \in Minted /\ Withdrawn(vouchers[v].batch) /\ vouchers[v].batch \in Batch
      /\ \A v \in Voucher : PayoutOf[v] \in Nat
      /\ SumFunctionOnSet(PayoutOf, Paid) \in Nat
  BY <1>1, PaidVouchers
<1>4. Unpaid \cap Paid = {} /\ V = Unpaid \cup Paid /\ Unpaid \subseteq Voucher
  <2>1. \A v \in Minted : vouchers[v].batch \in Batch /\ v \in Voucher
    BY <1>1, <1>2 DEF VoucherTypeOK
  <2> QED BY <1>3, <2>1 DEF Unpaid, Paid, WithdrawnBatches, Withdrawn
<1>5. IsFiniteSet(Unpaid) /\ U \in Nat
  <2>1. IsFiniteSet(Unpaid)
    BY <1>4, VouchersAreFinite, FS_Subset
  <2>2. \A v \in Unpaid : PayoutOf[v] \in Nat
    BY <1>3, <1>4
  <2> QED BY <2>1, <2>2, SumType
<1>6. SumFunctionOnSet(PayoutOf, V) <= Funds /\ Funds \in Nat
  BY AllCovered
<1>7. SumFunctionOnSet(PayoutOf, V) = U + paidOut
  <2>1. \A v \in Unpaid \cup Paid : PayoutOf[v] \in Int
    BY <1>3, <1>4
  <2>2. SumFunctionOnSet(PayoutOf, Unpaid \cup Paid) = U + SumFunctionOnSet(PayoutOf, Paid)
    BY <1>3, <1>4, <1>5, <2>1, SumUnion
  <2> QED BY <1>1, <1>4, <2>2 DEF PaidIsOwed
<1>8. PayoutsCovered <=> U <= ManagerFunds + InTransit + remote
  BY DEF PayoutsCovered, PayoutOf
<1>9. paidOut \in Int
  BY <1>1, <1>3 DEF PaidIsOwed
<1>10. delivered \in Int /\ remote \in Int /\ InTransit \in Int
  BY <1>1, TransfersSum DEF PumpTypeOK, TransfersInv, InTransit
<1>11. U + paidOut <= delivered + InTransit + remote
  BY <1>6, <1>7 DEF Funds
<1> HIDE DEF U
<1>12. U <= (delivered - paidOut) + InTransit + remote
  BY <1>5, <1>9, <1>10, <1>11
<1> QED BY <1>8, <1>12 DEF ManagerFunds

LEMMA FundsInvariance == Spec => []FundsInv
<1>1. Init => FundsInv
  BY InitFunds, PumpAssumption, WithdrawalsAssumption
<1>2. Inv /\ FundsInv /\ [Next]_vars => FundsInv'
  BY FundsInvHolds, PumpAssumption, WithdrawalsAssumption
<1> QED BY <1>1, <1>2, Invariance, PTL DEF Spec

(* Everybody can be paid in the end: what the unpaid vouchers of withdrawn batches are
   worth is with the manager, on its way to it or with the pump's account. *)
THEOREM PayoutsCoveredAlways == Spec => []PayoutsCovered
<1>1. Inv /\ FundsInv => PayoutsCovered
  BY InvCovers, PumpAssumption, WithdrawalsAssumption
<1> QED BY <1>1, Invariance, FundsInvariance, PTL

(* The types of the contracts' state: the auto-withdrawer's funds and what the manager
   has paid never go below zero: the one covers the deposits of records, the other is a sum. *)
THEOREM TypeCorrect == Spec => []TypeOK
<1>1. Inv /\ DepositsInv /\ FundsInv => TypeOK
  <2> SUFFICES ASSUME Inv, DepositsInv, FundsInv PROVE TypeOK
    OBVIOUS
  <2>1. BatchesInv /\ VouchersInv /\ VoucherTypeOK /\ PumpTypeOK
    BY DEF Inv, VouchersInv, PumpInv
  <2>2. autoFunds \in Nat
    <3>1. SumFunctionOnSet(Deposited, Voucher) <= autoFunds /\ autoFunds \in Int
      BY DEF DepositsInv, DepositsCovered, SumFunction, Deposited
    <3>2. IsFiniteSet(Voucher) /\ \A w \in Voucher : Deposited[w] \in Nat
      BY <2>1, VouchersAreFinite, WithdrawalsAssumption DEF VoucherTypeOK, Deposited
    <3>3. SumFunctionOnSet(Deposited, Voucher) \in Nat
      BY <3>2, SumType
    <3> QED BY <3>1, <3>3
  <2>3. paidOut \in Nat
    BY <2>1, PaidVouchers, WithdrawalsAssumption DEF FundsInv, PaidIsOwed
  <2> QED BY <2>1, <2>2, <2>3 DEF TypeOK, BatchesInv, VoucherTypeOK
<1>2. Spec => []DepositsInv
  <2>1. Init => DepositsInv
    BY InitDeposits, WithdrawalsAssumption
  <2>2. Inv /\ DepositsInv /\ [Next]_vars => DepositsInv'
    BY NextKeepsDeposits, WithdrawalsAssumption
  <2> QED BY <2>1, <2>2, Invariance, PTL DEF Spec
<1> QED BY <1>1, <1>2, Invariance, FundsInvariance, PTL

=============================================================================
