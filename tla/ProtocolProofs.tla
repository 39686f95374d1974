--------------------------- MODULE ProtocolProofs ---------------------------
(***************************************************************************)
(* Proofs about the flow of rewards, the puppeteer's queries and their     *)
(* administration, for any denoms, validators, owners and amounts.         *)
(*                                                                         *)
(* Inv holds the queries, the flow and the settings together.  HandlerInv, *)
(* on top of it, is about the exchange handler, whose balance after an     *)
(* exchange is a fold over the manager's messages.                         *)
(***************************************************************************)
EXTENDS Protocol, SumProofs, TLAPS, WellFoundedInduction, SequenceTheorems

-----------------------------------------------------------------------------
(***************************************************************************)
(* Arithmetic                                                              *)
(***************************************************************************)

(* A division rounds down. *)
LEMMA DivRoundsDown ==
  ASSUME NEW a \in Nat, NEW b \in Nat \ {0}
  PROVE  a \div b \in Nat /\ b * (a \div b) <= a
  OBVIOUS

(* A bounded set of positive numbers has a greatest element. *)
LEMMA Greatest ==
  ASSUME NEW n \in Nat, NEW S \in SUBSET (1..n), S # {}
  PROVE  \E i \in S : \A j \in S : j <= i
<1> DEFINE R == {p \in Nat \X Nat : p[1] < p[2]}
           T == {n - i : i \in S}
<1>1. IsWellFoundedOn(R, Nat)
  <2>1. R = OpToRel(<, Nat)
    BY DEF OpToRel
  <2> QED BY <2>1, NatLessThanWellFounded
<1>0. \A i \in S : i \in Nat /\ n - i \in Nat
  OBVIOUS
<1>2. T \subseteq Nat /\ T # {}
  BY <1>0
<1>3. \E x \in T : \A y \in T : <<y, x>> \notin R
  <2> HIDE DEF R, T
  <2> QED BY <1>1, <1>2, WFMin
<1>4. PICK x \in T : \A y \in T : <<y, x>> \notin R
  BY <1>3
<1>5. PICK i \in S : x = n - i
  OBVIOUS
<1>6. ASSUME NEW j \in S PROVE j <= i
  <2>1. n - j \in T /\ <<n - j, n - i>> \notin R
    BY <1>4, <1>5
  <2>2. ~(n - j < n - i)
    BY <2>1, <1>0
  <2> QED BY <2>2, <1>0
<1> QED BY <1>6

-----------------------------------------------------------------------------
(***************************************************************************)
(* The queries                                                             *)
(***************************************************************************)

(* The query of a record reads the record's validator. *)
RecordsWatchOwn ==
  \A v \in DOMAIN records :
    /\ records[v].query \in QueriesOf("UnbondingDelegations")
    /\ watched[records[v].query] = {v}

(* The other queries read denoms. *)
BalancesAreOfDenoms ==
  \A id \in QueriesOf("NonNativeRewardsBalances") : watched[id] \subseteq Denom

QueriesInv == QueriesTypeOK /\ RecordsWatchOwn /\ BalancesAreOfDenoms /\ RecordsAreOwn

(* A reply finds the validator whose query it is the reply to. *)
LEMMA ReplyFindsValidator ==
  ASSUME NEW list \in Seq(Validator), Len(list) <= OFFSET, NEW i \in DOMAIN list
  PROVE  AtReply(list, i) = list[i]
<1>1. i \in Nat /\ i - 1 \in Nat /\ i - 1 < OFFSET /\ OFFSET \in Nat
  BY DEF OFFSET
<1>2. (5 * OFFSET + (i - 1)) % OFFSET = i - 1
  BY <1>1 DEF OFFSET
<1> QED BY <1>1, <1>2 DEF AtReply, FromReplyId, ToReplyId, KvUnbondingDelegations

(* The registration of a list of queries of one kind adds them at the end. *)
LEMMA RegisterAppends ==
  ASSUME QueriesTypeOK, NEW keys \in Seq(SUBSET (Denom \cup Validator)), NEW kind \in Kinds,
         Register(keys, kind)
  PROVE  /\ kvQueries' \in Seq(Kinds) /\ watched' \in Seq(SUBSET (Denom \cup Validator))
         /\ Len(watched') = Len(kvQueries')
         /\ DOMAIN kvQueries' = 1..(Len(kvQueries) + Len(keys))
         /\ \A id \in Ids : kvQueries'[id] = kvQueries[id] /\ watched'[id] = watched[id]
         /\ \A i \in DOMAIN keys : /\ kvQueries'[Len(kvQueries) + i] = kind
                                   /\ watched'[Len(kvQueries) + i] = keys[i]
<1> DEFINE kinds == [i \in DOMAIN keys |-> kind]
<1>1. kinds \in Seq(Kinds) /\ Len(kinds) = Len(keys) /\ DOMAIN kinds = 1..Len(keys)
  OBVIOUS
<1>2. kvQueries' = kvQueries \o kinds /\ watched' = watched \o keys
  BY DEF Register
<1>3. kvQueries \in Seq(Kinds) /\ watched \in Seq(SUBSET (Denom \cup Validator))
      /\ Len(watched) = Len(kvQueries)
  BY DEF QueriesTypeOK
<1>4. \A i \in DOMAIN keys : kinds[i] = kind
  OBVIOUS
<1> HIDE DEF kinds
<1> DEFINE Keys == SUBSET (Denom \cup Validator)
<1> HIDE DEF Keys
<1>5. /\ kvQueries' \in Seq(Kinds) /\ Len(kvQueries') = Len(kvQueries) + Len(kinds)
      /\ \A id \in 1..Len(kvQueries) + Len(kinds) :
           kvQueries'[id] = IF id <= Len(kvQueries) THEN kvQueries[id]
                            ELSE kinds[id - Len(kvQueries)]
  BY <1>1, <1>2, <1>3, ConcatProperties
<1>6. /\ watched' \in Seq(Keys) /\ Len(watched') = Len(watched) + Len(keys)
      /\ \A id \in 1..Len(watched) + Len(keys) :
           watched'[id] = IF id <= Len(watched) THEN watched[id] ELSE keys[id - Len(watched)]
  <2>1. watched \in Seq(Keys) /\ keys \in Seq(Keys)
    BY <1>3 DEF Keys
  <2> QED BY <2>1, <1>2, ConcatProperties
<1>7. \A id \in Ids : kvQueries'[id] = kvQueries[id] /\ watched'[id] = watched[id]
  <2> SUFFICES ASSUME NEW id \in Ids
               PROVE  kvQueries'[id] = kvQueries[id] /\ watched'[id] = watched[id]
    OBVIOUS
  <2>1. id \in 1..Len(kvQueries) /\ Len(keys) \in Nat
    BY <1>3 DEF Ids
  <2> QED BY <2>1, <1>1, <1>3, <1>5, <1>6
<1>8. ASSUME NEW i \in DOMAIN keys
      PROVE  kvQueries'[Len(kvQueries) + i] = kinds[i] /\ watched'[Len(watched) + i] = keys[i]
  <2> DEFINE n == Len(kvQueries)
             id == n + i
  <2>1. i \in 1..Len(keys) /\ Len(keys) \in Nat /\ n \in Nat
    BY <1>3
  <2>2. id \in 1..(n + Len(keys)) /\ ~(id <= n) /\ id - n = i
    BY <2>1
  <2> HIDE DEF id
  <2>3. kvQueries'[id] = kinds[id - n]
    BY <2>2, <1>1, <1>5
  <2>4. watched'[id] = keys[id - n]
    BY <2>2, <1>3, <1>6
  <2> QED BY <2>2, <2>3, <2>4, <1>3 DEF id
<1>9. watched' \in Seq(SUBSET (Denom \cup Validator))
  BY <1>6 DEF Keys
<1>10. DOMAIN kvQueries' = 1..(Len(kvQueries) + Len(keys))
  BY <1>1, <1>5
<1> QED BY <1>1, <1>3, <1>4, <1>5, <1>6, <1>7, <1>8, <1>9, <1>10

(* Other queries and records are left as they are by a registration. *)
LEMMA OldRecordsStay ==
  ASSUME QueriesInv, NEW v \in DOMAIN records,
         \A id \in QueriesOf("UnbondingDelegations") :
           id \in DOMAIN kvQueries' /\ kvQueries'[id] = kvQueries[id] /\ watched'[id] = watched[id]
  PROVE  /\ v \in Validator
         /\ records[v].query \in QueriesOf("UnbondingDelegations")'
         /\ watched'[records[v].query] = {v}
         /\ records[v].found \in {None, v}
  BY DEF QueriesInv, QueriesTypeOK, RecordsWatchOwn, RecordsAreOwn, QueriesOf, Ids

(* One query for the receivers' denoms, registered or changed. *)
LEMMA RegisterNonNativeKeeps ==
  ASSUME QueriesInv, NEW denoms \in SUBSET Denom, RegisterNonNative(denoms)
  PROVE  /\ QueriesInv'
         /\ QueriesOf("NonNativeRewardsBalances")' # {}
         /\ \A id \in QueriesOf("NonNativeRewardsBalances")' : watched'[id] = denoms
<1> DEFINE old == QueriesOf("NonNativeRewardsBalances")
<1>0. QueriesTypeOK /\ RecordsWatchOwn /\ RecordsAreOwn
  BY DEF QueriesInv
<1>1. nonNative' = nonNative /\ records' = records
  BY DEF RegisterNonNative
<1>2. CASE old = {}
  <2>1. Register(<<denoms>>, "NonNativeRewardsBalances")
    BY <1>2 DEF RegisterNonNative
  <2>2. <<denoms>> \in Seq(SUBSET (Denom \cup Validator)) /\ Len(<<denoms>>) = 1
        /\ DOMAIN <<denoms>> = {1} /\ <<denoms>>[1] = denoms
    OBVIOUS
  <2>3. /\ kvQueries' \in Seq(Kinds) /\ watched' \in Seq(SUBSET (Denom \cup Validator))
        /\ Len(watched') = Len(kvQueries')
        /\ DOMAIN kvQueries' = 1..(Len(kvQueries) + 1)
        /\ \A id \in Ids : kvQueries'[id] = kvQueries[id] /\ watched'[id] = watched[id]
        /\ kvQueries'[Len(kvQueries) + 1] = "NonNativeRewardsBalances"
        /\ watched'[Len(kvQueries) + 1] = denoms
    <3> DEFINE keys == <<denoms>>
    <3>1. keys \in Seq(SUBSET (Denom \cup Validator)) /\ Len(keys) = 1 /\ 1 \in DOMAIN keys
          /\ keys[1] = denoms /\ "NonNativeRewardsBalances" \in Kinds
          /\ Register(keys, "NonNativeRewardsBalances")
      BY <2>1, <2>2 DEF Kinds
    <3> HIDE DEF keys
    <3> QED BY <1>0, <3>1, RegisterAppends
  <2>4. Ids = 1..Len(kvQueries) /\ Len(kvQueries) \in Nat
    BY <1>0 DEF QueriesTypeOK, Ids
  <2>5. QueriesOf("NonNativeRewardsBalances")' = {Len(kvQueries) + 1}
    BY <1>2, <2>3, <2>4 DEF QueriesOf, Ids
  <2>6. Ids \subseteq DOMAIN kvQueries'
    BY <2>3, <2>4
  <2>7. QueriesTypeOK'
    BY <1>0, <1>1, <2>3, <2>6 DEF QueriesTypeOK, Ids
  <2>8. \A v \in DOMAIN records : /\ records[v].query \in QueriesOf("UnbondingDelegations")'
                                 /\ watched'[records[v].query] = {v}
    BY <2>3, <2>6, OldRecordsStay DEF QueriesOf
  <2>9. RecordsWatchOwn' /\ RecordsAreOwn'
    BY <1>0, <1>1, <2>8 DEF RecordsWatchOwn, RecordsAreOwn
  <2> QED BY <2>3, <2>5, <2>7, <2>9 DEF QueriesInv, BalancesAreOfDenoms
<1>3. CASE old # {}
  <2>1. kvQueries' = kvQueries /\ watched' = [id \in Ids |-> IF id \in old THEN denoms ELSE watched[id]]
    BY <1>3 DEF RegisterNonNative
  <2>2. kvQueries \in Seq(Kinds) /\ watched \in Seq(SUBSET (Denom \cup Validator))
        /\ Ids = 1..Len(kvQueries) /\ Len(kvQueries) \in Nat /\ Len(watched) = Len(kvQueries)
    BY <1>0 DEF QueriesTypeOK, Ids
  <2>3. \A id \in 1..Len(kvQueries) : watched[id] \in SUBSET (Denom \cup Validator)
    BY <2>2
  <2>4. watched' \in [1..Len(kvQueries) -> SUBSET (Denom \cup Validator)]
    BY <2>1, <2>2, <2>3
  <2>5. watched' \in Seq(SUBSET (Denom \cup Validator)) /\ Len(watched') = Len(kvQueries)
    BY <2>2, <2>4
  <2>6. QueriesTypeOK'
    BY <1>0, <1>1, <2>1, <2>5 DEF QueriesTypeOK, Ids
  <2>7. \A id \in QueriesOf("UnbondingDelegations") :
          id \in DOMAIN kvQueries' /\ kvQueries'[id] = kvQueries[id] /\ watched'[id] = watched[id]
    BY <2>1 DEF QueriesOf, Ids
  <2>8. RecordsWatchOwn' /\ RecordsAreOwn'
    BY <1>0, <1>1, <2>7, OldRecordsStay DEF RecordsWatchOwn, RecordsAreOwn
  <2>9. QueriesOf("NonNativeRewardsBalances")' = old
    BY <2>1 DEF QueriesOf, Ids
  <2>10. \A id \in QueriesOf("NonNativeRewardsBalances")' : watched'[id] = denoms
    BY <2>1, <2>9 DEF QueriesOf, Ids
  <2> QED BY <1>3, <2>6, <2>8, <2>9, <2>10 DEF QueriesInv, BalancesAreOfDenoms
<1> QED BY <1>2, <1>3

(* A new query for every validator of the list, and the records point to theirs. *)
LEMMA RegisterUnbondingKeeps ==
  ASSUME QueriesInv, NEW list \in Seq(Validator), Len(list) <= OFFSET, RegisterUnbonding(list)
  PROVE  /\ QueriesInv'
         /\ QueriesOf("NonNativeRewardsBalances")' = QueriesOf("NonNativeRewardsBalances")
         /\ \A id \in QueriesOf("NonNativeRewardsBalances") : watched'[id] = watched[id]
<1> DEFINE keys == [i \in DOMAIN list |-> {list[i]}]
           n == Len(kvQueries)
           repliesFor(v) == {i \in DOMAIN list : AtReply(list, i) = v}
           last(v) == CHOOSE i \in repliesFor(v) : \A j \in repliesFor(v) : j <= i
           registered == {v \in Validator : repliesFor(v) # {}}
<1>0. QueriesTypeOK /\ RecordsWatchOwn /\ RecordsAreOwn
  BY DEF QueriesInv
<1>1. /\ Register(keys, "UnbondingDelegations")
      /\ records' = [v \in DOMAIN records \cup registered |->
                        IF v \in registered THEN [query |-> n + last(v), found |-> None]
                        ELSE records[v]]
      /\ nonNative' = nonNative
  BY DEF RegisterUnbonding
<1>2. \A i \in DOMAIN list : list[i] \in Validator /\ keys[i] = {list[i]} /\ AtReply(list, i) = list[i]
  BY ReplyFindsValidator
<1>3. keys \in Seq(SUBSET (Denom \cup Validator)) /\ DOMAIN keys = DOMAIN list
      /\ DOMAIN list = 1..Len(list) /\ Len(list) \in Nat /\ Len(keys) = Len(list)
  BY <1>2
<1>4. n \in Nat /\ Ids = 1..n
  BY <1>0 DEF QueriesTypeOK, Ids
<1>5. /\ kvQueries' \in Seq(Kinds) /\ watched' \in Seq(SUBSET (Denom \cup Validator))
      /\ Len(watched') = Len(kvQueries')
      /\ DOMAIN kvQueries' = 1..(n + Len(keys))
      /\ \A id \in Ids : kvQueries'[id] = kvQueries[id] /\ watched'[id] = watched[id]
      /\ \A i \in DOMAIN keys : /\ kvQueries'[n + i] = "UnbondingDelegations"
                                /\ watched'[n + i] = keys[i]
  <2>1. "UnbondingDelegations" \in Kinds
    BY DEF Kinds
  <2> HIDE DEF keys
  <2> QED BY <1>0, <1>1, <1>3, <2>1, RegisterAppends
<1>6. Ids \subseteq DOMAIN kvQueries' /\ \A i \in DOMAIN list : n + i \in DOMAIN kvQueries'
  BY <1>3, <1>4, <1>5
<1>7. ASSUME NEW v \in registered
      PROVE  last(v) \in DOMAIN list /\ AtReply(list, last(v)) = v
  <2>1. repliesFor(v) \in SUBSET (1..Len(list)) /\ repliesFor(v) # {}
    BY <1>3
  <2>2. \E i \in repliesFor(v) : \A j \in repliesFor(v) : j <= i
    <3> HIDE DEF repliesFor
    <3> QED BY <2>1, <1>3, Greatest
  <2>3. last(v) \in repliesFor(v)
    <3> HIDE DEF repliesFor
    <3> QED BY <2>2
  <2> QED BY <2>3
<1>8. ASSUME NEW v \in registered
      PROVE  /\ records'[v] = [query |-> n + last(v), found |-> None]
             /\ n + last(v) \in QueriesOf("UnbondingDelegations")'
             /\ watched'[n + last(v)] = {v}
  <2> HIDE DEF last, registered, keys
  <2>1. last(v) \in DOMAIN list /\ AtReply(list, last(v)) = v
    BY <1>7
  <2>2. list[last(v)] = v /\ keys[last(v)] = {v}
    BY <2>1, <1>2
  <2> QED BY <2>1, <2>2, <1>1, <1>3, <1>5, <1>6 DEF QueriesOf, Ids
<1>9. ASSUME NEW v \in DOMAIN records' \ registered
      PROVE  /\ v \in DOMAIN records /\ records'[v] = records[v] /\ v \in Validator
             /\ records[v].query \in QueriesOf("UnbondingDelegations")'
             /\ watched'[records[v].query] = {v}
             /\ records[v].found \in {None, v}
  <2> HIDE DEF last, registered, keys
  <2>1. v \in DOMAIN records /\ records'[v] = records[v]
    BY <1>1
  <2>2. \A id \in QueriesOf("UnbondingDelegations") :
          id \in DOMAIN kvQueries' /\ kvQueries'[id] = kvQueries[id] /\ watched'[id] = watched[id]
    BY <1>5, <1>6 DEF QueriesOf
  <2> QED BY <2>1, <2>2, OldRecordsStay
<1>10. \A v \in DOMAIN records' :
         /\ v \in Validator
         /\ records'[v].query \in QueriesOf("UnbondingDelegations")'
         /\ watched'[records'[v].query] = {v}
         /\ records'[v].found \in {None, v}
  <2>1. \A v \in registered : v \in Validator
    OBVIOUS
  <2> SUFFICES ASSUME NEW v \in DOMAIN records'
               PROVE  /\ v \in Validator
                      /\ records'[v].query \in QueriesOf("UnbondingDelegations")'
                      /\ watched'[records'[v].query] = {v}
                      /\ records'[v].found \in {None, v}
    OBVIOUS
  <2>2. CASE v \in registered
    <3>1. /\ records'[v] = [query |-> n + last(v), found |-> None]
          /\ n + last(v) \in QueriesOf("UnbondingDelegations")'
          /\ watched'[n + last(v)] = {v}
      BY <2>2, <1>8
    <3> HIDE DEF last, registered, keys, n
    <3>2. records'[v].query = n + last(v) /\ records'[v].found = None
      BY <3>1
    <3>3. v \in Validator
      BY <2>1, <2>2
    <3> QED BY <3>1, <3>2, <3>3
  <2>3. CASE v \notin registered
    <3>1. v \in DOMAIN records' \ registered
      BY <2>3
    <3> QED BY <3>1, <1>9
  <2> QED BY <2>2, <2>3
<1>11. QueriesTypeOK'
  BY <1>0, <1>1, <1>5, <1>10 DEF QueriesTypeOK, QueriesOf
<1>12. RecordsWatchOwn' /\ RecordsAreOwn'
  BY <1>10 DEF RecordsWatchOwn, RecordsAreOwn
<1>13. QueriesOf("NonNativeRewardsBalances")' = QueriesOf("NonNativeRewardsBalances")
  <2>1. \A id \in DOMAIN kvQueries' : id \in Ids \/ kvQueries'[id] = "UnbondingDelegations"
    <3> SUFFICES ASSUME NEW id \in DOMAIN kvQueries', id \notin Ids
                 PROVE  kvQueries'[id] = "UnbondingDelegations"
      OBVIOUS
    <3>1. id - n \in DOMAIN keys /\ n + (id - n) = id
      BY <1>3, <1>4, <1>5
    <3> HIDE DEF keys
    <3> QED BY <3>1, <1>5
  <2> QED BY <2>1, <1>5, <1>6 DEF QueriesOf, Ids
<1>14. \A id \in QueriesOf("NonNativeRewardsBalances") : watched'[id] = watched[id]
  BY <1>5 DEF QueriesOf
<1> QED BY <1>11, <1>12, <1>13, <1>14 DEF QueriesInv, BalancesAreOfDenoms

(* Results: those of balances go to nonNative, *)
LEMMA BalancesResultKeeps ==
  ASSUME QueriesInv, ica \in [Denom -> Nat], NEW id, BalancesResult(id, ica)
  PROVE  QueriesInv' /\ UNCHANGED <<kvQueries, watched>>
<1>1. watched[id] \subseteq Denom
  BY DEF QueriesInv, BalancesAreOfDenoms, BalancesResult
<1>2. UNCHANGED <<kvQueries, watched, records>>
  BY DEF BalancesResult
<1>3. DOMAIN nonNative' \subseteq Denom /\ \A d \in DOMAIN nonNative' : nonNative'[d] \in Nat
  BY <1>1 DEF BalancesResult, Reconstructed
<1> QED BY <1>2, <1>3 DEF QueriesInv, QueriesTypeOK, RecordsWatchOwn, RecordsAreOwn,
                          BalancesAreOfDenoms, QueriesOf, Ids

(* those of unbondings to their record. *)
LEMMA UnbondingResultKeeps ==
  ASSUME QueriesInv, NEW id, UnbondingResult(id)
  PROVE  QueriesInv' /\ UNCHANGED <<kvQueries, watched>>
<1> DEFINE read == CHOOSE v \in Validator : watched[id] = {v}
<1>1. /\ UNCHANGED <<kvQueries, watched, nonNative>>
      /\ records' = [v \in DOMAIN records |->
                       IF records[v].query = id THEN [records[v] EXCEPT !.found = read]
                       ELSE records[v]]
  BY DEF UnbondingResult
<1>2. ASSUME NEW v \in DOMAIN records
      PROVE  /\ v \in Validator
             /\ records'[v].query = records[v].query
             /\ records'[v].found \in {None, v}
  <2>1. v \in Validator /\ watched[records[v].query] = {v} /\ records[v].found \in {None, v}
    BY DEF QueriesInv, QueriesTypeOK, RecordsWatchOwn, RecordsAreOwn
  <2>2. records[v].query = id => read = v
    BY <2>1
  <2> HIDE DEF read
  <2> QED BY <1>1, <2>1, <2>2
<1>3. DOMAIN records' = DOMAIN records
  BY <1>1
<1> HIDE DEF read
<1>4. QueriesTypeOK'
  BY <1>1, <1>2, <1>3 DEF QueriesInv, QueriesTypeOK, Ids
<1>5. RecordsWatchOwn' /\ RecordsAreOwn'
  BY <1>1, <1>2, <1>3 DEF QueriesInv, RecordsWatchOwn, RecordsAreOwn, QueriesOf, Ids
<1> QED BY <1>1, <1>4, <1>5 DEF QueriesInv, BalancesAreOfDenoms, QueriesOf, Ids

-----------------------------------------------------------------------------
(***************************************************************************)
(* The flow of rewards                                                     *)
(***************************************************************************)

RewardsInv == FlowTypeOK /\ FeeIsItsShare

(* A fee is a part of the amount, and at most its share. *)
LEMMA FeeOfAmount ==
  ASSUME ProtocolAssumption, NEW g \in Nat
  PROVE  Fee(g) \in Nat /\ FeeDen * Fee(g) <= FeeNum * g /\ Fee(g) <= g
<1>1. FeeNum \in Nat /\ FeeDen \in Nat \ {0} /\ FeeNum <= FeeDen
  BY DEF ProtocolAssumption
<1>2. FeeNum * g \in Nat /\ FeeNum * g <= FeeDen * g
  BY <1>1
<1>3. Fee(g) \in Nat /\ FeeDen * Fee(g) <= FeeNum * g
  BY <1>1, <1>2, DivRoundsDown DEF Fee
<1>4. FeeDen * Fee(g) <= FeeDen * g
  BY <1>1, <1>2, <1>3
<1>5. Fee(g) <= g
  BY <1>1, <1>3, <1>4
<1> QED BY <1>3, <1>5

(* What the account has lost grows with what it earned and shrinks with what it holds. *)
LEMMA ShareAdds ==
  ASSUME ProtocolAssumption,
         NEW fee \in Nat, NEW more \in Nat, NEW gone \in Int, NEW g \in Nat,
         FeeDen * fee <= FeeNum * gone, FeeDen * more <= FeeNum * g
  PROVE  FeeDen * (fee + more) <= FeeNum * (gone + g)
<1>1. FeeNum \in Nat /\ FeeDen \in Nat \ {0}
  BY DEF ProtocolAssumption
<1>2. FeeDen * (fee + more) = FeeDen * fee + FeeDen * more
  BY <1>1
<1>3. FeeNum * (gone + g) = FeeNum * gone + FeeNum * g
  BY <1>1
<1> DEFINE a == FeeDen * fee  b == FeeDen * more  c == FeeNum * gone  e == FeeNum * g
<1>4. a \in Int /\ b \in Int /\ c \in Int /\ e \in Int /\ a <= c /\ b <= e
  BY <1>1
<1>5. FeeDen * (fee + more) = a + b /\ FeeNum * (gone + g) = c + e
  BY <1>2, <1>3
<1> HIDE DEF a, b, c, e
<1>6. a + b <= c + e
  BY <1>4
<1> QED BY <1>5, <1>6

(* Steps that leave the account alone. *)
LEMMA FeesStay ==
  ASSUME FeeIsItsShare, UNCHANGED <<ica, fees, earned>>
  PROVE  FeeIsItsShare'
  BY DEF FeeIsItsShare

LEMMA TickRewardsKeeps ==
  ASSUME QueriesTypeOK, RewardsInv, TickRewards
  PROVE  RewardsInv'
<1>1. DOMAIN ItemsToSend \subseteq Denom /\ \A d \in DOMAIN ItemsToSend : ItemsToSend[d] \in Nat
  BY DEF TickRewards, ItemsToSend, QueriesTypeOK
<1>2. FlowTypeOK'
  BY <1>1 DEF RewardsInv, FlowTypeOK, TickRewards
<1>3. FeeIsItsShare'
  BY FeesStay DEF TickRewards, RewardsInv
<1> QED BY <1>2, <1>3 DEF RewardsInv

LEMMA TransferPerformedKeeps ==
  ASSUME ProtocolAssumption, RewardsInv, TransferPerformed
  PROVE  RewardsInv'
<1>1. FlowTypeOK /\ FeeIsItsShare
  BY DEF RewardsInv
<1>2. ASSUME NEW d \in Denom
      PROVE  /\ Gross(d) \in Nat /\ Gross(d) <= ica[d]
             /\ Fee(Gross(d)) \in Nat /\ Fee(Gross(d)) <= Gross(d)
             /\ FeeDen * Fee(Gross(d)) <= FeeNum * Gross(d)
  <2>1. Gross(d) \in Nat /\ Gross(d) <= ica[d]
    BY <1>1 DEF Gross, Sends, FlowTypeOK, TransferPerformed, Affordable
  <2> QED BY <2>1, FeeOfAmount
<1>3. ASSUME NEW d \in Denom
      PROVE  /\ ica[d] \in Nat /\ waiting[d] \in Nat /\ fees[d] \in Nat /\ earned[d] \in Nat
             /\ ica'[d] = ica[d] - Gross(d)
             /\ waiting'[d] = waiting[d] + Gross(d) - Fee(Gross(d))
             /\ fees'[d] = fees[d] + Fee(Gross(d))
             /\ earned'[d] = earned[d]
  BY <1>1 DEF FlowTypeOK, TransferPerformed
<1>4. /\ ica' \in [Denom -> Nat] /\ waiting' \in [Denom -> Nat] /\ fees' \in [Denom -> Nat]
  <2>1. ASSUME NEW d \in Denom
        PROVE  ica'[d] \in Nat /\ waiting'[d] \in Nat /\ fees'[d] \in Nat
    <3> DEFINE g == Gross(d)  f == Fee(Gross(d))
           i == ica[d]  w == waiting[d]  c == fees[d]
    <3>1. g \in Nat /\ f \in Nat /\ g <= i /\ f <= g /\ i \in Nat /\ w \in Nat /\ c \in Nat
      BY <1>2, <1>3
    <3>2. ica'[d] = i - g /\ waiting'[d] = w + g - f /\ fees'[d] = c + f
      BY <1>3
    <3> HIDE DEF g, f, i, w, c
    <3>3. i - g \in Nat
      BY <3>1
    <3>4. w + g - f \in Nat
      BY <3>1
    <3>5. c + f \in Nat
      BY <3>1
    <3> QED BY <3>2, <3>3, <3>4, <3>5
  <2>2. /\ ica' = [d \in Denom |-> ica'[d]] /\ waiting' = [d \in Denom |-> waiting'[d]]
        /\ fees' = [d \in Denom |-> fees'[d]]
    BY DEF TransferPerformed
  <2> QED BY <2>1, <2>2
<1>5. FlowTypeOK'
  BY <1>1, <1>4 DEF FlowTypeOK, TransferPerformed, NoTransfer
<1>6. ASSUME NEW d \in Denom
      PROVE  FeeDen * fees'[d] <= FeeNum * (earned'[d] - ica'[d])
  <2>1. FeeDen * fees[d] <= FeeNum * (earned[d] - ica[d])
    BY <1>1 DEF FeeIsItsShare
  <2>2. earned[d] - ica[d] \in Int /\ earned'[d] - ica'[d] = (earned[d] - ica[d]) + Gross(d)
    BY <1>2, <1>3
  <2> QED BY <2>1, <2>2, <1>2, <1>3, ShareAdds
<1> QED BY <1>5, <1>6 DEF RewardsInv, FeeIsItsShare

LEMMA EarnKeeps ==
  ASSUME RewardsInv, NEW d \in Denom, NEW amount \in Nat, Earn(d, amount)
  PROVE  RewardsInv'
<1>1. FlowTypeOK /\ FeeIsItsShare
  BY DEF RewardsInv
<1>2. FlowTypeOK'
  BY <1>1 DEF FlowTypeOK, Earn
<1>3. ASSUME NEW e \in Denom
      PROVE  earned'[e] - ica'[e] = earned[e] - ica[e] /\ fees'[e] = fees[e]
  BY <1>1 DEF FlowTypeOK, Earn
<1> QED BY <1>1, <1>2, <1>3 DEF RewardsInv, FeeIsItsShare

(* What arrives at the manager adds to what it has. *)
LEMMA ArriveAdds ==
  ASSUME FlowTypeOK, Arrive
  PROVE  /\ manager' \in [Denom -> Nat] /\ waiting' \in [Denom -> Nat]
         /\ \A d \in Denom : manager'[d] >= manager[d]
  BY DEF FlowTypeOK, Arrive, Nothing

(* The other steps of the flow. *)
LEMMA FlowKeeps ==
  ASSUME ProtocolAssumption, QueriesTypeOK, RewardsInv, Flow
  PROVE  RewardsInv'
<1>1. FlowTypeOK /\ FeeIsItsShare
  BY DEF RewardsInv
<1>2. CASE Tick
  BY <1>2, TickRewardsKeeps DEF Tick
<1>3. CASE TransferPerformed
  BY <1>3, TransferPerformedKeeps
<1>4. CASE TransferRefused
  <2>1. FlowTypeOK'
    BY <1>1, <1>4 DEF FlowTypeOK, TransferRefused, NoTransfer
  <2> QED BY <2>1, <1>1, <1>4, FeesStay DEF RewardsInv, TransferRefused
<1>5. CASE ExchangeByAnyone
  <2>1. manager' \in [Denom -> Nat]
    BY <1>1, <1>5 DEF FlowTypeOK, ExchangeByAnyone, ExchangeRewards
  <2>2. UNCHANGED <<receivers, transfer, stuck, ica, waiting, fees, earned, handled, from, given, misrouted>>
    BY <1>5 DEF ExchangeByAnyone, ExchangeRewards
  <2>3. FlowTypeOK'
    BY <1>1, <2>1, <2>2 DEF FlowTypeOK
  <2> QED BY <1>1, <2>2, <2>3, FeesStay DEF RewardsInv
<1>6. CASE Exchange
  <2>1. FlowTypeOK'
    BY <1>1, <1>6 DEF FlowTypeOK, Exchange
  <2> QED BY <2>1, <1>1, <1>6, FeesStay DEF RewardsInv, Exchange
<1>7. CASE Arrive
  <2>1. FlowTypeOK'
    BY <1>1, <1>7, ArriveAdds DEF FlowTypeOK, Arrive
  <2> QED BY <2>1, <1>1, <1>7, FeesStay DEF RewardsInv, Arrive
<1>8. CASE \E d \in Denom : Give(d)
  <2> PICK d \in Denom : Give(d)
    BY <1>8
  <2>1. given' \in [Denom -> Nat]
    BY <1>1 DEF FlowTypeOK, Give, ProtocolAssumption
  <2>2. UNCHANGED <<receivers, transfer, stuck, ica, waiting, fees, earned, manager, handled, from,
                    misrouted>>
    BY DEF Give
  <2>3. FlowTypeOK'
    BY <1>1, <2>1, <2>2 DEF FlowTypeOK
  <2> QED BY <2>2, <2>3, <1>1, FeesStay DEF RewardsInv
<1> QED BY <1>2, <1>3, <1>4, <1>5, <1>6, <1>7, <1>8 DEF Flow

-----------------------------------------------------------------------------
(***************************************************************************)
(* Administration                                                          *)
(***************************************************************************)

(* From the factory's pause to the next unpausing all contracts are paused: a pause
   that leaves one out, or an unpausing that is not seen, would break it. *)
FrozenIsPaused == frozen => \A c \in Pausable : paused[c]

Inv ==
  /\ QueriesInv /\ RewardsInv /\ AdminTypeOK
  /\ FrozenIsPaused /\ WatchedAreReceivers

(* Steps that touch neither the queries nor the receivers. *)
LEMMA QueriesStay ==
  ASSUME Inv, UNCHANGED queriesVars
  PROVE  QueriesInv'
  BY DEF Inv, QueriesInv, queriesVars, QueriesTypeOK, RecordsWatchOwn, RecordsAreOwn,
         BalancesAreOfDenoms, QueriesOf, Ids

LEMMA RewardsStay ==
  ASSUME Inv, UNCHANGED rewardsVars
  PROVE  RewardsInv'
  BY DEF Inv, RewardsInv, rewardsVars, FlowTypeOK, FeeIsItsShare

LEMMA ReceiversStay ==
  ASSUME Inv, UNCHANGED <<kvQueries, watched, receivers, apart>>
  PROVE  WatchedAreReceivers'
  BY DEF Inv, WatchedAreReceivers, QueriesOf, Ids

LEMMA FrozenStays ==
  ASSUME Inv, UNCHANGED <<paused, frozen>>
  PROVE  FrozenIsPaused'
  BY DEF Inv, FrozenIsPaused

LEMMA ChangeCounts ==
  ASSUME AdminTypeOK, NEW first \in BOOLEAN, Change(first)
  PROVE  changes' \in Nat
  BY DEF AdminTypeOK, Change

(* Steps of the administration alone. *)
LEMMA AdministrationKeeps ==
  ASSUME Inv, UNCHANGED <<queriesVars, rewardsVars, apart>>, AdminTypeOK', FrozenIsPaused'
  PROVE  Inv'
<1>1. QueriesInv' /\ RewardsInv'
  BY QueriesStay, RewardsStay
<1>2. WatchedAreReceivers'
  BY ReceiversStay DEF queriesVars, rewardsVars
<1> QED BY <1>1, <1>2 DEF Inv

LEMMA InitInv ==
  ASSUME ProtocolAssumption, Init
  PROVE  Inv
<1>1. kvQueries = <<>> /\ watched = <<>> /\ records = <<>> /\ nonNative = None
  BY DEF Init, QueriesInit
<1>2. QueriesInv
  BY <1>1 DEF QueriesInv, QueriesTypeOK, RecordsWatchOwn, RecordsAreOwn, BalancesAreOfDenoms, QueriesOf, Ids
<1>3. FlowTypeOK
  <2>1. Nothing \in [Denom -> Nat]
    BY DEF Nothing
  <2>2. {ica, waiting, fees, earned, manager, given} \subseteq [Denom -> Nat]
    BY <2>1 DEF Init, RewardsInit
  <2>3. DOMAIN transfer = {}
    BY DEF Init, RewardsInit, NoTransfer
  <2> QED BY <2>2, <2>3 DEF Init, RewardsInit, FlowTypeOK
<1>4. FeeIsItsShare
  BY DEF Init, RewardsInit, FeeIsItsShare, Nothing, ProtocolAssumption
<1>5. AdminTypeOK
  BY DEF Init, AdminTypeOK, Contracts, TwoStep
<1>6. FrozenIsPaused
  BY DEF Init, FrozenIsPaused
<1>7. WatchedAreReceivers
  BY <1>1 DEF Init, RewardsInit, WatchedAreReceivers, QueriesOf, Ids
<1> QED BY <1>2, <1>3, <1>4, <1>5, <1>6, <1>7 DEF Inv, RewardsInv

(* Steps of the factory *)
LEMMA FactoryStepKeeps ==
  ASSUME ProtocolAssumption, Inv, FactoryStep
  PROVE  Inv'
<1>1. AdminTypeOK /\ FrozenIsPaused /\ QueriesInv /\ RewardsInv
  BY DEF Inv
<1>2. CASE ExecuteInit
  <2>1. AdminTypeOK'
    BY <1>1, <1>2 DEF AdminTypeOK, ExecuteInit, InitialOwner, DenomFromToken, TokensDenom, Contracts
  <2> QED BY <1>2, <2>1, AdministrationKeeps, FrozenStays DEF ExecuteInit
<1>3. CASE PostInit
  <2>1. AdminTypeOK'
    BY <1>1, <1>3 DEF AdminTypeOK, PostInit, DenomFromToken, TokensDenom
  <2> QED BY <1>3, <2>1, AdministrationKeeps, FrozenStays DEF PostInit
<1>4. CASE Pause
  <2>1. changes' \in Nat
    BY <1>1, <1>4, ChangeCounts DEF Pause
  <2>2. AdminTypeOK'
    BY <1>1, <1>4, <2>1 DEF AdminTypeOK, Pause, PausedByFactory
  <2>3. FrozenIsPaused'
    BY <1>4 DEF Pause, FrozenIsPaused, PausedByFactory
  <2> QED BY <1>4, <2>2, <2>3, AdministrationKeeps DEF Pause
<1>5. CASE Unpause
  <2>1. AdminTypeOK'
    BY <1>1, <1>5 DEF AdminTypeOK, Unpause
  <2> QED BY <1>5, <2>1, AdministrationKeeps DEF Unpause, FrozenIsPaused
<1>6. CASE PuppeteerFees
  <2>1. AdminTypeOK'
    BY <1>1, <1>6 DEF AdminTypeOK, PuppeteerFees
  <2> QED BY <1>6, <2>1, AdministrationKeeps, FrozenStays DEF PuppeteerFees
<1>7. CASE \E denoms \in ReceiverSets : UpdateReceivers(denoms)
  <2> PICK denoms \in ReceiverSets : UpdateReceivers(denoms)
    BY <1>7
  <2>1. denoms \subseteq Denom /\ denoms # None
    BY DEF ProtocolAssumption
  <2>2. /\ SetReceivers(denoms) /\ RegisterNonNative(denoms) /\ UNCHANGED adminVars
        /\ Change(receivers = None)
    BY DEF UpdateReceivers
  <2>3. /\ QueriesInv'
        /\ QueriesOf("NonNativeRewardsBalances")' # {}
        /\ \A id \in QueriesOf("NonNativeRewardsBalances")' : watched'[id] = denoms
    BY <1>1, <2>1, <2>2, RegisterNonNativeKeeps
  <2>4. RewardsInv'
    BY <1>1, <2>1, <2>2, FeesStay DEF RewardsInv, FlowTypeOK, SetReceivers
  <2>5. changes' \in Nat
    BY <1>1, <2>2, ChangeCounts
  <2>6. AdminTypeOK' /\ FrozenIsPaused'
    BY <1>1, <2>2, <2>5 DEF AdminTypeOK, adminVars, FrozenIsPaused
  <2>7. WatchedAreReceivers'
    BY <2>1, <2>2, <2>3 DEF WatchedAreReceivers, SetReceivers
  <2> QED BY <2>3, <2>4, <2>6, <2>7 DEF Inv
<1> QED BY <1>2, <1>3, <1>4, <1>5, <1>6, <1>7 DEF FactoryStep

(* Steps of the owners *)
LEMMA OwnershipStepKeeps ==
  ASSUME Inv,
         \/ \E c \in TwoStep : \/ \E new \in User \cup {"factory"} : TransferOwnership(c, new)
                               \/ AcceptOwnership(c) \/ RenounceOwnership(c)
         \/ \E c \in OneStep, new \in User : ConfigureOwner(c, new)
  PROVE  Inv'
<1>1. AdminTypeOK /\ FALSE \in BOOLEAN
  BY DEF Inv
<1>2. CASE \E c \in TwoStep, new \in User \cup {"factory"} : TransferOwnership(c, new)
  <2> PICK c \in TwoStep, new \in User \cup {"factory"} : TransferOwnership(c, new)
    BY <1>2
  <2>1. changes' \in Nat
    BY <1>1, ChangeCounts DEF TransferOwnership
  <2>2. AdminTypeOK'
    BY <1>1, <2>1 DEF AdminTypeOK, TransferOwnership
  <2> QED BY <2>2, AdministrationKeeps, FrozenStays DEF TransferOwnership
<1>3. CASE \E c \in TwoStep : AcceptOwnership(c)
  <2> PICK c \in TwoStep : AcceptOwnership(c)
    BY <1>3
  <2>1. AdminTypeOK'
    BY <1>1 DEF AdminTypeOK, AcceptOwnership, Contracts
  <2> QED BY <2>1, AdministrationKeeps, FrozenStays DEF AcceptOwnership
<1>4. CASE \E c \in TwoStep : RenounceOwnership(c)
  <2> PICK c \in TwoStep : RenounceOwnership(c)
    BY <1>4
  <2>1. changes' \in Nat
    BY <1>1, ChangeCounts DEF RenounceOwnership
  <2>2. AdminTypeOK'
    BY <1>1, <2>1 DEF AdminTypeOK, RenounceOwnership, Contracts
  <2> QED BY <2>2, AdministrationKeeps, FrozenStays DEF RenounceOwnership
<1>5. CASE \E c \in OneStep, new \in User : ConfigureOwner(c, new)
  <2> PICK c \in OneStep, new \in User : ConfigureOwner(c, new)
    BY <1>5
  <2>1. changes' \in Nat
    BY <1>1, ChangeCounts DEF ConfigureOwner
  <2>2. AdminTypeOK'
    BY <1>1, <2>1 DEF AdminTypeOK, ConfigureOwner, Contracts
  <2> QED BY <2>2, AdministrationKeeps, FrozenStays DEF ConfigureOwner
<1> QED BY <1>2, <1>3, <1>4, <1>5

LEMMA SettingStepKeeps ==
  ASSUME Inv,
         \/ \E c \in Pausable : PauseOne(c) \/ UnpauseOne(c)
         \/ \E denom \in {"denom", "other"} : ConfigureCore(denom)
  PROVE  Inv'
<1>1. AdminTypeOK /\ FrozenIsPaused /\ FALSE \in BOOLEAN
  BY DEF Inv
<1>2. CASE \E c \in Pausable : PauseOne(c)
  <2> PICK c \in Pausable : PauseOne(c)
    BY <1>2
  <2>1. changes' \in Nat
    BY <1>1, ChangeCounts DEF PauseOne
  <2>2. AdminTypeOK'
    BY <1>1, <2>1 DEF AdminTypeOK, PauseOne
  <2>3. FrozenIsPaused'
    BY <1>1 DEF AdminTypeOK, FrozenIsPaused, PauseOne
  <2> QED BY <2>2, <2>3, AdministrationKeeps DEF PauseOne
<1>3. CASE \E c \in Pausable : UnpauseOne(c)
  <2> PICK c \in Pausable : UnpauseOne(c)
    BY <1>3
  <2>1. AdminTypeOK'
    BY <1>1 DEF AdminTypeOK, UnpauseOne
  <2> QED BY <2>1, AdministrationKeeps DEF UnpauseOne, FrozenIsPaused
<1>4. CASE \E denom \in {"denom", "other"} : ConfigureCore(denom)
  <2> PICK denom \in {"denom", "other"} : ConfigureCore(denom)
    BY <1>4
  <2>1. changes' \in Nat
    BY <1>1, ChangeCounts DEF ConfigureCore
  <2>2. AdminTypeOK'
    BY <1>1, <2>1 DEF AdminTypeOK, ConfigureCore
  <2> QED BY <2>2, AdministrationKeeps, FrozenStays DEF ConfigureCore
<1> QED BY <1>2, <1>3, <1>4

LEMMA ReceiversStepKeeps ==
  ASSUME ProtocolAssumption, Inv, NEW denoms \in ReceiverSets,
         CoreReceivers(denoms) \/ PuppeteerReceivers(denoms)
  PROVE  Inv'
<1>1. AdminTypeOK /\ FrozenIsPaused /\ QueriesInv /\ RewardsInv
  BY DEF Inv
<1>2. denoms \in SUBSET Denom
  BY DEF ProtocolAssumption
<1>3. WatchedAreReceivers'
  BY DEF WatchedAreReceivers, CoreReceivers, PuppeteerReceivers
<1>4. changes' \in Nat
  BY <1>1, ChangeCounts DEF CoreReceivers, PuppeteerReceivers
<1>5. UNCHANGED <<inited, owner, pending, paused, ldDenom, feesSet, icaOpen, frozen>> /\ apart' = TRUE
  BY DEF CoreReceivers, PuppeteerReceivers
<1>6. AdminTypeOK' /\ FrozenIsPaused'
  BY <1>1, <1>4, <1>5 DEF AdminTypeOK, FrozenIsPaused
<1>7. QueriesInv'
  BY <1>1, <1>2, QueriesStay, RegisterNonNativeKeeps DEF CoreReceivers, PuppeteerReceivers
<1>8. RewardsInv'
  <2>1. CASE CoreReceivers(denoms)
    BY <1>1, <1>2, <2>1, FeesStay DEF RewardsInv, FlowTypeOK, CoreReceivers, SetReceivers
  <2>2. CASE PuppeteerReceivers(denoms)
    BY <2>2, RewardsStay DEF PuppeteerReceivers
  <2> QED BY <2>1, <2>2
<1> QED BY <1>3, <1>6, <1>7, <1>8 DEF Inv

LEMMA UnbondingsStepKeeps ==
  ASSUME ProtocolAssumption, Inv, NEW list \in UnbondingLists, PuppeteerUnbondings(list)
  PROVE  Inv'
<1>1. AdminTypeOK /\ FrozenIsPaused /\ QueriesInv /\ WatchedAreReceivers
  BY DEF Inv
<1>2. list \in Seq(Validator) /\ Len(list) <= OFFSET
  BY DEF ProtocolAssumption
<1>3. /\ QueriesInv'
      /\ QueriesOf("NonNativeRewardsBalances")' = QueriesOf("NonNativeRewardsBalances")
      /\ \A id \in QueriesOf("NonNativeRewardsBalances") : watched'[id] = watched[id]
  BY <1>1, <1>2, RegisterUnbondingKeeps DEF PuppeteerUnbondings
<1>4. UNCHANGED <<receivers, apart>> /\ RewardsInv'
  BY RewardsStay DEF PuppeteerUnbondings, rewardsVars, adminVars
<1>5. WatchedAreReceivers'
  BY <1>1, <1>3, <1>4 DEF WatchedAreReceivers
<1>6. changes' \in Nat
  BY <1>1, ChangeCounts DEF PuppeteerUnbondings
<1>7. AdminTypeOK' /\ FrozenIsPaused'
  BY <1>1, <1>6 DEF AdminTypeOK, FrozenIsPaused, PuppeteerUnbondings, adminVars
<1> QED BY <1>3, <1>4, <1>5, <1>7 DEF Inv

LEMMA HandlersStepKeeps ==
  ASSUME Inv,
         \/ \E denoms \in SUBSET Denom : ManagerHandlers(denoms)
         \/ \E denom \in Denom : HandlerConfig(denom)
  PROVE  Inv'
<1>1. AdminTypeOK /\ FrozenIsPaused /\ RewardsInv
  BY DEF Inv
<1>2. UNCHANGED <<queriesVars, adminVars, receivers, ica, fees, earned>> /\ changes' \in Nat
  BY <1>1, ChangeCounts DEF ManagerHandlers, HandlerConfig, SetHandled, SetFrom
<1>3. FlowTypeOK'
  BY <1>1 DEF RewardsInv, FlowTypeOK, ManagerHandlers, HandlerConfig, SetHandled, SetFrom
<1>4. RewardsInv'
  BY <1>1, <1>2, <1>3, FeesStay DEF RewardsInv
<1>5. AdminTypeOK' /\ FrozenIsPaused'
  BY <1>1, <1>2 DEF AdminTypeOK, FrozenIsPaused, adminVars
<1>6. QueriesInv' /\ WatchedAreReceivers'
  BY <1>2, QueriesStay, ReceiversStay DEF queriesVars, adminVars
<1> QED BY <1>4, <1>5, <1>6 DEF Inv

(* Steps of the chains and of everybody *)
LEMMA FlowStepKeeps ==
  ASSUME ProtocolAssumption, Inv,
         Flow \/ \E d \in Denom, amount \in Lumps : Reward(d, amount)
  PROVE  Inv'
<1>1. AdminTypeOK /\ FrozenIsPaused /\ RewardsInv /\ QueriesTypeOK
  BY DEF Inv, QueriesInv
<1>2. UNCHANGED <<queriesVars, adminVars>> /\ changes' \in Nat
  BY <1>1, ChangeCounts DEF Flow, Reward, AdminTypeOK
<1>3. RewardsInv'
  BY <1>1, FlowKeeps, EarnKeeps DEF Reward, ProtocolAssumption
<1>4. receivers' = receivers
  BY DEF Flow, Tick, TickRewards, TransferPerformed, TransferRefused, ExchangeByAnyone,
         ExchangeRewards, Exchange, Arrive, Give, Reward, Earn
<1>5. AdminTypeOK' /\ FrozenIsPaused'
  BY <1>1, <1>2 DEF AdminTypeOK, FrozenIsPaused, adminVars
<1>6. QueriesInv' /\ WatchedAreReceivers'
  BY <1>2, <1>4, QueriesStay, ReceiversStay DEF queriesVars, adminVars
<1> QED BY <1>3, <1>5, <1>6 DEF Inv

LEMMA QueryResultKeeps ==
  ASSUME Inv, NEW id \in Ids, QueryResult(id)
  PROVE  Inv'
<1>1. AdminTypeOK /\ FrozenIsPaused /\ QueriesInv /\ ica \in [Denom -> Nat]
  BY DEF Inv, RewardsInv, FlowTypeOK
<1>2. QueriesInv' /\ UNCHANGED <<kvQueries, watched>>
  BY <1>1, BalancesResultKeeps, UnbondingResultKeeps DEF QueryResult
<1>3. UNCHANGED <<rewardsVars, adminVars, changes>>
  BY DEF QueryResult
<1>4. RewardsInv'
  BY <1>3, RewardsStay
<1>5. WatchedAreReceivers'
  BY <1>2, <1>3, ReceiversStay DEF rewardsVars, adminVars
<1>6. AdminTypeOK' /\ FrozenIsPaused'
  BY <1>1, <1>3 DEF AdminTypeOK, FrozenIsPaused, adminVars
<1> QED BY <1>2, <1>4, <1>5, <1>6 DEF Inv

LEMMA NextKeeps ==
  ASSUME ProtocolAssumption, Inv, [Next]_vars
  PROVE  Inv'
<1>1. CASE FactoryStep
  BY <1>1, FactoryStepKeeps
<1>2. CASE OwnerStep
  BY <1>2, OwnershipStepKeeps, SettingStepKeeps, ReceiversStepKeeps, UnbondingsStepKeeps,
     HandlersStepKeeps DEF OwnerStep
<1>3. CASE RegisterICA
  <2>1. AdminTypeOK'
    BY <1>3 DEF Inv, AdminTypeOK, RegisterICA
  <2> QED BY <1>3, <2>1, AdministrationKeeps, FrozenStays DEF RegisterICA
<1>4. CASE Flow \/ \E d \in Denom, amount \in Lumps : Reward(d, amount)
  BY <1>4, FlowStepKeeps
<1>5. CASE \E id \in Ids : QueryResult(id)
  BY <1>5, QueryResultKeeps
<1>6. CASE UNCHANGED vars
  <2>1. AdminTypeOK'
    BY <1>6 DEF vars, adminVars, Inv, AdminTypeOK
  <2> QED BY <1>6, <2>1, AdministrationKeeps, FrozenStays DEF vars, adminVars
<1> QED BY <1>1, <1>2, <1>3, <1>4, <1>5, <1>6 DEF Next

-----------------------------------------------------------------------------
(***************************************************************************)
(* The exchange handler.  What it has after the manager's messages is a    *)
(* fold over the denoms: a run from message to message.                    *)
(***************************************************************************)

HandlerAcc == [held : [Denom -> Nat], taken : BOOLEAN]
BeforeExchange == [held |-> held, taken |-> TRUE]

LEMMA KeptType ==
  ASSUME NEW coins \in [Denom -> Nat]
  PROVE  Kept(coins) \in [Denom -> Nat] /\ HandlerTakes(coins) \in BOOLEAN
  BY DEF Kept, HandlerTakes

LEMMA ReceiveType ==
  ASSUME manager \in [Denom -> Nat], NEW now \in HandlerAcc, NEW d \in Denom
  PROVE  Receive(now, d) \in HandlerAcc
<1> DEFINE coins == [now.held EXCEPT ![d] = @ + manager[d]]
<1>1. now.held \in [Denom -> Nat] /\ now.taken \in BOOLEAN
  BY DEF HandlerAcc
<1>2. coins \in [Denom -> Nat]
  BY <1>1
<1> HIDE DEF coins
<1>3. [held |-> Kept(coins), taken |-> now.taken /\ HandlerTakes(coins)] \in HandlerAcc
  BY <1>1, <1>2, KeptType DEF HandlerAcc
<1> QED BY <1>3 DEF Receive, coins

LEMMA ReceivedRun ==
  ASSUME manager \in [Denom -> Nat], held \in [Denom -> Nat],
         NEW n \in Nat, Denoms \in [1..n -> Denom]
  PROVE  \E run \in [0..n -> HandlerAcc] :
           /\ run[0] = BeforeExchange
           /\ \A k \in 1..n : run[k] = Receive(run[k - 1], Denoms[k])
           /\ Received = run[n]
<1> DEFINE start == BeforeExchange
           Steps == [k \in 1..n |-> [acc \in HandlerAcc |-> Receive(acc, Denoms[k])]]
           Eq(h) == h = [s \in SUBSET (1..n) |->
                          IF s = {} THEN start ELSE Receive(h[s \ {Max(s)}], Denoms[Max(s)])]
           Chosen == CHOOSE h : Eq(h)
<1>0. PICK S : S = 1..n
  OBVIOUS
<1>1. start \in HandlerAcc
  BY DEF BeforeExchange, HandlerAcc
<1>2. ASSUME NEW k \in 1..n, NEW acc \in HandlerAcc
      PROVE  Steps[k][acc] \in HandlerAcc /\ Steps[k][acc] = Receive(acc, Denoms[k])
  BY ReceiveType
<1> HIDE DEF Steps, start
<1>3. StepsIn(Steps, S, HandlerAcc)
  BY <1>0, <1>2 DEF StepsIn
<1>4. PICK g, run : /\ IsFold(Steps, start, n, g) /\ FoldIn(g, S, HandlerAcc)
                    /\ IsRun(run, n, HandlerAcc, Steps, start) /\ run[n] = g[S]
  <2> HIDE DEF Eq, Chosen
  <2> QED BY <1>0, <1>1, <1>3, FoldRuns
<1>5. ASSUME NEW s \in SUBSET (1..n), s # {}
      PROVE  /\ Max(s) \in 1..n
             /\ FoldStep(Steps, start, g, s) = Receive(g[s \ {Max(s)}], Denoms[Max(s)])
  <2>1. Max(s) \in 1..n /\ s \ {Max(s)} \in SUBSET (1..n)
    BY <1>5, MaxIsGreatest
  <2>2. g[s \ {Max(s)}] \in HandlerAcc
    BY <1>0, <1>4, <2>1 DEF FoldIn
  <2>3. FoldStep(Steps, start, g, s) = Steps[Max(s)][g[s \ {Max(s)}]]
    BY <1>5 DEF FoldStep
  <2> QED BY <1>2, <2>1, <2>2, <2>3
<1>6. Eq(g)
  BY <1>4, <1>5 DEF IsFold, FoldStep
<1>7. Eq(Chosen)
  BY <1>6
<1>8. Received = Chosen[1..n]
  BY DEF Received, FoldLeft, MapThenFoldSet, BeforeExchange, start
<1> HIDE DEF Chosen
<1>9. TakesSteps(Chosen, g, start, S)
  <2>1. ASSUME NEW s \in SUBSET (1..n)
        PROVE  \/ s = {} /\ Chosen[s] = start
               \/ s # {} /\ (Chosen[s \ {Max(s)}] = g[s \ {Max(s)}] => Chosen[s] = g[s])
    BY <1>6, <1>7
  <2> QED BY <1>0, <2>1 DEF TakesSteps
<1> HIDE DEF Eq
<1>10. Chosen[S] = g[S]
  BY <1>0, <1>4, <1>9, FoldsAgree
<1>11. run \in [0..n -> HandlerAcc] /\ run[0] = start
  BY <1>4 DEF IsRun
<1>12. ASSUME NEW k \in 1..n
       PROVE  run[k] = Receive(run[k - 1], Denoms[k])
  <2>1. run[k] = Steps[k][run[k - 1]] /\ k - 1 \in 0..n
    BY <1>4 DEF IsRun
  <2>2. run[k - 1] \in HandlerAcc
    BY <1>11, <2>1
  <2> QED BY <1>2, <2>1, <2>2
<1> QED BY <1>0, <1>4, <1>8, <1>10, <1>11, <1>12 DEF start

(* A message for the denom that is swapped leaves nothing of it, or is refused. *)
LEMMA ReceiveKeepsLittle ==
  ASSUME manager \in [Denom -> Nat], held \in [Denom -> Nat], HandedOver \subseteq {from},
         NEW now \in HandlerAcc, NEW d \in Denom,
         now.taken => \A e \in Denom : now.held[e] <= held[e]
  PROVE  Receive(now, d).taken => \A e \in Denom : Receive(now, d).held[e] <= held[e]
<1> DEFINE coins == [now.held EXCEPT ![d] = @ + manager[d]]
<1>1. now.held \in [Denom -> Nat] /\ now.taken \in BOOLEAN
  BY DEF HandlerAcc
<1>2. CASE d \notin HandedOver
  BY <1>2 DEF Receive
<1>3. CASE d \in HandedOver
  <2> DEFINE kept == Kept(coins)  took == now.taken /\ HandlerTakes(coins)
  <2>1. d = from /\ Receive(now, d) = [held |-> kept, taken |-> took]
    BY <1>3 DEF Receive
  <2>0. took \in BOOLEAN /\ (took => now.taken /\ HandlerTakes(coins))
    OBVIOUS
  <2> SUFFICES ASSUME now.taken, HandlerTakes(coins), NEW e \in Denom
               PROVE  Kept(coins)[e] <= held[e]
    <3> HIDE DEF took, kept
    <3>1. Receive(now, d).taken = took /\ Receive(now, d).held = kept
      BY <2>1
    <3> QED BY <2>0, <3>1 DEF kept
  <2>2. Kept(coins) = [coins EXCEPT ![from] = 0]
    BY DEF Kept
  <2>3. coins \in [Denom -> Nat] /\ (e # d => coins[e] = now.held[e])
    BY <1>1
  <2> HIDE DEF coins
  <2>4. CASE e = d
    BY <2>1, <2>2, <2>3, <2>4
  <2>5. CASE e # d
    BY <2>1, <2>2, <2>3, <2>5
  <2> QED BY <2>4, <2>5
<1> QED BY <1>2, <1>3

(* What the handler has after an exchange that is not undone *)
LEMMA ReceivedIsLittle ==
  ASSUME ProtocolAssumption, manager \in [Denom -> Nat], held \in [Denom -> Nat]
  PROVE  /\ Received.held \in [Denom -> Nat]
         /\ HandedOver \subseteq {from} /\ Received.taken =>
              \A d \in Denom : Received.held[d] <= held[d]
<1> DEFINE n == Len(Denoms)
<1>1. n \in Nat /\ Denoms \in [1..n -> Denom]
  BY DEF ProtocolAssumption
<1> HIDE DEF n
<1>2. PICK run \in [0..n -> HandlerAcc] :
        /\ run[0] = BeforeExchange
        /\ \A k \in 1..n : run[k] = Receive(run[k - 1], Denoms[k])
        /\ Received = run[n]
  BY <1>1, ReceivedRun
<1>3. Received \in HandlerAcc
  BY <1>1, <1>2
<1>4. ASSUME HandedOver \subseteq {from}
      PROVE  Received.taken => \A d \in Denom : Received.held[d] <= held[d]
  <2> DEFINE Little(acc) == acc.taken => \A e \in Denom : acc.held[e] <= held[e]
             G == {k \in Nat : k <= n => Little(run[k])}
  <2>1. 0 \in G
    BY <1>2 DEF BeforeExchange
  <2>2. ASSUME NEW k \in Nat, k \in G
        PROVE  k + 1 \in G
    <3> SUFFICES ASSUME k + 1 <= n PROVE Little(run[k + 1])
      OBVIOUS
    <3>1. k \in 0..n /\ k + 1 \in 1..n /\ (k + 1) - 1 = k
      BY <1>1
    <3>2. run[k] \in HandlerAcc /\ Little(run[k]) /\ Denoms[k + 1] \in Denom
      BY <1>1, <1>2, <2>2, <3>1
    <3>3. run[k + 1] = Receive(run[k], Denoms[k + 1])
      BY <1>2, <3>1
    <3>4. Little(Receive(run[k], Denoms[k + 1]))
      BY <1>4, <3>2, ReceiveKeepsLittle
    <3> HIDE DEF Little
    <3> QED BY <3>3, <3>4
  <2>3. n \in G
    <3> HIDE DEF G
    <3> QED BY <1>1, <2>1, <2>2, NumbersByInduction
  <2> QED BY <1>2, <2>3
<1> QED BY <1>3, <1>4 DEF HandlerAcc

(* The manager has handlers only for what the handler swaps, unless it was told otherwise. *)
HandlerInv ==
  /\ held \in [Denom -> Nat]
  /\ ~misrouted => handled \subseteq {from}
  /\ HandlerKeepsNothing

LEMMA InitHandlerInv == Init => HandlerInv
  BY DEF Init, RewardsInit, HandlerInv, HandlerKeepsNothing, Nothing

(* Which steps touch the handler or what the manager has handlers for *)
LEMMA HandlerSteps ==
  ASSUME [Next]_vars
  PROVE  \/ UNCHANGED <<handled, from, held, given, misrouted>>
         \/ ExchangeRewards \/ Exchange
         \/ \E d \in Denom : Give(d) \/ SetFrom(d)
         \/ \E denoms \in SUBSET Denom : SetHandled(denoms)
<1>1. CASE FactoryStep
  BY <1>1 DEF FactoryStep, ExecuteInit, PostInit, Pause, Unpause, PuppeteerFees, UpdateReceivers,
              SetReceivers, rewardsVars
<1>2. CASE OwnerStep
  <2>1. CASE \E denoms \in SUBSET Denom : ManagerHandlers(denoms)
    BY <2>1 DEF ManagerHandlers
  <2>2. CASE \E denom \in Denom : HandlerConfig(denom)
    BY <2>2 DEF HandlerConfig
  <2>3. CASE \E denoms \in ReceiverSets : CoreReceivers(denoms) \/ PuppeteerReceivers(denoms)
    BY <2>3 DEF CoreReceivers, PuppeteerReceivers, SetReceivers, rewardsVars
  <2> QED BY <1>2, <2>1, <2>2, <2>3
          DEF OwnerStep, TransferOwnership, AcceptOwnership, RenounceOwnership, ConfigureOwner,
              PauseOne, UnpauseOne, ConfigureCore, PuppeteerUnbondings, rewardsVars
<1>3. CASE Flow
  BY <1>3 DEF Flow, Tick, TickRewards, TransferPerformed, TransferRefused, ExchangeByAnyone, Arrive
<1>4. CASE RegisterICA \/ \E id \in Ids : QueryResult(id)
  BY <1>4 DEF RegisterICA, QueryResult, rewardsVars
<1>5. CASE \E d \in Denom, amount \in Lumps : Reward(d, amount)
  BY <1>5 DEF Reward, Earn
<1>6. CASE UNCHANGED vars
  BY <1>6 DEF vars, rewardsVars
<1> QED BY <1>1, <1>2, <1>3, <1>4, <1>5, <1>6 DEF Next

LEMMA HandlerKeeps ==
  ASSUME ProtocolAssumption, Inv, HandlerInv, [Next]_vars
  PROVE  HandlerInv'
<1>1. /\ manager \in [Denom -> Nat] /\ given \in [Denom -> Nat] /\ from \in Denom
      /\ handled \subseteq Denom /\ misrouted \in BOOLEAN /\ HandlerMin \in Nat
  BY DEF Inv, RewardsInv, FlowTypeOK, ProtocolAssumption
<1>2. held \in [Denom -> Nat] /\ (~misrouted => handled \subseteq {from}) /\ HandlerKeepsNothing
  BY DEF HandlerInv
<1>3. CASE UNCHANGED <<handled, from, held, given, misrouted>>
  BY <1>3 DEF HandlerInv, HandlerKeepsNothing
<1>4. CASE ExchangeRewards
  <2>1. held' = Received.held /\ Received.taken /\ UNCHANGED <<handled, from, given, misrouted>>
    BY <1>4 DEF ExchangeRewards, Committed
  <2>2. held' \in [Denom -> Nat]
    BY <1>1, <1>2, <2>1, ReceivedIsLittle
  <2>3. ASSUME ~misrouted, NEW d \in Denom
        PROVE  held'[d] <= given[d]
    <3>1. HandedOver \subseteq {from}
      BY <1>2, <2>3 DEF HandedOver
    <3>2. held'[d] <= held[d]
      BY <1>1, <1>2, <2>1, <3>1, ReceivedIsLittle
    <3>3. held[d] <= given[d]
      BY <1>2, <2>3 DEF HandlerKeepsNothing
    <3> QED BY <1>1, <1>2, <2>2, <3>2, <3>3
  <2> QED BY <1>2, <2>1, <2>2, <2>3 DEF HandlerInv, HandlerKeepsNothing
<1>5. CASE Exchange
  <2>1. held' = [held EXCEPT ![from] = 0] /\ UNCHANGED <<handled, from, given, misrouted>>
    BY <1>5 DEF Exchange, Kept
  <2>2. held' \in [Denom -> Nat] /\ \A d \in Denom : held'[d] = held[d] \/ held'[d] = 0
    BY <1>1, <1>2, <2>1
  <2>3. HandlerKeepsNothing'
    BY <1>1, <1>2, <2>1, <2>2 DEF HandlerKeepsNothing
  <2> QED BY <1>2, <2>1, <2>2, <2>3 DEF HandlerInv
<1>6. CASE \E d \in Denom : Give(d)
  <2> PICK d \in Denom : Give(d)
    BY <1>6
  <2>1. /\ held' = [held EXCEPT ![d] = @ + HandlerMin]
        /\ given' = [given EXCEPT ![d] = HandlerMin] /\ given = Nothing
        /\ UNCHANGED <<handled, from, misrouted>>
    BY DEF Give
  <2>2. held' \in [Denom -> Nat]
    BY <1>1, <1>2, <2>1
  <2>3. ASSUME ~misrouted, NEW e \in Denom
        PROVE  held'[e] <= given'[e]
    <3>1. held[e] <= given[e] /\ given[e] = 0 /\ held[e] \in Nat
      BY <1>2, <2>1, <2>3 DEF HandlerKeepsNothing, Nothing
    <3>2. held[e] = 0
      BY <3>1
    <3> QED BY <1>1, <1>2, <2>1, <3>1, <3>2
  <2> QED BY <1>2, <2>1, <2>2, <2>3 DEF HandlerInv, HandlerKeepsNothing
<1>7. CASE \E d \in Denom : SetFrom(d)
  <2> PICK d \in Denom : SetFrom(d)
    BY <1>7
  <2>1. (~misrouted' => ~misrouted /\ handled \subseteq {from'}) /\ UNCHANGED <<handled, held, given>>
    BY DEF SetFrom
  <2> QED BY <1>2, <2>1 DEF HandlerInv, HandlerKeepsNothing
<1>8. CASE \E denoms \in SUBSET Denom : SetHandled(denoms)
  <2> PICK denoms \in SUBSET Denom : SetHandled(denoms)
    BY <1>8
  <2>1. (~misrouted' => ~misrouted /\ handled' \subseteq {from}) /\ UNCHANGED <<from, held, given>>
    BY DEF SetHandled
  <2> QED BY <1>2, <2>1 DEF HandlerInv, HandlerKeepsNothing
<1> QED BY <1>3, <1>4, <1>5, <1>6, <1>7, <1>8, HandlerSteps

-----------------------------------------------------------------------------
(***************************************************************************)
(* Theorems                                                                *)
(***************************************************************************)

THEOREM Invariance == Spec => []Inv
<1>1. Init => Inv
  BY InitInv, ProtocolAssumption
<1>2. Inv /\ [Next]_vars => Inv'
  BY NextKeeps, ProtocolAssumption
<1> QED BY <1>1, <1>2, PTL DEF Spec

(* The handler's balances, beside Inv, over any number of exchanges. *)
THEOREM HandlerInvariance == Spec => []HandlerInv
<1>1. Init => HandlerInv
  BY InitHandlerInv
<1>2. Inv /\ HandlerInv /\ [Next]_vars => HandlerInv'
  BY HandlerKeeps, ProtocolAssumption
<1> QED BY <1>1, <1>2, Invariance, PTL DEF Spec

(* Every variable keeps its type. *)
THEOREM TypeCorrect == Spec => []TypeOK
<1>1. Inv /\ HandlerInv => TypeOK
  BY DEF Inv, QueriesInv, RewardsInv, HandlerInv, TypeOK, RewardsTypeOK
<1> QED BY <1>1, Invariance, HandlerInvariance, PTL

(* The handler keeps no rewards, in whatever order it gets them and whatever minimum
   makes it refuse: a refused message undoes the whole exchange. *)
THEOREM HandlerKeepsNothingAlways == Spec => []HandlerKeepsNothing
<1>1. HandlerInv => HandlerKeepsNothing
  BY DEF HandlerInv
<1> QED BY <1>1, HandlerInvariance, PTL

(* Unbonding entries are stored for the validator they were read of, for any lists. *)
THEOREM RecordsAreOwnAlways == Spec => []RecordsAreOwn
<1>1. Inv => RecordsAreOwn
  BY DEF Inv, QueriesInv
<1> QED BY <1>1, Invariance, PTL

(* The fee is at most its share of what left the account, over all transfers. *)
THEOREM FeeIsItsShareAlways == Spec => []FeeIsItsShare
<1>1. Inv => FeeIsItsShare
  BY DEF Inv, RewardsInv
<1> QED BY <1>1, Invariance, PTL

(* Core's receivers and the puppeteer's query agree while the factory sets them. *)
THEOREM WatchedAreReceiversAlways == Spec => []WatchedAreReceivers
<1>1. Inv => WatchedAreReceivers
  BY DEF Inv
<1> QED BY <1>1, Invariance, PTL

(* A step from a frozen state sends nothing: what could send is guarded by a pause. *)
LEMMA FrozenStepsSendNothing ==
  ASSUME Inv, [Next]_vars, frozen
  PROVE  /\ transfer' \in {transfer, NoTransfer}
         /\ \A d \in Denom : manager'[d] >= manager[d]
<1>1. paused["core"] /\ paused["rewards_manager"] /\ manager \in [Denom -> Nat] /\ FlowTypeOK
  BY DEF Inv, FrozenIsPaused, Pausable, RewardsInv, FlowTypeOK
<1>2. CASE UNCHANGED <<transfer, manager>>
  BY <1>1, <1>2
<1>3. CASE TransferPerformed \/ TransferRefused
  BY <1>1, <1>3 DEF TransferPerformed, TransferRefused
<1>4. CASE Arrive
  BY <1>4, <1>1, ArriveAdds DEF Arrive
<1>5. CASE Flow
  BY <1>1, <1>2, <1>3, <1>4, <1>5 DEF Flow, Tick, ExchangeByAnyone, Exchange, Give
<1>6. CASE FactoryStep
  <2>1. UNCHANGED <<transfer, manager>>
    BY <1>6 DEF FactoryStep, ExecuteInit, PostInit, Pause, Unpause, PuppeteerFees, UpdateReceivers,
                SetReceivers, rewardsVars
  <2> QED BY <2>1, <1>2
<1>7. CASE OwnerStep
  <2>1. UNCHANGED <<transfer, manager>>
    BY <1>7 DEF OwnerStep, TransferOwnership, AcceptOwnership, RenounceOwnership, ConfigureOwner,
                PauseOne, UnpauseOne, ConfigureCore, CoreReceivers, PuppeteerReceivers,
                PuppeteerUnbondings, ManagerHandlers, HandlerConfig, SetReceivers, SetHandled,
                SetFrom, rewardsVars
  <2> QED BY <2>1, <1>2
<1>8. CASE RegisterICA \/ \E id \in Ids : QueryResult(id)
  BY <1>2, <1>8 DEF RegisterICA, QueryResult, rewardsVars
<1>9. CASE \E d \in Denom, amount \in Lumps : Reward(d, amount)
  BY <1>2, <1>9 DEF Reward, Earn
<1>10. CASE UNCHANGED vars
  BY <1>2, <1>10 DEF vars, rewardsVars
<1> QED BY <1>5, <1>6, <1>7, <1>8, <1>9, <1>10 DEF Next

(* From the factory's pause to the first unpausing nothing is sent. *)
THEOREM FrozenMeansStillAlways == Spec => FrozenMeansStill
<1>1. Inv /\ [Next]_vars =>
        [frozen => /\ transfer' \in {transfer, NoTransfer}
                   /\ \A d \in Denom : manager'[d] >= manager[d]]_vars
  BY FrozenStepsSendNothing
<1> QED BY <1>1, Invariance, PTL DEF Spec, FrozenMeansStill

=============================================================================
