------------------------------- MODULE Queries ------------------------------
(***************************************************************************)
(* The puppeteer's interchain queries for non-native rewards and for       *)
(* unbonding delegations: their registration, the replies that bring their *)
(* ids, and the results, which the contract tells apart by id alone.       *)
(* (The query for the balance and the delegations is in module Staking.)   *)
(*                                                                         *)
(* A registration and its replies are one transaction of the chain.        *)
(***************************************************************************)
EXTENDS Integers, Sequences, SequencesExt, FiniteSets

CONSTANTS
  Validator, Denom,
  None            \* nothing stored

VARIABLES
  kvQueries,      \* kv_queries: the kind of a query by its id
  watched,        \* what the chain's query module reads for an id
  nonNative,      \* NON_NATIVE_REWARD_BALANCES
  records         \* unbonding_delegations, by validator

queriesVars == <<kvQueries, watched, nonNative, records>>

Kinds == {"NonNativeRewardsBalances", "UnbondingDelegations"}
Ids == DOMAIN kvQueries
QueriesOf(kind) == {id \in Ids : kvQueries[id] = kind}

QueriesTypeOK ==
  /\ kvQueries \in Seq(Kinds) /\ watched \in Seq(SUBSET (Denom \cup Validator))
  /\ Len(watched) = Len(kvQueries)
  /\ nonNative = None \/ /\ DOMAIN nonNative \subseteq Denom
                         /\ \A d \in DOMAIN nonNative : nonNative[d] \in Nat
  /\ DOMAIN records \subseteq Validator
  /\ \A v \in DOMAIN records :
       records[v].query \in Ids /\ records[v].found \in Validator \cup {None}

QueriesInit ==
  /\ kvQueries = <<>> /\ watched = <<>>
  /\ nonNative = None
  /\ records = <<>>

(* register_kv_query_reply, for every query of a list *)
Register(keys, kind) ==
  /\ watched' = watched \o keys
  /\ kvQueries' = kvQueries \o [i \in DOMAIN keys |-> kind]

RegisterNonNative_anew(denoms) ==
  /\ Register(<<denoms>>, "NonNativeRewardsBalances")
  /\ UNCHANGED <<nonNative, records>>

(* register_non_native_rewards_balances_query: a query of the kind is changed, the
   first one is registered *)
RegisterNonNative(denoms) ==
  LET old == QueriesOf("NonNativeRewardsBalances") IN
  /\ \/ /\ old = {}
        /\ Register(<<denoms>>, "NonNativeRewardsBalances")
     \/ /\ old # {}
        /\ watched' = [id \in Ids |-> IF id \in old THEN denoms ELSE watched[id]]
        /\ UNCHANGED kvQueries
  /\ UNCHANGED <<nonNative, records>>

(* The id of a reply carries its kind above 16 bits and an index in them *)
OFFSET == 65536   \* 1 << 16
KvUnbondingDelegations == 5
ToReplyId(kind, index) == kind * OFFSET + index
FromReplyId(id) == [kind |-> id \div OFFSET, index |-> id % OFFSET]

(* The validator whose record waits under the index that the i-th reply carries *)
AtReply_first(list, i) == list[1]
AtReply(list, i) == list[FromReplyId(ToReplyId(KvUnbondingDelegations, i - 1)).index + 1]

(* register_unbonding_delegations_query and its replies: a new query for each of the
   list, the record of each pointing to it.  Old queries stay. *)
RegisterUnbonding(list) ==
  LET repliesFor(v) == {i \in DOMAIN list : AtReply(list, i) = v}
      last(v) == CHOOSE i \in repliesFor(v) : \A j \in repliesFor(v) : j <= i
      registered == {v \in Validator : repliesFor(v) # {}}
  IN
  /\ Register([i \in DOMAIN list |-> {list[i]}], "UnbondingDelegations")
  /\ records' = [v \in DOMAIN records \cup registered |->
                   IF v \in registered
                   THEN [query |-> Len(kvQueries) + last(v), found |-> None]
                   ELSE records[v]]
  /\ UNCHANGED nonNative

(* MultiBalances: an empty balance has no entry in the remote chain's store, its value is
   empty and left out *)
Reconstructed(denoms, balances) ==
  [d \in {e \in denoms : balances[e] > 0} |-> balances[d]]

(* KVQueryResult of a query for balances: they are stored whichever query of the kind
   they come from *)
BalancesResult(id, balances) ==
  /\ id \in QueriesOf("NonNativeRewardsBalances")
  /\ nonNative' = Reconstructed(watched[id], balances)
  /\ UNCHANGED <<kvQueries, watched, records>>

(* sudo_unbonding_delegations_kv_query_result: stored in the record that has this query,
   if there is one still.  Of the entries, the validator they were read of. *)
UnbondingResult(id) ==
  LET read == CHOOSE v \in Validator : watched[id] = {v} IN
  /\ id \in QueriesOf("UnbondingDelegations")
  /\ records' = [v \in DOMAIN records |->
                   IF records[v].query = id THEN [records[v] EXCEPT !.found = read]
                   ELSE records[v]]
  /\ UNCHANGED <<kvQueries, watched, nonNative>>

(* Unbonding entries are stored for the validator they were read of: no registration
   of other lists, however often and with a validator twice, makes the results of an
   old or a foreign query pass for the record's. *)
RecordsAreOwn ==
  \A v \in DOMAIN records : records[v].found \in {None, v}

=============================================================================
