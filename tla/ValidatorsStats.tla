--------------------------- MODULE ValidatorsStats ---------------------------
(***************************************************************************)
(* The validators-stats contract: two interchain queries, one for the      *)
(* profiles of a list of validators and one for their signing infos, and   *)
(* what is made of their results; and the copy of it in the validators     *)
(* set, which whoever is configured as the stats contract sends there.     *)
(*                                                                         *)
(* One clock stands for the heights and the times of both chains.  The     *)
(* heights at which a validator was last seen, seen bonded, and seen with  *)
(* a fair commission are left out: nothing reads them but their query.     *)
(***************************************************************************)
EXTENDS Integers, Sequences, FiniteSets, SequencesExt, Functions

CONSTANTS
  Valopers,
  Lists,         \* lists of validators that somebody may register
  Keep,          \* for how long records of missed blocks are kept: 30 days
  MaxTime,       \* bound of the model: the clock,
  MaxMissed,     \*   blocks missed by a validator,
  MaxJailings    \*   and how often it is jailed

ASSUME StatsAssumption ==
  /\ IsFiniteSet(Valopers) /\ Lists \subseteq Seq(Valopers)
  /\ {Keep, MaxTime, MaxMissed, MaxJailings} \subseteq Nat

VARIABLES
  profileQuery,   \* VALIDATOR_PROFILE_QUERY_ID: the list of validators asked for, if any
  infoQuery,      \* SIGNING_INFO_QUERY_ID and VALCONS_TO_VALOPER, likewise
  state,          \* STATE_MAP
  records,        \* MISSED_BLOCKS
  members,        \* VALIDATORS_SET: [tombstone, jailed_number] by member
  chain,         \* the remote chain's validators
  now,
  profiles,       \* results that were read and not delivered
  infos,
  infoHeight      \* height of the last result for signing infos

contractVars == <<profileQuery, infoQuery, state, records, infoHeight>>
readVars == <<profiles, infos>>
statsVars == <<contractVars, members, chain, now, readVars>>

Never == -1
ValidatorState ==
  [missed : Nat, blocks : Nat,   \* uptime: one less the ratio of both
   tombstone : BOOLEAN, prev_jailed_state : BOOLEAN, jailed_number : Nat]
MissedBlocks == [height : Nat, time : Nat, valoper : Valopers, missed : Nat]
(* `jailings` is a history: how often the validator was jailed *)
RemoteValidator ==
  [jailed : BOOLEAN, jailings : 0..MaxJailings, tombstoned : BOOLEAN, missed : 0..MaxMissed]
Profile == [Valopers -> BOOLEAN]   \* jailed
SigningInfo == [Valopers -> [tombstoned : BOOLEAN, missed : 0..MaxMissed]]
FreshMember == [tombstone |-> FALSE, jailed_number |-> 0]

(* the types of the state of both contracts, and of what the relayer carries *)
StatsTypeOK ==
  /\ profileQuery \subseteq Seq(Valopers) /\ infoQuery \subseteq Seq(Valopers)
  /\ Cardinality(infoQuery) <= 1
  /\ DOMAIN state \subseteq Valopers /\ Range(state) \subseteq ValidatorState
  /\ records \in Seq(MissedBlocks)
  /\ DOMAIN members \subseteq Valopers
  /\ Range(members) \subseteq [tombstone : BOOLEAN, jailed_number : Nat]
  /\ chain \in [Valopers -> RemoteValidator]
  /\ now \in 0..MaxTime /\ infoHeight \in 0..MaxTime \cup {Never}
  /\ profiles \subseteq Profile
  /\ \A r \in infos : r.height \in 0..MaxTime /\ r.data \in SigningInfo

StatsInit ==
  /\ profileQuery = {} /\ infoQuery = {}
  /\ state = <<>> /\ records = <<>> /\ members = <<>>
  /\ chain = [v \in Valopers |->
                 [jailed |-> FALSE, jailings |-> 0, tombstoned |-> FALSE, missed |-> 0]]
  /\ now = 0 /\ infoHeight = Never
  /\ profiles = {} /\ infos = {}

-----------------------------------------------------------------------------
(***************************************************************************)
(* The stats contract                                                      *)
(***************************************************************************)

(* validator_info_reply: results of an older query are not heeded any more *)
ValidatorInfoReply(list) == profileQuery' = {list} /\ profiles' = {}

(* register_stats_queries, by anybody, with the reply *)
RegisterStatsQueries(list) ==
  /\ ValidatorInfoReply(list)
  /\ UNCHANGED <<infoQuery, state, records, infoHeight, members, chain, now, infos>>

(* register_signing_infos_query, with the reply *)
RegisterSigningInfos(list) == infoQuery' = {list}

(* the uptime of a validator of which no info came yet is zero *)
NewState == [missed |-> 1, blocks |-> 1, tombstone |-> FALSE, prev_jailed_state |-> FALSE,
             jailed_number |-> 0]
GetValidatorState_new(states, v) == NewState
GetValidatorState(states, v) == IF v \in DOMAIN states THEN states[v] ELSE NewState

JailedNumber_each_time(st, jailed) == IF jailed THEN st.jailed_number + 1 ELSE st.jailed_number
JailedNumber_on_release(st, jailed) ==
  IF st.prev_jailed_state /\ ~jailed THEN st.jailed_number - 1 ELSE st.jailed_number
JailedNumber(st, jailed) ==
  IF ~st.prev_jailed_state /\ jailed THEN st.jailed_number + 1 ELSE st.jailed_number

WithProfile(st, jailed) ==
  [st EXCEPT !.jailed_number = JailedNumber(st, jailed), !.prev_jailed_state = jailed]

(* sudo_validator_info: the first result only registers the query for signing infos *)
SudoValidatorInfo ==
  \E list \in profileQuery, result \in profiles :
    /\ IF infoQuery = {}
       THEN RegisterSigningInfos(list) /\ UNCHANGED state
       ELSE /\ state' = [v \in DOMAIN state \cup ToSet(list) |->
                           IF v \in ToSet(list)
                           THEN WithProfile(GetValidatorState(state, v), result[v])
                           ELSE state[v]]
            /\ UNCHANGED infoQuery
    /\ profiles' = {}
    /\ UNCHANGED <<profileQuery, records, infoHeight, members, chain, now, infos>>

(* for every info the oldest record is dropped if its time is over *)
Recent(list) == IF list # <<>> /\ list[1].time <= now - Keep THEN Tail(list) ELSE list

(* calucalate_missed_blocks_percent: the present counter and those of the records *)
MissedIn_all(list, v, counter) == FoldLeft(LAMBDA n, r : n + r.missed, counter, list)
MissedIn(list, v, counter) ==
  FoldLeft(LAMBDA n, r : IF r.valoper = v THEN n + r.missed ELSE n, counter, list)
BlocksIn(list, height) == IF list = <<>> THEN 0 ELSE height - list[1].height

Tombstone(st, info) == st.tombstone \/ info.tombstoned

(* one info of sudo_signing_info.  `ok` is whether 1 less the share of missed blocks can be
   computed: the share may exceed 1, because a counter does not only count the blocks
   missed since the record before, and then the result is refused. *)
WithInfo(acc, v, result) ==
  LET list == Recent(acc.records)
      info == result.data[v]
      missed == MissedIn(list, v, info.missed)
      blocks == BlocksIn(list, result.height)
      st == GetValidatorState(acc.state, v)
      new == [st EXCEPT !.tombstone = Tombstone(st, info),
                        !.missed = IF blocks = 0 THEN 0 ELSE missed,
                        !.blocks = IF blocks = 0 THEN 1 ELSE blocks]
  IN  [ok |-> acc.ok /\ (blocks = 0 \/ missed <= blocks),
       state |-> [w \in DOMAIN acc.state \cup {v} |-> IF w = v THEN new ELSE acc.state[w]],
       records |-> Append(list, [height |-> result.height, time |-> now,
                                 valoper |-> v, missed |-> info.missed])]

AfterInfos(list, result) ==
  FoldLeft(LAMBDA acc, v : WithInfo(acc, v, result),
           [ok |-> TRUE, state |-> state, records |-> records], list)

SudoSigningInfo ==
  \E list \in infoQuery, result \in infos :
    LET after == AfterInfos(list, result)
    IN  /\ after.ok
        /\ state' = after.state /\ records' = after.records
        /\ infoHeight' = result.height
        /\ infos' = {}
        /\ UNCHANGED <<profileQuery, infoQuery, members, chain, now, profiles>>

-----------------------------------------------------------------------------
(***************************************************************************)
(* The validators set                                                      *)
(***************************************************************************)

(* execute_update_validators, execute_update_validator *)
UpdateMembers(list) == members' = [v \in ToSet(list) |-> FreshMember]
UpdateMember(v) ==
  members' = [w \in DOMAIN members \cup {v} |-> IF w = v THEN FreshMember ELSE members[w]]

(* execute_update_validators_info: members only *)
UpdateMembersInfo(updated) ==
  members' = [v \in DOMAIN members |->
                IF v \in updated THEN [tombstone |-> state[v].tombstone,
                                       jailed_number |-> state[v].jailed_number]
                ELSE members[v]]

SetStep ==
  /\ \/ \E list \in Lists : UpdateMembers(list)
     \/ \E v \in Valopers : UpdateMember(v)
     \/ \E updated \in SUBSET DOMAIN state : UpdateMembersInfo(updated)
  /\ UNCHANGED <<contractVars, chain, now, readVars>>

-----------------------------------------------------------------------------
(***************************************************************************)
(* The remote chain and the relayer                                        *)
(***************************************************************************)

Jail(v, forEver) ==
  /\ ~chain[v].jailed /\ chain[v].jailings < MaxJailings
  /\ chain' = [chain EXCEPT ![v].jailed = TRUE, ![v].tombstoned = forEver,
                              ![v].jailings = @ + 1]

Unjail(v) ==
  /\ chain[v].jailed /\ ~chain[v].tombstoned
  /\ chain' = [chain EXCEPT ![v].jailed = FALSE]

JailStep ==
  /\ \E v \in Valopers :
       \/ \E forEver \in BOOLEAN : Jail(v, forEver)
       \/ Unjail(v)
  /\ UNCHANGED <<contractVars, members, now, readVars>>

(* a block, which some validators miss *)
NewBlock ==
  /\ now < MaxTime
  /\ now' = now + 1
  /\ \E missing \in SUBSET {v \in Valopers : chain[v].missed < MaxMissed} :
       chain' = [v \in Valopers |->
                    [chain[v] EXCEPT !.missed = IF v \in missing THEN @ + 1 ELSE @]]
  /\ UNCHANGED <<contractVars, members, readVars>>

(* A result is newer than the last one of its query. *)
ReadProfiles == [v \in Valopers |-> chain[v].jailed]
ReadInfos ==
  [height |-> now,
   data |-> [v \in Valopers |-> [tombstoned |-> chain[v].tombstoned, missed |-> chain[v].missed]]]

Read ==
  /\ \/ profileQuery # {} /\ profiles' = {ReadProfiles} /\ UNCHANGED infos
     \/ infoQuery # {} /\ now > infoHeight /\ infos' = {ReadInfos} /\ UNCHANGED profiles
  /\ UNCHANGED <<contractVars, members, chain, now>>

StatsNext ==
  \/ \E list \in Lists : RegisterStatsQueries(list)
  \/ SudoValidatorInfo \/ SudoSigningInfo
  \/ SetStep \/ JailStep \/ NewBlock \/ Read

StatsSpec == StatsInit /\ [][StatsNext]_statsVars

-----------------------------------------------------------------------------
(***************************************************************************)
(* Properties                                                              *)
(***************************************************************************)

(* Neither contract counts more jailings of a validator than there were, however often it
   is seen jailed and whoever registers a query anew. *)
JailingsAreReal ==
  /\ \A v \in DOMAIN state : state[v].jailed_number <= chain[v].jailings
  /\ \A v \in DOMAIN members : members[v].jailed_number <= chain[v].jailings

(* What the contract saw of a validator for good is never forgotten when other results of
   it, or the first of another list, come in. *)
TombstonesStay ==
  [][\A v \in DOMAIN state :
       v \in DOMAIN state' /\ (state[v].tombstone => state'[v].tombstone)]_statsVars

(* A validator that missed no block has its full uptime, whatever the others of its list
   and the records of earlier lists are. *)
NobodyIsBlamed ==
  \A i \in DOMAIN records :
    chain[records[i].valoper].missed = 0 => state[records[i].valoper].missed = 0

=============================================================================
