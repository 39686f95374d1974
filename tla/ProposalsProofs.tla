--------------------------- MODULE ProposalsProofs ---------------------------
(***************************************************************************)
(* Proofs about what the contracts say of the remote chain's validators:   *)
(* Proposals first, then ValidatorsStats.  The two modules have no         *)
(* variable in common; they are about two parts of one validators set.     *)
(*                                                                         *)
(* Proposals: votes that are stored are kept, and a validator is counted   *)
(* only for what it has done.  The inductive invariant follows a proposal  *)
(* and a vote from the remote chain through the results that are under way *)
(* to what the contracts store of them.                                    *)
(*                                                                         *)
(* ValidatorsStats: no more jailings are counted than there were, nobody   *)
(* is blamed for the blocks of others, and a tombstone is not forgotten.   *)
(* The results under way are between what was seen and what is.            *)
(***************************************************************************)
EXTENDS Proposals, ValidatorsStats, SumProofs, TLAPS

RemoteProposals == [status : Statuses, tally : Tallies \cup {NoTally}, cast : SUBSET Validators]
Remotes == [Ids -> RemoteProposals]

(* Proposals come in the order of their numbers. *)
ChainInv ==
  /\ remote \in Remotes /\ submitted \in 0..LastProposal
  /\ \A p \in Ids : p > submitted => remote[p].status = "unspecified"

(* What a result says of a finished proposal stays true. *)
TrueOf(data) ==
  \A p \in DOMAIN data :
    /\ p \in Ids
    /\ data[p].status \in Finished =>
         remote[p].status = data[p].status /\ remote[p].tally = data[p].tally

AskingInv ==
  /\ prefetch \in 1..MaxPrefetch
  /\ \E k \in Ids, n \in 1..MaxPrefetch : asked = AskFrom(k, n)
  /\ asked \subseteq Ids
  /\ DOMAIN known \subseteq Ids
  /\ \A data \in result : TrueOf(data)

(* There is one query of votes at most, and it is the only one there ever is. *)
QueryInv ==
  /\ \A a, b \in voters : a = b
  /\ \A q, r \in votesQuery : q = r
  /\ \A q \in votesQuery : q.proposals \subseteq Ids
  /\ votesQuery # {} => DOMAIN known # {}
  /\ votesQuery = {} => DOMAIN votes = {} /\ votesResult = {}

(* Votes grow on their way from the contract to the result and to the remote chain. *)
StoredInv ==
  /\ DOMAIN votes \subseteq Ids
  /\ \A q \in votesQuery, p \in DOMAIN votes : votes[p] \subseteq remote[p].cast \cap q.voters
ReadInv ==
  \A read \in votesResult, q \in votesQuery : \A p \in DOMAIN read :
    /\ p \in Ids
    /\ read[p] \subseteq remote[p].cast \cap q.voters
    /\ p \in DOMAIN votes /\ read[p] # {} => votes[p] \subseteq read[p]

Earned(v, p) ==
  /\ p \in Ids
  /\ remote[p].status \in Finished
  /\ ~IsSpam(remote[p].tally)
  /\ v \in remote[p].cast

CountInv ==
  \A v \in DOMAIN validators :
    /\ validators[v].init_proposal \in Nat /\ validators[v].counted \in Nat
    /\ validators[v].counted > 0 => validators[v].init_proposal # 0
    /\ validators[v].init_proposal # 0 => Earned(v, validators[v].init_proposal)

Inv == ChainInv /\ AskingInv /\ QueryInv /\ StoredInv /\ ReadInv /\ CountInv

-----------------------------------------------------------------------------

LEMMA InitInv == ASSUME ProposalsAssumption, Init PROVE Inv
<1>1. /\ InitProposal \in Nat \ {0} /\ LastProposal \in Nat /\ MaxPrefetch \in Nat
      /\ prefetch \in 1..MaxPrefetch
  BY DEF ProposalsAssumption, Init
<1>2. ChainInv
  BY <1>1 DEF ChainInv, Remotes, RemoteProposals, Init, Statuses
<1>3. AskingInv
  <2>1. InitProposal \in Ids /\ asked = AskFrom(InitProposal, prefetch)
    BY <1>1 DEF Init, Ids
  <2>2. asked \subseteq Ids
    BY <1>1, <2>1 DEF AskFrom, Ids
  <2>3. DOMAIN known = {} /\ result = {}
    BY DEF Init
  <2> QED BY <1>1, <2>1, <2>2, <2>3 DEF AskingInv
<1>4. QueryInv /\ StoredInv /\ ReadInv /\ CountInv
  BY DEF QueryInv, StoredInv, ReadInv, CountInv, Init, VotesInit
<1> QED BY <1>2, <1>3, <1>4 DEF Inv

-----------------------------------------------------------------------------
(***************************************************************************)
(* The remote chain                                                        *)
(***************************************************************************)

(* A finished proposal and the votes that were cast stay as they are. *)
ChainGrows ==
  \A p \in Ids :
    /\ remote[p].cast \subseteq remote'[p].cast
    /\ remote[p].status \in Finished =>
         remote'[p].status = remote[p].status /\ remote'[p].tally = remote[p].tally

LEMMA RemoteKeepsChain ==
  ASSUME ProposalsAssumption, ChainInv, RemoteStep
  PROVE  ChainInv' /\ ChainGrows
<1>0. /\ LastProposal \in Nat /\ InitProposal \in Nat \ {0} /\ MaxPrefetch \in Nat
      /\ submitted \in 0..LastProposal
      /\ Endings \subseteq Finished
  BY DEF ProposalsAssumption, ChainInv, Finished
<1>1. CASE Submit
  <2>1. submitted + 1 \in Ids /\ submitted + 1 \in 0..LastProposal
    BY <1>0, <1>1 DEF Submit, Ids
  <2>2. remote[submitted + 1].status = "unspecified"
    BY <1>0, <2>1 DEF ChainInv
  <2>3. remote' = [remote EXCEPT ![submitted + 1] = [@ EXCEPT !.status = "deposit"]]
        /\ submitted' = submitted + 1
    BY <1>1 DEF Submit
  <2>4. remote' \in Remotes
    BY <2>1, <2>3 DEF ChainInv, Remotes, RemoteProposals, Statuses
  <2>5. ASSUME NEW p \in Ids
        PROVE  /\ p # submitted + 1 => remote'[p] = remote[p]
               /\ p = submitted + 1 => remote'[p] = [remote[p] EXCEPT !.status = "deposit"]
    BY <2>1, <2>3 DEF ChainInv, Remotes
  <2>6. ASSUME NEW p \in Ids, p > submitted' PROVE remote'[p].status = "unspecified"
    <3>1. p > submitted /\ p # submitted + 1
      BY <1>0, <2>3, <2>6 DEF Ids
    <3> QED BY <2>5, <3>1 DEF ChainInv
  <2>7. ChainGrows
    <3>1. "unspecified" \notin Finished
      BY DEF Finished
    <3>2. ASSUME NEW p \in Ids
          PROVE  /\ remote[p].cast \subseteq remote'[p].cast
                 /\ remote[p].status \in Finished =>
                      remote'[p].status = remote[p].status /\ remote'[p].tally = remote[p].tally
      <4>1. CASE p = submitted + 1
        <5>1. remote[p] \in RemoteProposals
          BY DEF ChainInv, Remotes
        <5>2. remote'[p] = [remote[p] EXCEPT !.status = "deposit"] /\ remote[p].status \notin Finished
          BY <2>2, <2>5, <3>1, <4>1
        <5> QED BY <5>1, <5>2 DEF RemoteProposals
      <4> QED BY <2>5, <4>1
    <3> QED BY <3>2 DEF ChainGrows
  <2> QED BY <2>1, <2>3, <2>4, <2>6, <2>7 DEF ChainInv
<1>2. ASSUME NEW p \in Ids, NEW status \in Statuses, NEW tally \in Tallies \cup {NoTally},
             Move(p, status, tally)
      PROVE  ChainInv' /\ ChainGrows
  <2> DEFINE moved == [remote[p] EXCEPT !.status = status, !.tally = tally]
  <2>1. remote' = [remote EXCEPT ![p] = moved] /\ submitted' = submitted
    BY <1>2 DEF Move, ChainInv, Remotes
  <2>2. remote[p].status \notin Finished \cup {"unspecified"}
    BY <1>2 DEF Move, Finished
  <2>3. moved \in RemoteProposals /\ moved.cast = remote[p].cast
    <3>1. remote[p] \in RemoteProposals
      BY DEF ChainInv, Remotes
    <3> QED BY <3>1 DEF RemoteProposals
  <2> HIDE DEF moved
  <2>4. /\ remote' \in Remotes /\ remote'[p] = moved
        /\ \A q \in Ids : q # p => remote'[q] = remote[q]
    BY <2>1, <2>3 DEF ChainInv, Remotes
  <2>5. ASSUME NEW q \in Ids, q > submitted' PROVE remote'[q].status = "unspecified"
    BY <2>1, <2>2, <2>4, <2>5 DEF ChainInv
  <2>6. ChainGrows
    BY <2>2, <2>3, <2>4 DEF ChainGrows
  <2> QED BY <2>1, <2>4, <2>5, <2>6 DEF ChainInv
<1>3. ASSUME NEW v \in Validators, NEW p \in Ids, Vote(v, p)
      PROVE  ChainInv' /\ ChainGrows
  <2> DEFINE voted == [remote[p] EXCEPT !.cast = @ \cup {v}]
  <2>1. remote' = [remote EXCEPT ![p] = voted] /\ submitted' = submitted
    BY <1>3 DEF Vote, ChainInv, Remotes
  <2>2. /\ voted \in RemoteProposals /\ voted.status = remote[p].status /\ voted.tally = remote[p].tally
        /\ remote[p].cast \subseteq voted.cast
    <3>1. remote[p] \in RemoteProposals
      BY DEF ChainInv, Remotes
    <3> QED BY <3>1 DEF RemoteProposals
  <2> HIDE DEF voted
  <2>3. /\ remote' \in Remotes /\ remote'[p] = voted
        /\ \A q \in Ids : q # p => remote'[q] = remote[q]
    BY <2>1, <2>2 DEF ChainInv, Remotes
  <2> QED BY <2>1, <2>2, <2>3 DEF ChainInv, ChainGrows
<1> QED BY <1>1, <1>2, <1>3 DEF RemoteStep

LEMMA RemoteKeeps ==
  ASSUME ProposalsAssumption, Inv, RemoteStep
  PROVE  Inv'
<1>1. ChainInv' /\ ChainGrows
  BY RemoteKeepsChain DEF Inv
<1>2. UNCHANGED <<prefetch, votesAddress, asked, known, votes, linked, voters, active, votesQuery,
                  counting, validators, result, votesResult>>
  BY DEF RemoteStep, providerVars, votesVars, setVars, resultVars
<1>3. AskingInv'
  <2>1. ASSUME NEW data \in result, TrueOf(data) PROVE TrueOf(data)'
    BY <1>1, <2>1 DEF TrueOf, ChainGrows
  <2> QED BY <1>2, <2>1 DEF Inv, AskingInv
<1>4. QueryInv' /\ StoredInv' /\ ReadInv'
  <2>1. QueryInv'
    BY <1>2 DEF Inv, QueryInv
  <2>2. StoredInv'
    BY <1>1, <1>2 DEF Inv, StoredInv, ChainGrows
  <2>3. ReadInv'
    BY <1>1, <1>2 DEF Inv, ReadInv, ChainGrows
  <2> QED BY <2>1, <2>2, <2>3
<1>5. CountInv'
  <2>1. ASSUME NEW v, NEW p, Earned(v, p) PROVE Earned(v, p)'
    BY <1>1, <2>1 DEF Earned, ChainGrows, IsSpam
  <2> QED BY <1>2, <2>1 DEF Inv, CountInv
<1> QED BY <1>1, <1>3, <1>4, <1>5 DEF Inv

-----------------------------------------------------------------------------
(***************************************************************************)
(* The query of the votes                                                  *)
(***************************************************************************)

(* A query that exists stays, as long as no empty list of proposals is set. *)
LEMMA UpdateKeepsQuery ==
  ASSUME NEW proposals \in SUBSET Ids, QueryInv, UpdateActiveProposals(proposals),
         proposals = {} => votesQuery = {}
  PROVE  /\ votesQuery # {} => votesQuery' = votesQuery
         /\ votesQuery' # {} => votesQuery # {} \/ proposals # {}
         /\ \A q, r \in votesQuery' : q = r
         /\ \A q \in votesQuery' : q.proposals \subseteq Ids
  BY DEF UpdateActiveProposals, RemoveVotesQuery, RegisterVotesQuery, QueryInv

(* What such an update leaves of the invariant. *)
LEMMA QueryStepKeeps ==
  ASSUME Inv, UNCHANGED <<voters, votes, votesResult, remote>>,
         DOMAIN known \subseteq DOMAIN known',
         votesQuery # {} => votesQuery' = votesQuery,
         votesQuery' # {} => DOMAIN known' # {},
         \A q, r \in votesQuery' : q = r,
         \A q \in votesQuery' : q.proposals \subseteq Ids
  PROVE  QueryInv' /\ StoredInv' /\ ReadInv'
<1>1. QueryInv'
  BY DEF Inv, QueryInv
<1>2. CASE votesQuery # {}
  BY <1>1, <1>2 DEF Inv, StoredInv, ReadInv
<1>3. CASE votesQuery = {}
  BY <1>1, <1>3 DEF Inv, QueryInv, StoredInv, ReadInv
<1> QED BY <1>1, <1>2, <1>3

LEMMA ConfigureKeeps ==
  ASSUME ProposalsAssumption, Inv, ConfigureProvider \/ ConfigureVotes \/ ConfigureSet
  PROVE  Inv'
<1>1. CASE ConfigureProvider
  <2>1. /\ UNCHANGED <<asked, known, votes, linked, voters, counting, validators, remote, submitted,
                       result, votesResult>>
        /\ prefetch' \in 1..MaxPrefetch
        /\ UpdateActiveProposals(DOMAIN known) \/ votesQuery' = votesQuery
    BY <1>1 DEF ConfigureProvider, SetProposalVotesAddress, setVars, remoteVars, resultVars,
                ProposalsAssumption, Inv, AskingInv
  <2>2. ChainInv' /\ AskingInv' /\ CountInv'
    BY <2>1 DEF Inv, ChainInv, AskingInv, TrueOf, CountInv, Earned
  <2>3. CASE votesQuery' = votesQuery
    BY <2>1, <2>3, QueryStepKeeps, <2>2 DEF Inv, QueryInv
  <2>4. CASE UpdateActiveProposals(DOMAIN known)
    <3>1. QueryInv /\ DOMAIN known \in SUBSET Ids /\ (DOMAIN known = {} => votesQuery = {})
      BY DEF Inv, QueryInv, AskingInv
    <3>2. /\ votesQuery # {} => votesQuery' = votesQuery
          /\ votesQuery' # {} => votesQuery # {} \/ DOMAIN known # {}
          /\ \A q, r \in votesQuery' : q = r
          /\ \A q \in votesQuery' : q.proposals \subseteq Ids
      BY <2>4, <3>1, UpdateKeepsQuery
    <3>3. votesQuery' # {} => DOMAIN known' # {}
      BY <2>1, <3>1, <3>2
    <3> QED BY <2>1, <2>2, <3>2, <3>3, QueryStepKeeps DEF Inv
  <2> QED BY <2>1, <2>3, <2>4
<1>2. CASE ConfigureVotes
  <2>1. UNCHANGED <<prefetch, asked, known, votes, votesQuery, validators, remote, submitted, result,
                    votesResult>>
    BY <1>2 DEF ConfigureVotes, providerVars, setVars, remoteVars, resultVars
  <2>2. \A a, b \in voters' : a = b
    BY <1>2 DEF ConfigureVotes, UpdateVotersList, Inv, QueryInv
  <2> QED BY <2>1, <2>2 DEF Inv, ChainInv, AskingInv, TrueOf, QueryInv, StoredInv, ReadInv, CountInv, Earned
<1>3. CASE ConfigureSet
  <2>1. UNCHANGED <<prefetch, asked, known, votes, voters, votesQuery, remote, submitted, result,
                    votesResult>>
    BY <1>3 DEF ConfigureSet, providerVars, votesVars, remoteVars, resultVars
  <2>2. ChainInv' /\ AskingInv' /\ QueryInv' /\ StoredInv' /\ ReadInv'
    BY <2>1 DEF Inv, ChainInv, AskingInv, TrueOf, QueryInv, StoredInv, ReadInv
  <2>3. CountInv'
    <3>1. ASSUME NEW listed, UpdateValidators(listed) PROVE CountInv'
      BY <3>1 DEF UpdateValidators, NewMember, CountInv
    <3>2. ASSUME NEW v, UpdateValidator(v) PROVE CountInv'
      BY <2>1, <3>2 DEF UpdateValidator, NewMember, CountInv, Earned, Inv
    <3>3. validators' = validators => CountInv'
      BY <2>1 DEF CountInv, Earned, Inv
    <3> QED BY <1>3, <3>1, <3>2, <3>3 DEF ConfigureSet
  <2> QED BY <2>2, <2>3 DEF Inv
<1> QED BY <1>1, <1>2, <1>3

-----------------------------------------------------------------------------
(***************************************************************************)
(* Results                                                                 *)
(***************************************************************************)

LEMMA ReadKeeps ==
  ASSUME ProposalsAssumption, Inv, ReadProposals \/ ReadVotes \/ Drop
  PROVE  Inv'
<1>1. /\ UNCHANGED <<prefetch, votesAddress, asked, known, votes, linked, voters, active, votesQuery,
                     counting, validators, remote, submitted>>
  BY DEF ReadProposals, ReadVotes, Drop, providerVars, votesVars, setVars, remoteVars
<1>2. ChainInv' /\ StoredInv' /\ CountInv'
  BY <1>1 DEF Inv, ChainInv, StoredInv, CountInv, Earned
<1>3. ASSUME NEW data \in result' PROVE TrueOf(data)'
  <2>1. CASE data \in result
    BY <1>1, <2>1 DEF Inv, AskingInv, TrueOf
  <2>2. CASE data = [p \in asked |-> [status |-> remote[p].status, tally |-> remote[p].tally]]
    BY <1>1, <2>2 DEF Inv, AskingInv, TrueOf
  <2> QED BY <1>3, <2>1, <2>2 DEF ReadProposals, ReadVotes, Drop
<1>4. ASSUME NEW read \in votesResult'
      PROVE  read \in votesResult
             \/ \E q \in votesQuery :
                  read = [p \in q.proposals |->
                            IF remote[p].status = "voting" THEN remote[p].cast \cap q.voters ELSE {}]
  BY <1>4 DEF ReadProposals, ReadVotes, Drop
<1>5. QueryInv'
  BY <1>1, <1>4 DEF Inv, QueryInv
<1>6. ReadInv'
  <2>1. ASSUME NEW read \in votesResult', NEW q \in votesQuery, NEW p \in DOMAIN read
        PROVE  /\ p \in Ids
               /\ read[p] \subseteq remote[p].cast \cap q.voters
               /\ p \in DOMAIN votes /\ read[p] # {} => votes[p] \subseteq read[p]
    <3>1. CASE read \in votesResult
      BY <2>1, <3>1 DEF Inv, ReadInv
    <3>2. CASE \E r \in votesQuery :
                 read = [x \in r.proposals |->
                           IF remote[x].status = "voting" THEN remote[x].cast \cap r.voters ELSE {}]
      <4>1. PICK r \in votesQuery :
                 read = [x \in r.proposals |->
                           IF remote[x].status = "voting" THEN remote[x].cast \cap r.voters ELSE {}]
        BY <3>2
      <4>2. r = q /\ q.proposals \subseteq Ids
        BY DEF Inv, QueryInv
      <4>3. p \in q.proposals
        BY <2>1, <4>1, <4>2
      <4>4. read[p] = IF remote[p].status = "voting" THEN remote[p].cast \cap q.voters ELSE {}
        BY <4>1, <4>2, <4>3
      <4>5. p \in DOMAIN votes => votes[p] \subseteq remote[p].cast \cap q.voters
        BY DEF Inv, StoredInv
      <4> QED BY <4>2, <4>3, <4>4, <4>5
    <3> QED BY <1>4, <3>1, <3>2
  <2> QED BY <1>1, <2>1 DEF ReadInv
<1> QED BY <1>1, <1>2, <1>3, <1>5, <1>6 DEF Inv, AskingInv

(* What the delivery of votes leaves of what was stored before, and what it adds. *)
LEMMA DeliveredVotes ==
  ASSUME Inv, NEW read \in votesResult, UpdateProposalVotes(read) \/ votes' = votes
  PROVE  /\ \A p \in DOMAIN votes : p \in DOMAIN votes' /\ votes[p] \subseteq votes'[p]
         /\ \A p \in DOMAIN votes' : \/ p \in DOMAIN votes /\ votes'[p] = votes[p]
                                     \/ p \in DOMAIN read /\ votes'[p] = read[p]
<1>1. CASE votes' = votes
  BY <1>1
<1>2. CASE UpdateProposalVotes(read)
  <2> DEFINE voted == {p \in DOMAIN read : read[p] # {}}
  <2>1. votes' = [p \in DOMAIN votes \cup voted |-> IF p \in voted THEN read[p] ELSE votes[p]]
    BY <1>2 DEF UpdateProposalVotes
  <2>2. PICK q : q \in votesQuery
    BY DEF Inv, QueryInv
  <2>3. ASSUME NEW p \in DOMAIN votes, p \in voted PROVE votes[p] \subseteq read[p]
    BY <2>2, <2>3 DEF Inv, ReadInv
  <2> QED BY <2>1, <2>3
<1> QED BY <1>1, <1>2

LEMMA DeliverVotesKeeps ==
  ASSUME ProposalsAssumption, Inv, DeliverVotes
  PROVE  Inv'
<1>1. PICK read \in votesResult :
        /\ UpdateProposalVotes(read) \/ votes' = votes
        /\ votesResult' = {}
        /\ \E q \in votesQuery : DOMAIN read = q.proposals
  BY DEF DeliverVotes
<1>2. UNCHANGED <<prefetch, votesAddress, asked, known, linked, voters, active, votesQuery, counting,
                  validators, remote, submitted, result>>
  BY DEF DeliverVotes, votesVars, setVars, remoteVars
<1>3. ChainInv' /\ AskingInv' /\ CountInv'
  BY <1>2 DEF Inv, ChainInv, AskingInv, TrueOf, CountInv, Earned
<1>4. QueryInv' /\ ReadInv'
  BY <1>1, <1>2 DEF Inv, QueryInv, ReadInv
<1>5. StoredInv'
  <2>1. \A p \in DOMAIN votes' : \/ p \in DOMAIN votes /\ votes'[p] = votes[p]
                                 \/ p \in DOMAIN read /\ votes'[p] = read[p]
    BY <1>1, DeliveredVotes
  <2> QED BY <1>1, <1>2, <2>1 DEF Inv, StoredInv, ReadInv
<1> QED BY <1>3, <1>4, <1>5 DEF Inv

LEMMA FirstIsLeast ==
  ASSUME NEW k \in Ids, NEW n \in 1..MaxPrefetch, ProposalsAssumption
  PROVE  Min(AskFrom(k, n)) \in AskFrom(k, n)
<1>1. k \in Nat /\ n \in Nat \ {0} /\ MaxPrefetch \in Nat
  BY DEF Ids, ProposalsAssumption
<1>2. k \in AskFrom(k, n) /\ \A y \in AskFrom(k, n) : k <= y
  BY <1>1 DEF AskFrom
<1> QED BY <1>2 DEF Min

LEMMA DeliverKeeps ==
  ASSUME ProposalsAssumption, Inv, Deliver
  PROVE  Inv'
<1>1. PICK data \in result :
        /\ DOMAIN data = asked
        /\ SudoProposalsQuery(data)
        /\ result' = {}
        /\ UNCHANGED <<prefetch, votesAddress, votes, linked, voters, counting, remoteVars, votesResult>>
  BY DEF Deliver
<1> DEFINE first == Min(DOMAIN data)
           present == {p \in DOMAIN data : data[p].status # "unspecified"}
<1>2. first \in DOMAIN data /\ first \in Ids
  BY <1>1, FirstIsLeast DEF Inv, AskingInv
<1>3. /\ TrueOf(data) /\ asked \subseteq Ids
      /\ LastProposal \in Nat /\ InitProposal \in Nat \ {0} /\ MaxPrefetch \in Nat
      /\ prefetch \in 1..MaxPrefetch /\ submitted \in 0..LastProposal
  BY DEF Inv, AskingInv, ChainInv, ProposalsAssumption
<1>4. /\ known' = [p \in DOMAIN known \cup present |-> IF p \in present THEN data[p] ELSE known[p]]
      /\ data[first].status \in Finished => CountFirst(first, data[first])
      /\ data[first].status \notin Finished => UNCHANGED <<asked, validators, active, votesQuery>>
  BY <1>1 DEF SudoProposalsQuery, IsFinished
<1>5. UNCHANGED <<prefetch, votesAddress, votes, linked, voters, counting, remote, submitted, votesResult>>
  BY <1>1 DEF remoteVars
<1> HIDE DEF first
<1>6. DOMAIN known' = DOMAIN known \cup present /\ present \subseteq Ids
  BY <1>1, <1>3, <1>4
<1>7. ChainInv'
  BY <1>5 DEF Inv, ChainInv
<1>8. CASE data[first].status \notin Finished
  <2>1. AskingInv' /\ CountInv'
    BY <1>1, <1>4, <1>5, <1>6, <1>8 DEF Inv, AskingInv, CountInv, Earned
  <2>2. votesQuery' = votesQuery /\ (votesQuery' # {} => DOMAIN known' # {})
    BY <1>4, <1>6, <1>8 DEF Inv, QueryInv
  <2>3. QueryInv' /\ StoredInv' /\ ReadInv'
    BY <1>5, <1>6, <2>2, QueryStepKeeps DEF Inv, QueryInv
  <2> QED BY <1>7, <2>1, <2>3 DEF Inv
<1>9. CASE data[first].status \in Finished
  <2>1. remote[first].status \in Finished /\ remote[first].tally = data[first].tally
    BY <1>2, <1>3, <1>9 DEF TrueOf
  <2>2. first \in 1..LastProposal
    <3>1. first <= submitted
      BY <1>2, <1>3, <2>1 DEF Inv, ChainInv, Finished, Ids
    <3> QED BY <1>2, <1>3, <3>1 DEF Ids
  <2>3. AskFrom(first, prefetch) \subseteq Ids /\ AskFrom(first, prefetch) # {}
    <3>1. first \in AskFrom(first, prefetch)
      BY <1>3, <2>2 DEF AskFrom
    <3>2. AskFrom(first, prefetch) \subseteq Ids
      BY <1>3, <2>2 DEF AskFrom, Ids
    <3> QED BY <3>1, <3>2
  <2>4. AskingInv'
    <3>1. asked' = AskFrom(first, prefetch)
      BY <1>4, <1>9 DEF CountFirst
    <3>2. DOMAIN known' \subseteq Ids
      BY <1>6 DEF Inv, AskingInv
    <3> QED BY <1>1, <1>2, <1>3, <1>5, <2>3, <3>1, <3>2 DEF AskingInv
  <2>5. QueryInv' /\ StoredInv' /\ ReadInv'
    <3>1. DOMAIN known' # {} /\ DOMAIN known \subseteq DOMAIN known'
      BY <1>2, <1>6, <1>9 DEF Finished
    <3>2. CASE UpdateActiveProposals(AskFrom(first, prefetch))
      <4>1. /\ votesQuery # {} => votesQuery' = votesQuery
            /\ \A q, r \in votesQuery' : q = r
            /\ \A q \in votesQuery' : q.proposals \subseteq Ids
        BY <2>3, <3>2, UpdateKeepsQuery DEF Inv
      <4> QED BY <1>5, <3>1, <4>1, QueryStepKeeps
    <3>3. CASE votesQuery' = votesQuery
      BY <1>5, <3>1, <3>3, QueryStepKeeps DEF Inv, QueryInv
    <3> QED BY <1>4, <1>9, <3>2, <3>3 DEF CountFirst
  <2>6. CountInv'
    <3>1. UpdateValidatorsVoting(first, VotesFor(first), IsSpam(data[first].tally))
      BY <1>4, <1>9 DEF CountFirst
    <3>2. VotesFor(first) \subseteq remote[first].cast
      BY DEF VotesFor, Inv, StoredInv, QueryInv
    <3>3. ASSUME NEW v \in DOMAIN validators'
          PROVE  /\ validators'[v].init_proposal \in Nat /\ validators'[v].counted \in Nat
                 /\ validators'[v].counted > 0 => validators'[v].init_proposal # 0
                 /\ validators'[v].init_proposal # 0 => Earned(v, validators'[v].init_proposal)
      <4>1. v \in DOMAIN validators
        BY <3>1, <3>3 DEF UpdateValidatorsVoting
      <4>2. /\ validators[v].init_proposal \in Nat /\ validators[v].counted \in Nat
            /\ validators[v].counted > 0 => validators[v].init_proposal # 0
            /\ validators[v].init_proposal # 0 => Earned(v, validators[v].init_proposal)
        BY <4>1 DEF Inv, CountInv
      <4>3. CASE validators'[v] = validators[v]
        BY <4>2, <4>3
      <4>4. CASE /\ ~IsSpam(data[first].tally) /\ v \in VotesFor(first)
                 /\ validators'[v] = [init_proposal |-> IF validators[v].init_proposal = 0 THEN first
                                                        ELSE validators[v].init_proposal,
                                      counted |-> validators[v].counted + 1]
        <5>1. Earned(v, first) /\ first \in Nat \ {0}
          BY <1>2, <2>1, <2>2, <3>2, <4>4 DEF Earned
        <5> QED BY <4>2, <4>4, <5>1
      <4> QED BY <3>1, <4>1, <4>3, <4>4 DEF UpdateValidatorsVoting
    <3> QED BY <1>5, <3>3 DEF CountInv, Earned
  <2> QED BY <1>7, <2>4, <2>5, <2>6 DEF Inv
<1> QED BY <1>8, <1>9

-----------------------------------------------------------------------------
(***************************************************************************)
(* Theorems                                                                *)
(***************************************************************************)

LEMMA NextKeeps == ASSUME ProposalsAssumption, Inv, [Next]_vars PROVE Inv'
<1>1. CASE Next
  BY <1>1, RemoteKeeps, ReadKeeps, DeliverKeeps, DeliverVotesKeeps, ConfigureKeeps DEF Next
<1>2. CASE UNCHANGED vars
  BY <1>2 DEF vars, providerVars, votesVars, setVars, remoteVars, resultVars, Inv, ChainInv, AskingInv,
              TrueOf, QueryInv, StoredInv, ReadInv, CountInv, Earned
<1> QED BY <1>1, <1>2

(* The invariant holds in every state. *)
THEOREM Invariance == Spec => []Inv
<1>1. Init => Inv
  BY InitInv, ProposalsAssumption
<1>2. Inv /\ [Next]_vars => Inv'
  BY NextKeeps, ProposalsAssumption
<1> QED BY <1>1, <1>2, PTL DEF Spec

(* A validator is counted only for a finished proposal that is no spam and in which it
   voted: sudo_proposals_query and execute_update_validators_voting. *)
THEOREM CountsAreEarnedAlways == Spec => []CountsAreEarned
<1>1. Inv => CountsAreEarned
  BY DEF Inv, CountInv, CountsAreEarned, Earned
<1> QED BY <1>1, Invariance, PTL

(* Votes that are stored stay, whatever later results say: execute_update_votes. *)
THEOREM VotesAreKeptAlways == Spec => VotesAreKept
<1>1. ASSUME Inv, [Next]_vars
      PROVE  [\A p \in DOMAIN votes : p \in DOMAIN votes' /\ votes[p] \subseteq votes'[p]]_vars
  <2>1. CASE DeliverVotes
    <3>1. PICK read \in votesResult : UpdateProposalVotes(read) \/ votes' = votes
      BY <2>1 DEF DeliverVotes
    <3> QED BY <1>1, <3>1, DeliveredVotes
  <2>2. CASE ~DeliverVotes
    <3>1. votes' = votes
      BY <1>1, <2>2 DEF Next, RemoteStep, ReadProposals, ReadVotes, Deliver, Drop, ConfigureProvider,
                        ConfigureVotes, ConfigureSet, vars, providerVars
    <3> QED BY <3>1
  <2> QED BY <2>1, <2>2
<1> QED BY <1>1, Invariance, PTL DEF Spec, VotesAreKept

-----------------------------------------------------------------------------
(***************************************************************************)
(* ValidatorsStats: what the loops over infos and records do not leave     *)
(***************************************************************************)

AddRecord(n, r, v) == IF r.valoper = v THEN n + r.missed ELSE n

LEMMA MissedStaysIn ==
  ASSUME NEW n \in Nat, NEW list \in [1..n -> MissedBlocks], NEW v, NEW counter, NEW A, counter \in A,
         \A i \in 1..n : \A a \in A : AddRecord(a, list[i], v) \in A
  PROVE  MissedIn(list, v, counter) \in A
<1> DEFINE Steps == [k \in 1..n |-> [a \in A |-> AddRecord(a, list[k], v)]]
           Eq(h) == h = [s \in SUBSET (1..n) |->
                          IF s = {} THEN counter ELSE AddRecord(h[s \ {Max(s)}], list[Max(s)], v)]
           Chosen == CHOOSE h : Eq(h)
<1>0. PICK S : S = 1..n
  OBVIOUS
<1>1. ASSUME NEW k \in 1..n, NEW a \in A
      PROVE  Steps[k][a] \in A /\ Steps[k][a] = AddRecord(a, list[k], v)
  OBVIOUS
<1> HIDE DEF Steps
<1>2. StepsIn(Steps, S, A)
  BY <1>0, <1>1 DEF StepsIn
<1>3. PICK g, run : /\ IsFold(Steps, counter, n, g) /\ FoldIn(g, S, A)
                    /\ IsRun(run, n, A, Steps, counter) /\ run[n] = g[S]
  <2> HIDE DEF Eq, Chosen
  <2> QED BY <1>0, <1>2, FoldRuns
<1>4. ASSUME NEW s \in SUBSET (1..n), s # {}
      PROVE  /\ Max(s) \in 1..n
             /\ FoldStep(Steps, counter, g, s) = AddRecord(g[s \ {Max(s)}], list[Max(s)], v)
  <2>1. Max(s) \in 1..n /\ s \ {Max(s)} \in SUBSET (1..n)
    BY <1>4, MaxIsGreatest
  <2>2. g[s \ {Max(s)}] \in A
    BY <1>0, <1>3, <2>1 DEF FoldIn
  <2>3. FoldStep(Steps, counter, g, s) = Steps[Max(s)][g[s \ {Max(s)}]]
    BY <1>4 DEF FoldStep
  <2> QED BY <1>1, <2>1, <2>2, <2>3
<1>5. Eq(g)
  <2> HIDE DEF AddRecord
  <2> QED BY <1>3, <1>4 DEF IsFold, FoldStep
<1>6. Eq(Chosen)
  BY <1>5
<1>7. MissedIn(list, v, counter) = Chosen[1..n]
  BY DEF MissedIn, FoldLeft, MapThenFoldSet, AddRecord
<1> HIDE DEF Chosen
<1>8. TakesSteps(Chosen, g, counter, S)
  <2>1. ASSUME NEW s \in SUBSET (1..n)
        PROVE  \/ s = {} /\ Chosen[s] = counter
               \/ s # {} /\ (Chosen[s \ {Max(s)}] = g[s \ {Max(s)}] => Chosen[s] = g[s])
    BY <1>5, <1>6
  <2> QED BY <1>0, <2>1 DEF TakesSteps
<1> HIDE DEF Eq
<1>9. Chosen[S] = g[S]
  BY <1>0, <1>3, <1>8, FoldsAgree
<1>10. g[S] \in A
  BY <1>3 DEF FoldIn
<1> QED BY <1>0, <1>7, <1>9, <1>10

(* before the first info *)
BeforeInfos == [ok |-> TRUE, state |-> state, records |-> records]

LEMMA InfosStayIn ==
  ASSUME NEW n \in Nat, NEW list \in [1..n -> Valopers], NEW reading, NEW A, BeforeInfos \in A,
         \A v \in Valopers : \A a \in A : WithInfo(a, v, reading) \in A
  PROVE  AfterInfos(list, reading) \in A
<1> DEFINE start == BeforeInfos
           Steps == [k \in 1..n |-> [a \in A |-> WithInfo(a, list[k], reading)]]
           Eq(h) == h = [s \in SUBSET (1..n) |->
                          IF s = {} THEN start ELSE WithInfo(h[s \ {Max(s)}], list[Max(s)], reading)]
           Chosen == CHOOSE h : Eq(h)
<1>0. PICK S : S = 1..n
  OBVIOUS
<1>1. ASSUME NEW k \in 1..n, NEW a \in A
      PROVE  Steps[k][a] \in A /\ Steps[k][a] = WithInfo(a, list[k], reading)
  OBVIOUS
<1> HIDE DEF Steps, start
<1>2. StepsIn(Steps, S, A)
  BY <1>0, <1>1 DEF StepsIn
<1>3. PICK g, run : /\ IsFold(Steps, start, n, g) /\ FoldIn(g, S, A)
                    /\ IsRun(run, n, A, Steps, start) /\ run[n] = g[S]
  <2> HIDE DEF Eq, Chosen
  <2> QED BY <1>0, <1>2, FoldRuns DEF start
<1>4. ASSUME NEW s \in SUBSET (1..n), s # {}
      PROVE  /\ Max(s) \in 1..n
             /\ FoldStep(Steps, start, g, s) = WithInfo(g[s \ {Max(s)}], list[Max(s)], reading)
  <2>1. Max(s) \in 1..n /\ s \ {Max(s)} \in SUBSET (1..n)
    BY <1>4, MaxIsGreatest
  <2>2. g[s \ {Max(s)}] \in A
    BY <1>0, <1>3, <2>1 DEF FoldIn
  <2>3. FoldStep(Steps, start, g, s) = Steps[Max(s)][g[s \ {Max(s)}]]
    BY <1>4 DEF FoldStep
  <2> QED BY <1>1, <2>1, <2>2, <2>3
<1>5. Eq(g)
  BY <1>3, <1>4 DEF IsFold, FoldStep
<1>6. Eq(Chosen)
  BY <1>5
<1>7. AfterInfos(list, reading) = Chosen[1..n]
  BY DEF AfterInfos, FoldLeft, MapThenFoldSet, BeforeInfos, start
<1> HIDE DEF Chosen
<1>8. TakesSteps(Chosen, g, start, S)
  <2>1. ASSUME NEW s \in SUBSET (1..n)
        PROVE  \/ s = {} /\ Chosen[s] = start
               \/ s # {} /\ (Chosen[s \ {Max(s)}] = g[s \ {Max(s)}] => Chosen[s] = g[s])
    BY <1>5, <1>6
  <2> QED BY <1>0, <2>1 DEF TakesSteps
<1> HIDE DEF Eq
<1>9. Chosen[S] = g[S]
  BY <1>0, <1>3, <1>8, FoldsAgree
<1>10. g[S] \in A
  BY <1>3 DEF FoldIn
<1> QED BY <1>0, <1>7, <1>9, <1>10

-----------------------------------------------------------------------------
(***************************************************************************)
(* The types                                                               *)
(***************************************************************************)

(* A state whose number of blocks is not yet known to be one *)
StateWith(B) ==
  [missed : Nat, blocks : B, tombstone : BOOLEAN, prev_jailed_state : BOOLEAN, jailed_number : Nat]
StatesWith(states, B) ==
  DOMAIN states \subseteq Valopers /\ \A v \in DOMAIN states : states[v] \in StateWith(B)

(* What the loop over infos has made so far *)
Accs ==
  [ok : BOOLEAN, state : UNION {[D -> StateWith(Int)] : D \in SUBSET Valopers}, records : Seq(MissedBlocks)]
(* with the states of before, which may be any function *)
Start == {BeforeInfos} \cup Accs
StartOk == StatesWith(state, Nat) /\ records \in Seq(MissedBlocks)

LEMMA StartTypes ==
  ASSUME StartOk, NEW a \in Start
  PROVE  StatesWith(a.state, Int) /\ a.records \in Seq(MissedBlocks) /\ a.ok \in BOOLEAN
<1>1. CASE a = BeforeInfos
  BY <1>1 DEF BeforeInfos, StartOk, StatesWith, StateWith
<1>2. CASE a \in Accs
  BY <1>2 DEF Accs, StatesWith
<1> QED BY <1>1, <1>2 DEF Start

LEMMA NewStateType ==
  ASSUME NEW B, Nat \subseteq B, NEW states, StatesWith(states, B), NEW v
  PROVE  GetValidatorState(states, v) \in StateWith(B)
  BY DEF StatesWith, GetValidatorState, NewState, StateWith

(* the elements of a list that has lost its first *)
LEMMA RecentIs ==
  ASSUME NEW list \in Seq(MissedBlocks)
  PROVE  /\ Recent(list) \in Seq(MissedBlocks)
         /\ \A i \in 1..Len(Recent(list)) : \E j \in 1..Len(list) : Recent(list)[i] = list[j]
<1>1. CASE list # <<>> /\ Recent(list) = Tail(list)
  <2>1. Tail(list) \in Seq(MissedBlocks) /\ Len(Tail(list)) = Len(list) - 1
    BY <1>1
  <2>2. \A i \in 1..Len(Tail(list)) : i + 1 \in 1..Len(list) /\ Tail(list)[i] = list[i + 1]
    BY <1>1, <2>1
  <2> QED BY <1>1, <2>1, <2>2
<1>2. CASE Recent(list) = list
  BY <1>2
<1> QED BY <1>1, <1>2 DEF Recent

LEMMA MissedIsNat ==
  ASSUME NEW list \in Seq(MissedBlocks), NEW v, NEW counter \in Nat
  PROVE  MissedIn(list, v, counter) \in Nat
<1> DEFINE n == Len(list)
<1>1. n \in Nat /\ list \in [1..n -> MissedBlocks]
  OBVIOUS
<1>2. ASSUME NEW i \in 1..n, NEW a \in Nat PROVE AddRecord(a, list[i], v) \in Nat
  <2>1. list[i] \in MissedBlocks
    BY <1>1
  <2> QED BY <2>1 DEF AddRecord, MissedBlocks
<1> HIDE DEF n
<1> QED BY <1>1, <1>2, MissedStaysIn

LEMMA BlocksIsInt ==
  ASSUME NEW list \in Seq(MissedBlocks), NEW height \in Nat
  PROVE  BlocksIn(list, height) \in Int
<1>1. list # <<>> => list[1] \in MissedBlocks
  OBVIOUS
<1> QED BY <1>1 DEF BlocksIn, MissedBlocks

(* One info: what is made of it for its validator, *)
InfoRecord(v, reading) ==
  [height |-> reading.height, time |-> now, valoper |-> v, missed |-> reading.data[v].missed]

LEMMA WithInfoIs ==
  ASSUME StatsAssumption, StartOk, now \in Nat, NEW a \in Start, NEW v \in Valopers,
         NEW reading, reading.height \in Nat, reading.data \in SigningInfo
  PROVE  LET b == WithInfo(a, v, reading)
             st == GetValidatorState(a.state, v)
         IN  /\ b \in Accs
             /\ DOMAIN b.state = DOMAIN a.state \cup {v}
             /\ \A w \in DOMAIN a.state : w # v => b.state[w] = a.state[w]
             /\ b.state[v].missed \in {0, MissedIn(Recent(a.records), v, reading.data[v].missed)}
             /\ b.state[v].jailed_number = st.jailed_number
             /\ b.state[v].prev_jailed_state = st.prev_jailed_state
             /\ st.tombstone => b.state[v].tombstone
             /\ b.records = Append(Recent(a.records), InfoRecord(v, reading))
             /\ b.ok => a.ok /\ b.state[v].blocks \in Nat
<1> DEFINE list == Recent(a.records)
           info == reading.data[v]
           missed == MissedIn(list, v, info.missed)
           blocks == BlocksIn(list, reading.height)
           st == GetValidatorState(a.state, v)
           new == [st EXCEPT !.tombstone = Tombstone(st, info),
                             !.missed = IF blocks = 0 THEN 0 ELSE missed,
                             !.blocks = IF blocks = 0 THEN 1 ELSE blocks]
           ok == a.ok /\ (blocks = 0 \/ missed <= blocks)
           states == [w \in DOMAIN a.state \cup {v} |-> IF w = v THEN new ELSE a.state[w]]
           b == WithInfo(a, v, reading)
<1>1. /\ StatesWith(a.state, Int) /\ a.records \in Seq(MissedBlocks) /\ a.ok \in BOOLEAN
  BY StartTypes
<1>2. info.missed \in Nat /\ info.tombstoned \in BOOLEAN
  BY DEF SigningInfo, StatsAssumption
<1>3. list \in Seq(MissedBlocks) /\ missed \in Nat /\ blocks \in Int
  BY <1>1, <1>2, RecentIs, MissedIsNat, BlocksIsInt
<1>4. st \in StateWith(Int)
  BY <1>1, NewStateType
<1>5. b = [ok |-> ok, state |-> states, records |-> Append(list, InfoRecord(v, reading))]
  BY DEF WithInfo, InfoRecord
<1> HIDE DEF list, info, missed, blocks, st, b
<1>6. new \in StateWith(Int)
  <2> DEFINE t == Tombstone(st, info)
             m == IF blocks = 0 THEN 0 ELSE missed
             k == IF blocks = 0 THEN 1 ELSE blocks
  <2>1. m \in Nat /\ k \in Int
    BY <1>3
  <2>2. t \in BOOLEAN
    BY <1>2, <1>4 DEF StateWith, Tombstone
  <2> HIDE DEF t, m, k
  <2>3. [st EXCEPT !.tombstone = t, !.missed = m, !.blocks = k] \in StateWith(Int)
    BY <1>4, <2>1, <2>2 DEF StateWith
  <2> QED BY <2>3 DEF t, m, k
<1>7. /\ new.missed \in {0, missed} /\ new.jailed_number = st.jailed_number
      /\ new.prev_jailed_state = st.prev_jailed_state /\ (st.tombstone => new.tombstone)
      /\ new.blocks = IF blocks = 0 THEN 1 ELSE blocks
  BY <1>4 DEF StateWith, Tombstone
<1> HIDE DEF new
<1>8. InfoRecord(v, reading) \in MissedBlocks
  BY <1>2 DEF InfoRecord, MissedBlocks, info
<1>9. Append(list, InfoRecord(v, reading)) \in Seq(MissedBlocks)
  BY <1>3, <1>8
<1>10. /\ DOMAIN states = DOMAIN a.state \cup {v} /\ DOMAIN states \in SUBSET Valopers
       /\ states \in [DOMAIN states -> StateWith(Int)]
       /\ states[v] = new /\ \A w \in DOMAIN a.state : w # v => states[w] = a.state[w]
  BY <1>1, <1>6 DEF StatesWith
<1>11. ok \in BOOLEAN /\ (ok => a.ok /\ new.blocks \in Nat)
  BY <1>1, <1>3, <1>7
<1> HIDE DEF states, ok
<1>12. b \in Accs
  BY <1>5, <1>9, <1>10, <1>11 DEF Accs
<1>13. b.state = states /\ b.ok = ok /\ b.records = Append(list, InfoRecord(v, reading))
  BY <1>5
<1> QED BY <1>7, <1>10, <1>11, <1>12, <1>13 DEF list, info, missed, st, b

(* and what all of them leave as it was: jailings and tombstones. *)
SameJailings(v, states) ==
  /\ GetValidatorState(states, v).jailed_number = GetValidatorState(state, v).jailed_number
  /\ GetValidatorState(states, v).prev_jailed_state = GetValidatorState(state, v).prev_jailed_state
Grown(states) ==
  /\ DOMAIN state \subseteq DOMAIN states
  /\ \A v \in DOMAIN state : state[v].tombstone => states[v].tombstone
  /\ \A v \in Valopers : SameJailings(v, states)
GoodAcc(a) == Grown(a.state) /\ (a.ok => StatesWith(a.state, Nat))

LEMMA WithInfoGrows ==
  ASSUME StatsAssumption, StartOk, now \in Nat, NEW a \in Start, NEW v \in Valopers,
         NEW reading, reading.height \in Nat, reading.data \in SigningInfo, GoodAcc(a)
  PROVE  WithInfo(a, v, reading) \in Start /\ GoodAcc(WithInfo(a, v, reading))
<1> DEFINE b == WithInfo(a, v, reading)
           st == GetValidatorState(a.state, v)
<1>1. /\ b \in Accs
      /\ DOMAIN b.state = DOMAIN a.state \cup {v}
      /\ \A w \in DOMAIN a.state : w # v => b.state[w] = a.state[w]
      /\ b.state[v].jailed_number = st.jailed_number
      /\ b.state[v].prev_jailed_state = st.prev_jailed_state
      /\ st.tombstone => b.state[v].tombstone
      /\ b.ok => a.ok /\ b.state[v].blocks \in Nat
  BY WithInfoIs
<1> HIDE DEF b
<1>2. DOMAIN state \subseteq DOMAIN b.state
  BY <1>1 DEF GoodAcc, Grown
<1>3. ASSUME NEW w \in DOMAIN state, state[w].tombstone
      PROVE  b.state[w].tombstone
  <2>1. w \in DOMAIN a.state /\ a.state[w].tombstone
    BY <1>3 DEF GoodAcc, Grown
  <2>2. CASE w = v
    BY <1>1, <2>1, <2>2 DEF GetValidatorState
  <2>3. CASE w # v
    BY <1>1, <2>1, <2>3
  <2> QED BY <2>2, <2>3
<1>4. ASSUME NEW w \in Valopers
      PROVE  SameJailings(w, b.state)
  <2>1. SameJailings(w, a.state)
    BY DEF GoodAcc, Grown
  <2>2. CASE w = v
    <3>1. GetValidatorState(b.state, v) = b.state[v]
      BY <1>1 DEF GetValidatorState
    <3> QED BY <1>1, <2>1, <2>2, <3>1 DEF SameJailings
  <2>3. CASE w # v
    <3>1. GetValidatorState(b.state, w) = GetValidatorState(a.state, w)
      BY <1>1, <2>3 DEF GetValidatorState
    <3> QED BY <2>1, <3>1 DEF SameJailings
  <2> QED BY <2>2, <2>3
<1>5. ASSUME b.ok PROVE StatesWith(b.state, Nat)
  <2>1. StatesWith(a.state, Nat) /\ b.state[v].blocks \in Nat
    BY <1>1, <1>5 DEF GoodAcc
  <2>2. StatesWith(b.state, Int)
    <3>1. b \in Start
      BY <1>1 DEF Start
    <3> QED BY <3>1, StartTypes
  <2>3. b.state[v] \in StateWith(Nat)
    <3>1. b.state[v] \in StateWith(Int)
      BY <1>1, <2>2 DEF StatesWith
    <3> QED BY <2>1, <3>1 DEF StateWith
  <2> QED BY <1>1, <2>1, <2>2, <2>3 DEF StatesWith
<1>6. b \in Start /\ GoodAcc(b)
  BY <1>1, <1>2, <1>3, <1>4, <1>5 DEF Start, Grown, GoodAcc
<1> QED BY <1>6 DEF b

LEMMA InfosGrow ==
  ASSUME StatsAssumption, StartOk, now \in Nat, NEW list \in Seq(Valopers),
         NEW reading, reading.height \in Nat, reading.data \in SigningInfo
  PROVE  AfterInfos(list, reading) \in Start /\ GoodAcc(AfterInfos(list, reading))
<1> DEFINE n == Len(list)
           A == {a \in Start : GoodAcc(a)}
<1>1. n \in Nat /\ list \in [1..n -> Valopers]
  OBVIOUS
<1>2. BeforeInfos \in A
  BY DEF Start, GoodAcc, Grown, SameJailings, BeforeInfos, StartOk
<1>3. \A v \in Valopers : \A a \in A : WithInfo(a, v, reading) \in A
  BY WithInfoGrows
<1>4. AfterInfos(list, reading) \in A
  <2> HIDE DEF n, A
  <2> QED BY <1>1, <1>2, <1>3, InfosStayIn
<1> QED BY <1>4

-----------------------------------------------------------------------------
(***************************************************************************)
(* The types                                                               *)
(***************************************************************************)

LEMMA StatesAreTyped ==
  ASSUME StatsTypeOK
  PROVE  StatesWith(state, Nat) /\ StartOk
  BY DEF StatsTypeOK, StatesWith, StateWith, StartOk, ValidatorState, Range

LEMMA ListIsSet ==
  ASSUME NEW list \in Seq(Valopers)
  PROVE  ToSet(list) \subseteq Valopers
  BY DEF ToSet

LEMMA InitStatsTypeOK == ASSUME StatsAssumption, StatsInit PROVE StatsTypeOK
<1>1. MaxTime \in Nat /\ MaxMissed \in Nat /\ MaxJailings \in Nat
  BY DEF StatsAssumption
<1>2. DOMAIN state = {} /\ DOMAIN members = {} /\ Range(state) = {} /\ Range(members) = {}
  BY DEF StatsInit, Range
<1>3. Cardinality(infoQuery) = 0
  BY FS_EmptySet DEF StatsInit
<1>4. chain \in [Valopers -> RemoteValidator] /\ records \in Seq(MissedBlocks)
  BY <1>1 DEF StatsInit, RemoteValidator
<1> QED BY <1>1, <1>2, <1>3, <1>4 DEF StatsInit, StatsTypeOK

(* the parts of the types that most steps leave alone *)
QueriesOk ==
  /\ profileQuery \subseteq Seq(Valopers) /\ infoQuery \subseteq Seq(Valopers)
  /\ Cardinality(infoQuery) <= 1
StateOk == DOMAIN state \subseteq Valopers /\ Range(state) \subseteq ValidatorState
MembersOk ==
  /\ DOMAIN members \subseteq Valopers
  /\ Range(members) \subseteq [tombstone : BOOLEAN, jailed_number : Nat]
TimesOk == now \in 0..MaxTime /\ infoHeight \in 0..MaxTime \cup {Never}
ReadOk == profiles \subseteq Profile /\ \A r \in infos : r.height \in 0..MaxTime /\ r.data \in SigningInfo
ChainOk == chain \in [Valopers -> RemoteValidator]

LEMMA StatsTypesOfAll ==
  StatsTypeOK <=> /\ QueriesOk /\ StateOk /\ records \in Seq(MissedBlocks) /\ MembersOk /\ ChainOk
                  /\ TimesOk /\ ReadOk
  BY DEF StatsTypeOK, QueriesOk, StateOk, MembersOk, TimesOk, ReadOk, ChainOk

LEMMA StatsTypesNext ==
  ASSUME /\ QueriesOk' /\ StateOk' /\ records' \in Seq(MissedBlocks) /\ MembersOk' /\ ChainOk'
         /\ TimesOk' /\ ReadOk'
  PROVE  StatsTypeOK'
  BY DEF StatsTypeOK, QueriesOk, StateOk, MembersOk, TimesOk, ReadOk, ChainOk

LEMMA StatesOk ==
  ASSUME NEW states, StatesWith(states, Nat)
  PROVE  DOMAIN states \subseteq Valopers /\ Range(states) \subseteq ValidatorState
  BY DEF StatesWith, StateWith, ValidatorState, Range

LEMMA RegisterTypes ==
  ASSUME StatsAssumption, StatsTypeOK, NEW list \in Lists, RegisterStatsQueries(list)
  PROVE  StatsTypeOK'
<1>1. profileQuery' \subseteq Seq(Valopers)
  BY DEF RegisterStatsQueries, ValidatorInfoReply, StatsAssumption
<1>2. /\ QueriesOk' /\ StateOk' /\ records' \in Seq(MissedBlocks) /\ MembersOk' /\ ChainOk'
      /\ TimesOk' /\ ReadOk'
  BY <1>1 DEF RegisterStatsQueries, ValidatorInfoReply, StatsTypeOK, QueriesOk, StateOk, MembersOk,
              TimesOk, ReadOk, ChainOk
<1> QED BY <1>2, StatsTypesNext

(* What a profile makes of the state of a validator *)
LEMMA WithProfileIs ==
  ASSUME NEW st \in StateWith(Nat), NEW jailed \in BOOLEAN
  PROVE  LET new == WithProfile(st, jailed)
         IN  /\ new \in StateWith(Nat)
             /\ new.missed = st.missed /\ new.tombstone = st.tombstone
             /\ new.prev_jailed_state = jailed
             /\ new.jailed_number = IF ~st.prev_jailed_state /\ jailed THEN st.jailed_number + 1
                                    ELSE st.jailed_number
<1> DEFINE k == JailedNumber(st, jailed)
<1>1. k \in Nat /\ k = IF ~st.prev_jailed_state /\ jailed THEN st.jailed_number + 1 ELSE st.jailed_number
  BY DEF JailedNumber, StateWith
<1>2. WithProfile(st, jailed) = [st EXCEPT !.jailed_number = k, !.prev_jailed_state = jailed]
  BY DEF WithProfile
<1> HIDE DEF k
<1> QED BY <1>1, <1>2 DEF StateWith

(* and of all states *)
Profiled(list, reading) ==
  /\ DOMAIN state' = DOMAIN state \cup ToSet(list)
  /\ \A v \in DOMAIN state' :
       state'[v] = IF v \in ToSet(list) THEN WithProfile(GetValidatorState(state, v), reading[v])
                   ELSE state[v]

LEMMA ProfiledTypes ==
  ASSUME StatesWith(state, Nat), NEW list \in Seq(Valopers), NEW reading \in Profile, Profiled(list, reading)
  PROVE  StatesWith(state', Nat)
<1>1. ToSet(list) \subseteq Valopers
  BY ListIsSet
<1>2. ASSUME NEW v \in DOMAIN state'
      PROVE  v \in Valopers /\ state'[v] \in StateWith(Nat)
  <2>0. v \in Valopers
    BY <1>1 DEF Profiled, StatesWith
  <2>1. CASE v \in ToSet(list)
    <3>1. GetValidatorState(state, v) \in StateWith(Nat)
      BY NewStateType
    <3>2. reading[v] \in BOOLEAN
      BY <2>0 DEF Profile
    <3> QED BY <2>0, <2>1, <3>1, <3>2, WithProfileIs DEF Profiled
  <2>2. CASE v \notin ToSet(list)
    BY <2>0, <2>2 DEF Profiled, StatesWith
  <2> QED BY <2>1, <2>2
<1> QED BY <1>2 DEF StatesWith

LEMMA ValidatorInfoDoes ==
  ASSUME SudoValidatorInfo
  PROVE  \E list \in profileQuery, reading \in profiles :
            \/ infoQuery = {} /\ infoQuery' = {list} /\ state' = state
            \/ Profiled(list, reading) /\ infoQuery' = infoQuery
<1>1. PICK list \in profileQuery, reading \in profiles :
        IF infoQuery = {}
        THEN infoQuery' = {list} /\ state' = state
        ELSE /\ state' = [v \in DOMAIN state \cup ToSet(list) |->
                            IF v \in ToSet(list)
                            THEN WithProfile(GetValidatorState(state, v), reading[v])
                            ELSE state[v]]
             /\ infoQuery' = infoQuery
  BY DEF SudoValidatorInfo, RegisterSigningInfos
<1>2. CASE infoQuery = {}
  BY <1>1, <1>2
<1>3. CASE infoQuery # {}
  BY <1>1, <1>3 DEF Profiled
<1> QED BY <1>2, <1>3

LEMMA ValidatorInfoTypes ==
  ASSUME StatsTypeOK, SudoValidatorInfo
  PROVE  StatsTypeOK'
<1>1. PICK list \in profileQuery, reading \in profiles :
        \/ infoQuery = {} /\ infoQuery' = {list} /\ state' = state
        \/ Profiled(list, reading) /\ infoQuery' = infoQuery
  BY ValidatorInfoDoes
<1>2. list \in Seq(Valopers) /\ reading \in Profile
  BY DEF StatsTypeOK
<1>3. StateOk'
  <2>1. CASE state' = state
    BY <2>1 DEF StatsTypeOK, StateOk
  <2>2. CASE Profiled(list, reading)
    <3>1. StatesWith(state', Nat)
      BY <1>2, <2>2, StatesAreTyped, ProfiledTypes
    <3> QED BY <3>1, StatesOk DEF StateOk
  <2> QED BY <1>1, <2>1, <2>2
<1>4. QueriesOk'
  <2>1. Cardinality({list}) = 1
    BY FS_Singleton
  <2>2. profileQuery' = profileQuery
    BY DEF SudoValidatorInfo
  <2>3. infoQuery' \subseteq Seq(Valopers)
    BY <1>1, <1>2 DEF StatsTypeOK
  <2>4. Cardinality(infoQuery') <= 1
    <3>1. CASE infoQuery' = {list}
      BY <2>1, <3>1
    <3>2. CASE infoQuery' = infoQuery
      BY <3>2 DEF StatsTypeOK
    <3> QED BY <1>1, <3>1, <3>2
  <2> QED BY <2>2, <2>3, <2>4 DEF StatsTypeOK, QueriesOk
<1>5. records' \in Seq(MissedBlocks) /\ MembersOk' /\ ChainOk' /\ TimesOk' /\ ReadOk'
  BY DEF SudoValidatorInfo, StatsTypeOK, MembersOk, TimesOk, ReadOk, ChainOk
<1> QED BY <1>3, <1>4, <1>5, StatsTypesNext

(* What a result of signing infos makes of the state *)
LEMMA SigningInfoDoes ==
  ASSUME StatsAssumption, StatsTypeOK, SudoSigningInfo
  PROVE  /\ StatesWith(state', Nat) /\ Grown(state') /\ records' \in Seq(MissedBlocks)
         /\ infoHeight' \in 0..MaxTime
<1>1. PICK list \in infoQuery, reading \in infos :
        /\ AfterInfos(list, reading).ok
        /\ state' = AfterInfos(list, reading).state /\ records' = AfterInfos(list, reading).records
        /\ infoHeight' = reading.height
  BY DEF SudoSigningInfo
<1>2. /\ list \in Seq(Valopers) /\ reading.height \in 0..MaxTime /\ reading.data \in SigningInfo
      /\ MaxTime \in Nat /\ now \in Nat /\ reading.height \in Nat
  BY DEF StatsTypeOK, StatsAssumption
<1>3. StartOk
  BY StatesAreTyped
<1>4. AfterInfos(list, reading) \in Start /\ GoodAcc(AfterInfos(list, reading))
  BY <1>2, <1>3, InfosGrow
<1>5. AfterInfos(list, reading).records \in Seq(MissedBlocks)
  BY <1>3, <1>4, StartTypes
<1> QED BY <1>1, <1>2, <1>4, <1>5 DEF GoodAcc

LEMMA SigningInfoTypes ==
  ASSUME StatsAssumption, StatsTypeOK, SudoSigningInfo
  PROVE  StatsTypeOK'
<1>1. StatesWith(state', Nat) /\ records' \in Seq(MissedBlocks) /\ infoHeight' \in 0..MaxTime
  BY SigningInfoDoes
<1>2. StateOk'
  BY <1>1, StatesOk DEF StateOk
<1>3. infos' = {} /\ UNCHANGED <<profileQuery, infoQuery, members, chain, now, profiles>>
  BY DEF SudoSigningInfo
<1>4. QueriesOk' /\ MembersOk' /\ ChainOk' /\ TimesOk' /\ ReadOk'
  BY <1>1, <1>3 DEF StatsTypeOK, QueriesOk, MembersOk, TimesOk, ReadOk, ChainOk
<1> QED BY <1>1, <1>2, <1>4, StatsTypesNext

Members == [tombstone : BOOLEAN, jailed_number : Nat]

(* the members after a step of the set, each new, the copy of a state, or as it was *)
LEMMA SetStepMembers ==
  ASSUME StatsAssumption, StatsTypeOK, SetStep
  PROVE  /\ DOMAIN members' \subseteq Valopers
         /\ \A v \in DOMAIN members' :
              \/ members'[v] = FreshMember
              \/ /\ v \in DOMAIN state
                 /\ members'[v] = [tombstone |-> state[v].tombstone, jailed_number |-> state[v].jailed_number]
              \/ v \in DOMAIN members /\ members'[v] = members[v]
<1>0. DOMAIN members \subseteq Valopers
  BY DEF StatsTypeOK
<1>1. CASE \E list \in Lists : UpdateMembers(list)
  <2>1. PICK list \in Lists : UpdateMembers(list)
    BY <1>1
  <2>2. ToSet(list) \subseteq Valopers
    BY ListIsSet DEF StatsAssumption
  <2> QED BY <2>1, <2>2 DEF UpdateMembers
<1>2. CASE \E v \in Valopers : UpdateMember(v)
  BY <1>0, <1>2 DEF UpdateMember
<1>3. CASE \E updated \in SUBSET DOMAIN state : UpdateMembersInfo(updated)
  BY <1>0, <1>3 DEF UpdateMembersInfo
<1> QED BY <1>1, <1>2, <1>3 DEF SetStep

LEMMA SetStepTypes ==
  ASSUME StatsAssumption, StatsTypeOK, SetStep
  PROVE  StatsTypeOK'
<1>1. /\ DOMAIN members' \subseteq Valopers
      /\ \A v \in DOMAIN members' :
           \/ members'[v] = FreshMember
           \/ /\ v \in DOMAIN state
              /\ members'[v] = [tombstone |-> state[v].tombstone, jailed_number |-> state[v].jailed_number]
           \/ v \in DOMAIN members /\ members'[v] = members[v]
  BY SetStepMembers
<1>2. \A v \in DOMAIN state : state[v].tombstone \in BOOLEAN /\ state[v].jailed_number \in Nat
  BY StatesAreTyped DEF StatesWith, StateWith
<1>3. \A v \in DOMAIN members : members[v] \in Members
  BY DEF StatsTypeOK, Range, Members
<1>4. ASSUME NEW v \in DOMAIN members'
      PROVE  members'[v] \in Members
  <2>1. CASE members'[v] = FreshMember
    BY <2>1 DEF FreshMember, Members
  <2>2. ASSUME v \in DOMAIN state,
               members'[v] = [tombstone |-> state[v].tombstone, jailed_number |-> state[v].jailed_number]
        PROVE  members'[v] \in Members
    BY <1>2, <2>2 DEF Members
  <2>3. CASE v \in DOMAIN members /\ members'[v] = members[v]
    BY <1>3, <2>3
  <2> QED BY <1>1, <2>1, <2>2, <2>3
<1>5. MembersOk'
  BY <1>1, <1>4 DEF MembersOk, Range, Members
<1>6. UNCHANGED <<contractVars, chain, now, readVars>>
  BY DEF SetStep
<1>7. QueriesOk' /\ StateOk' /\ records' \in Seq(MissedBlocks) /\ ChainOk' /\ TimesOk' /\ ReadOk'
  BY <1>6 DEF StatsTypeOK, QueriesOk, StateOk, TimesOk, ReadOk, ChainOk, contractVars, readVars
<1> QED BY <1>5, <1>7, StatsTypesNext

(* The remote chain: a validator is jailed once more, or not; what it missed may grow. *)
LEMMA JailStepDoes ==
  ASSUME StatsAssumption, StatsTypeOK, JailStep
  PROVE  /\ chain' \in [Valopers -> RemoteValidator]
         /\ \A v \in Valopers :
              /\ chain'[v].missed = chain[v].missed
              /\ \/ chain'[v].jailings = chain[v].jailings /\ chain'[v].jailed = chain[v].jailed
                 \/ chain'[v].jailings = chain[v].jailings /\ ~chain'[v].jailed
                 \/ chain'[v].jailings = chain[v].jailings + 1 /\ ~chain[v].jailed /\ chain'[v].jailed
<1>0. chain \in [Valopers -> RemoteValidator] /\ MaxJailings \in Nat
  BY DEF StatsTypeOK, StatsAssumption
<1>1. PICK w \in Valopers : Unjail(w) \/ \E forEver \in BOOLEAN : Jail(w, forEver)
  BY DEF JailStep
<1>2. chain[w] \in RemoteValidator
  BY <1>0
<1>3. CASE Unjail(w)
  <2>1. [chain[w] EXCEPT !.jailed = FALSE] \in RemoteValidator
    BY <1>2 DEF RemoteValidator
  <2>2. chain' = [chain EXCEPT ![w] = [chain[w] EXCEPT !.jailed = FALSE]]
    BY <1>0, <1>3 DEF Unjail
  <2> QED BY <1>0, <1>2, <2>1, <2>2 DEF RemoteValidator
<1>4. CASE \E forEver \in BOOLEAN : Jail(w, forEver)
  <2>1. PICK forEver \in BOOLEAN : Jail(w, forEver)
    BY <1>4
  <2> DEFINE k == chain[w].jailings + 1
             new == [chain[w] EXCEPT !.jailed = TRUE, !.tombstoned = forEver, !.jailings = k]
  <2>2. k \in 0..MaxJailings /\ ~chain[w].jailed
    BY <1>0, <1>2, <2>1 DEF Jail, RemoteValidator
  <2>3. chain' = [chain EXCEPT ![w] = new]
    BY <1>0, <2>1 DEF Jail
  <2>4. new \in RemoteValidator
    <3> HIDE DEF k
    <3> QED BY <1>2, <2>2 DEF RemoteValidator
  <2>5. new.missed = chain[w].missed /\ new.jailings = k /\ new.jailed
    <3> HIDE DEF k
    <3> QED BY <1>2 DEF RemoteValidator
  <2> HIDE DEF new
  <2> QED BY <1>0, <2>2, <2>3, <2>4, <2>5
<1> QED BY <1>1, <1>3, <1>4

LEMMA NewBlockDoes ==
  ASSUME StatsAssumption, StatsTypeOK, NewBlock
  PROVE  /\ chain' \in [Valopers -> RemoteValidator]
         /\ \A v \in Valopers :
              /\ chain'[v].jailings = chain[v].jailings /\ chain'[v].jailed = chain[v].jailed
              /\ chain'[v].missed = 0 => chain[v].missed = 0
<1>0. chain \in [Valopers -> RemoteValidator] /\ MaxMissed \in Nat
  BY DEF StatsTypeOK, StatsAssumption
<1>1. PICK missing \in SUBSET {v \in Valopers : chain[v].missed < MaxMissed} :
        chain' = [v \in Valopers |-> [chain[v] EXCEPT !.missed = IF v \in missing THEN @ + 1 ELSE @]]
  BY DEF NewBlock
<1>2. ASSUME NEW v \in Valopers
      PROVE  /\ chain'[v] \in RemoteValidator
             /\ chain'[v].jailings = chain[v].jailings /\ chain'[v].jailed = chain[v].jailed
             /\ chain'[v].missed = 0 => chain[v].missed = 0
  <2> DEFINE k == IF v \in missing THEN chain[v].missed + 1 ELSE chain[v].missed
  <2>1. chain[v] \in RemoteValidator
    BY <1>0
  <2>2. k \in 0..MaxMissed /\ (k = 0 => chain[v].missed = 0)
    BY <1>0, <2>1 DEF RemoteValidator
  <2>3. chain'[v] = [chain[v] EXCEPT !.missed = k]
    BY <1>1
  <2> HIDE DEF k
  <2> QED BY <2>1, <2>2, <2>3 DEF RemoteValidator
<1> QED BY <1>1, <1>2

LEMMA ChainStepTypes ==
  ASSUME StatsAssumption, StatsTypeOK, JailStep \/ NewBlock
  PROVE  StatsTypeOK'
<1>1. ChainOk'
  BY JailStepDoes, NewBlockDoes DEF ChainOk
<1>2. UNCHANGED <<contractVars, members, readVars>> /\ now' \in 0..MaxTime
  BY DEF JailStep, NewBlock, StatsTypeOK, StatsAssumption
<1>3. QueriesOk' /\ StateOk' /\ records' \in Seq(MissedBlocks) /\ MembersOk' /\ TimesOk' /\ ReadOk'
  BY <1>2 DEF StatsTypeOK, QueriesOk, StateOk, MembersOk, TimesOk, ReadOk, contractVars, readVars
<1> QED BY <1>1, <1>3, StatsTypesNext

LEMMA ReadTypes ==
  ASSUME StatsAssumption, StatsTypeOK, Read
  PROVE  StatsTypeOK'
<1>1. UNCHANGED <<contractVars, members, chain, now>>
  BY DEF Read
<1>2. \A v \in Valopers : chain[v] \in RemoteValidator
  BY DEF StatsTypeOK
<1>3. ReadProfiles \in Profile
  BY <1>2 DEF ReadProfiles, Profile, RemoteValidator
<1>4. ReadInfos.height \in 0..MaxTime /\ ReadInfos.data \in SigningInfo
  BY <1>2 DEF ReadInfos, SigningInfo, RemoteValidator, StatsTypeOK
<1>5. ReadOk'
  BY <1>3, <1>4 DEF Read, ReadOk, StatsTypeOK
<1>6. QueriesOk' /\ StateOk' /\ records' \in Seq(MissedBlocks) /\ MembersOk' /\ ChainOk' /\ TimesOk'
  BY <1>1 DEF StatsTypeOK, QueriesOk, StateOk, MembersOk, ChainOk, TimesOk, contractVars
<1> QED BY <1>5, <1>6, StatsTypesNext

LEMMA StatsTypesStay ==
  ASSUME StatsAssumption, StatsTypeOK, [StatsNext]_statsVars
  PROVE  StatsTypeOK'
<1>1. CASE UNCHANGED statsVars
  BY <1>1, StatsTypesNext DEF StatsTypeOK, QueriesOk, StateOk, MembersOk, ChainOk, TimesOk, ReadOk,
                              statsVars, contractVars, readVars
<1>2. CASE StatsNext
  BY <1>2, RegisterTypes, ValidatorInfoTypes, SigningInfoTypes, SetStepTypes, ChainStepTypes, ReadTypes
     DEF StatsNext
<1> QED BY <1>1, <1>2

(* The statistics, the records and the copy in the validators set have their types. *)
THEOREM StatsTypeCorrect == StatsSpec => []StatsTypeOK
<1>1. StatsInit => StatsTypeOK
  BY StatsAssumption, InitStatsTypeOK
<1>2. StatsTypeOK /\ [StatsNext]_statsVars => StatsTypeOK'
  BY StatsAssumption, StatsTypesStay
<1> QED BY <1>1, <1>2, PTL DEF StatsSpec

-----------------------------------------------------------------------------
(***************************************************************************)
(* Jailings                                                                *)
(***************************************************************************)

Rise(before, after) == IF ~before /\ after THEN 1 ELSE 0
Counted(states, v) == GetValidatorState(states, v).jailed_number
Observed(states, v) == GetValidatorState(states, v).prev_jailed_state

(* What is counted and what would be counted if the present were seen, at once or after a
   profile that is under way, is no more than what happened. *)
SeenInv ==
  \A v \in Valopers : Counted(state, v) + Rise(Observed(state, v), chain[v].jailed) <= chain[v].jailings
UnderWayInv ==
  \A p \in profiles, v \in Valopers :
    Counted(state, v) + Rise(Observed(state, v), p[v]) + Rise(p[v], chain[v].jailed) <= chain[v].jailings
CopiedInv == \A v \in DOMAIN members : members[v].jailed_number <= chain[v].jailings
JailInv == SeenInv /\ UnderWayInv /\ CopiedInv

LEMMA RiseIs ==
  ASSUME NEW a, NEW b
  PROVE  /\ Rise(a, b) \in {0, 1}
         /\ ~a /\ b => Rise(a, b) = 1
         /\ a \/ ~b => Rise(a, b) = 0
  BY DEF Rise

LEMMA CountTypes ==
  ASSUME StatsTypeOK, StatsAssumption, NEW v \in Valopers
  PROVE  /\ Counted(state, v) \in Nat /\ Observed(state, v) \in BOOLEAN
         /\ chain[v].jailed \in BOOLEAN /\ chain[v].jailings \in Nat
<1>1. GetValidatorState(state, v) \in StateWith(Nat)
  BY StatesAreTyped, NewStateType
<1>2. chain[v] \in RemoteValidator
  BY DEF StatsTypeOK
<1> QED BY <1>1, <1>2 DEF Counted, Observed, StateWith, RemoteValidator, StatsAssumption

LEMMA InitJailInv == ASSUME StatsAssumption, StatsInit PROVE JailInv
<1>1. ASSUME NEW v \in Valopers
      PROVE  Counted(state, v) = 0 /\ chain[v].jailings = 0 /\ ~chain[v].jailed
  BY DEF StatsInit, Counted, GetValidatorState, NewState
<1>2. SeenInv
  <2>1. ASSUME NEW v \in Valopers
        PROVE  Rise(Observed(state, v), chain[v].jailed) = 0
    BY <1>1, RiseIs
  <2> QED BY <1>1, <2>1 DEF SeenInv
<1>3. UnderWayInv /\ CopiedInv
  BY DEF StatsInit, UnderWayInv, CopiedInv
<1> QED BY <1>2, <1>3 DEF JailInv

(* Steps that count nothing and jail nobody *)
LEMMA NothingCounted ==
  ASSUME JailInv, StatsTypeOK,
         \A v \in Valopers : /\ Counted(state', v) = Counted(state, v)
                             /\ Observed(state', v) = Observed(state, v)
                             /\ chain'[v].jailed = chain[v].jailed
                             /\ chain'[v].jailings = chain[v].jailings,
         profiles' \subseteq profiles, members' = members
  PROVE  JailInv'
<1>1. DOMAIN members \subseteq Valopers
  BY DEF StatsTypeOK
<1>2. SeenInv'
  BY DEF JailInv, SeenInv
<1>3. UnderWayInv'
  BY DEF JailInv, UnderWayInv
<1>4. CopiedInv'
  BY <1>1 DEF JailInv, CopiedInv
<1> QED BY <1>2, <1>3, <1>4 DEF JailInv

LEMMA ValidatorInfoCounts ==
  ASSUME StatsAssumption, StatsTypeOK, JailInv, SudoValidatorInfo
  PROVE  JailInv'
<1>0. UNCHANGED <<members, chain>> /\ profiles' = {}
  BY DEF SudoValidatorInfo
<1>1. PICK list \in profileQuery, reading \in profiles :
        \/ infoQuery = {} /\ infoQuery' = {list} /\ state' = state
        \/ Profiled(list, reading) /\ infoQuery' = infoQuery
  BY ValidatorInfoDoes
<1>2. reading \in Profile
  BY DEF StatsTypeOK
<1>3. CASE state' = state
  BY <1>0, <1>3, NothingCounted
<1>4. CASE Profiled(list, reading)
  <2>1. ASSUME NEW v \in Valopers
        PROVE  Counted(state', v) + Rise(Observed(state', v), chain[v].jailed) <= chain[v].jailings
    <3> DEFINE st == GetValidatorState(state, v)
               k == Counted(state, v)
               j == chain[v].jailings
    <3>0. k \in Nat /\ j \in Nat
      BY CountTypes
    <3>1. CASE v \in ToSet(list)
      <4>1. st \in StateWith(Nat) /\ reading[v] \in BOOLEAN
        BY <1>2, StatesAreTyped, NewStateType DEF Profile
      <4>2. GetValidatorState(state', v) = WithProfile(st, reading[v])
        BY <1>4, <3>1 DEF Profiled, GetValidatorState
      <4> HIDE DEF st
      <4>3. /\ Observed(state', v) = reading[v]
            /\ Counted(state', v) = IF ~st.prev_jailed_state /\ reading[v] THEN st.jailed_number + 1
                                    ELSE st.jailed_number
        BY <4>1, <4>2, WithProfileIs DEF Observed, Counted
      <4>4. st.jailed_number = k /\ st.prev_jailed_state = Observed(state, v)
        BY DEF Observed, Counted, st
      <4> HIDE DEF k, j
      <4>5. Counted(state', v) = k + Rise(Observed(state, v), reading[v])
        BY <3>0, <4>3, <4>4 DEF Rise
      <4>6. k + Rise(Observed(state, v), reading[v]) + Rise(reading[v], chain[v].jailed) <= j
        BY DEF JailInv, UnderWayInv, k, j
      <4>7. Rise(Observed(state', v), chain[v].jailed) = Rise(reading[v], chain[v].jailed)
        BY <4>3
      <4> QED BY <4>5, <4>6, <4>7 DEF j
    <3>2. CASE v \notin ToSet(list)
      <4>1. GetValidatorState(state', v) = st
        BY <1>4, <3>2 DEF Profiled, GetValidatorState
      <4>2. Counted(state', v) = k /\ Observed(state', v) = Observed(state, v)
        BY <4>1 DEF Counted, Observed
      <4> QED BY <4>2 DEF JailInv, SeenInv
    <3> QED BY <3>1, <3>2
  <2>2. SeenInv'
    BY <1>0, <2>1 DEF SeenInv
  <2>3. UnderWayInv' /\ CopiedInv'
    BY <1>0 DEF UnderWayInv, CopiedInv, JailInv
  <2> QED BY <2>2, <2>3 DEF JailInv
<1> QED BY <1>1, <1>3, <1>4

LEMMA SigningInfoCounts ==
  ASSUME StatsAssumption, StatsTypeOK, JailInv, SudoSigningInfo
  PROVE  JailInv'
<1>1. Grown(state')
  BY SigningInfoDoes
<1>2. \A v \in Valopers : /\ Counted(state', v) = Counted(state, v)
                          /\ Observed(state', v) = Observed(state, v)
  BY <1>1 DEF Grown, SameJailings, Counted, Observed
<1>3. members' = members /\ chain' = chain /\ profiles' = profiles
  BY DEF SudoSigningInfo
<1> QED BY <1>2, <1>3, NothingCounted

LEMMA SetStepCounts ==
  ASSUME StatsAssumption, StatsTypeOK, JailInv, SetStep
  PROVE  JailInv'
<1>1. /\ DOMAIN members' \subseteq Valopers
      /\ \A v \in DOMAIN members' :
           \/ members'[v] = FreshMember
           \/ /\ v \in DOMAIN state
              /\ members'[v] = [tombstone |-> state[v].tombstone, jailed_number |-> state[v].jailed_number]
           \/ v \in DOMAIN members /\ members'[v] = members[v]
  BY SetStepMembers
<1>2. state' = state /\ chain' = chain /\ profiles' = profiles
  BY DEF SetStep, contractVars, readVars
<1>3. ASSUME NEW v \in DOMAIN members'
      PROVE  members'[v].jailed_number <= chain[v].jailings
  <2>0. v \in Valopers /\ chain[v].jailings \in Nat
    BY <1>1, CountTypes
  <2>1. CASE members'[v] = FreshMember
    BY <2>0, <2>1 DEF FreshMember
  <2>2. ASSUME v \in DOMAIN state,
               members'[v] = [tombstone |-> state[v].tombstone, jailed_number |-> state[v].jailed_number]
        PROVE  members'[v].jailed_number <= chain[v].jailings
    <3>1. members'[v].jailed_number = Counted(state, v)
      BY <2>2 DEF Counted, GetValidatorState
    <3>2. Counted(state, v) + Rise(Observed(state, v), chain[v].jailed) <= chain[v].jailings
      BY <2>0 DEF JailInv, SeenInv
    <3>3. Rise(Observed(state, v), chain[v].jailed) \in {0, 1} /\ Counted(state, v) \in Nat
      BY <2>0, RiseIs, CountTypes
    <3> QED BY <2>0, <3>1, <3>2, <3>3
  <2>3. CASE v \in DOMAIN members /\ members'[v] = members[v]
    BY <2>3 DEF JailInv, CopiedInv
  <2> QED BY <1>1, <2>1, <2>2, <2>3
<1>4. SeenInv' /\ UnderWayInv'
  BY <1>2 DEF JailInv, SeenInv, UnderWayInv
<1> QED BY <1>2, <1>3, <1>4 DEF JailInv, CopiedInv

(* One more jailing on the remote chain pays for the one that may now be seen. *)
LEMMA RiseOfChain ==
  ASSUME NEW a, NEW b, NEW c, NEW j \in Nat, NEW i \in Nat,
         \/ i = j /\ b = c
         \/ i = j /\ ~c
         \/ i = j + 1 /\ ~b /\ c
  PROVE  Rise(a, c) + j <= Rise(a, b) + i
<1>1. Rise(a, b) \in {0, 1} /\ Rise(a, c) \in {0, 1}
  BY RiseIs
<1>2. CASE i = j /\ b = c
  BY <1>1, <1>2
<1>3. CASE i = j /\ ~c
  <2>1. Rise(a, c) = 0
    BY <1>3, RiseIs
  <2> QED BY <1>1, <1>3, <2>1
<1>4. CASE i = j + 1 /\ ~b /\ c
  <2>1. i = j + 1
    BY <1>4
  <2> DEFINE r == Rise(a, b)
             s == Rise(a, c)
  <2>2. r \in {0, 1} /\ s \in {0, 1}
    BY <1>1
  <2> HIDE DEF r, s
  <2>3. s + j <= r + i
    BY <2>1, <2>2
  <2> QED BY <2>3 DEF r, s
<1> QED BY <1>2, <1>3, <1>4

LEMMA JailStepCounts ==
  ASSUME StatsAssumption, StatsTypeOK, JailInv, JailStep
  PROVE  JailInv'
<1>1. state' = state /\ profiles' = profiles /\ members' = members
  BY DEF JailStep, contractVars, readVars
<1>2. ASSUME NEW v \in Valopers, NEW a
      PROVE  /\ chain'[v].jailings \in Nat /\ chain[v].jailings <= chain'[v].jailings
             /\ Rise(a, chain'[v].jailed) + chain[v].jailings
                  <= Rise(a, chain[v].jailed) + chain'[v].jailings
  <2> DEFINE j == chain[v].jailings
             i == chain'[v].jailings
             b == chain[v].jailed
             c == chain'[v].jailed
  <2>1. j \in Nat
    BY CountTypes
  <2>2. \/ i = j /\ b = c
        \/ i = j /\ ~c
        \/ i = j + 1 /\ ~b /\ c
    BY JailStepDoes
  <2> HIDE DEF i, j, b, c
  <2>3. i \in Nat /\ j <= i
    BY <2>1, <2>2
  <2>4. Rise(a, c) + j <= Rise(a, b) + i
    BY <2>1, <2>2, <2>3, RiseOfChain
  <2> QED BY <2>3, <2>4 DEF i, j, b, c
<1>3. ASSUME NEW v \in Valopers
      PROVE  Counted(state, v) + Rise(Observed(state, v), chain'[v].jailed) <= chain'[v].jailings
  <2> DEFINE n == Counted(state, v)
             a == Observed(state, v)
             r == Rise(a, chain[v].jailed)
             s == Rise(a, chain'[v].jailed)
             j == chain[v].jailings
             i == chain'[v].jailings
  <2>1. n \in Nat /\ j \in Nat /\ i \in Nat /\ r \in Nat /\ s \in Nat
    BY <1>2, CountTypes, RiseIs
  <2>2. n + r <= j /\ s + j <= r + i
    BY <1>2 DEF JailInv, SeenInv
  <2> HIDE DEF n, a, r, s, i, j
  <2>3. n + s <= i
    BY <2>1, <2>2
  <2> QED BY <2>3 DEF n, a, r, s, i, j
<1>4. ASSUME NEW p \in profiles, NEW v \in Valopers
      PROVE  Counted(state, v) + Rise(Observed(state, v), p[v]) + Rise(p[v], chain'[v].jailed)
               <= chain'[v].jailings
  <2> DEFINE n == Counted(state, v)
             m == Rise(Observed(state, v), p[v])
             r == Rise(p[v], chain[v].jailed)
             s == Rise(p[v], chain'[v].jailed)
             j == chain[v].jailings
             i == chain'[v].jailings
  <2>1. n \in Nat /\ m \in Nat /\ j \in Nat /\ i \in Nat /\ r \in Nat /\ s \in Nat
    BY <1>2, CountTypes, RiseIs
  <2>2. n + m + r <= j /\ s + j <= r + i
    BY <1>2 DEF JailInv, UnderWayInv
  <2> HIDE DEF n, m, r, s, i, j
  <2>3. n + m + s <= i
    BY <2>1, <2>2
  <2> QED BY <2>3 DEF n, m, r, s, i, j
<1>5. ASSUME NEW v \in DOMAIN members
      PROVE  members[v].jailed_number <= chain'[v].jailings
  <2>1. v \in Valopers /\ members[v].jailed_number \in Nat
    BY DEF StatsTypeOK, Range
  <2>2. chain[v].jailings \in Nat /\ chain'[v].jailings \in Nat /\ chain[v].jailings <= chain'[v].jailings
    BY <1>2, <2>1, CountTypes
  <2>3. members[v].jailed_number <= chain[v].jailings
    BY DEF JailInv, CopiedInv
  <2> QED BY <2>1, <2>2, <2>3
<1> QED BY <1>1, <1>3, <1>4, <1>5 DEF JailInv, SeenInv, UnderWayInv, CopiedInv

LEMMA ReadCounts ==
  ASSUME StatsAssumption, StatsTypeOK, JailInv, Read
  PROVE  JailInv'
<1>1. state' = state /\ members' = members /\ chain' = chain
  BY DEF Read, contractVars
<1>2. CASE profiles' = profiles
  BY <1>1, <1>2, NothingCounted
<1>3. CASE profiles' = {ReadProfiles}
  <2>1. ASSUME NEW v \in Valopers
        PROVE  Counted(state, v) + Rise(Observed(state, v), ReadProfiles[v])
                 + Rise(ReadProfiles[v], chain[v].jailed) <= chain[v].jailings
    <3>1. ReadProfiles[v] = chain[v].jailed
      BY DEF ReadProfiles
    <3>2. Rise(chain[v].jailed, chain[v].jailed) = 0
      BY RiseIs
    <3>3. Counted(state, v) \in Nat /\ Rise(Observed(state, v), chain[v].jailed) \in {0, 1}
      BY CountTypes, RiseIs
    <3>4. Counted(state, v) + Rise(Observed(state, v), chain[v].jailed) <= chain[v].jailings
      BY DEF JailInv, SeenInv
    <3> QED BY <3>1, <3>2, <3>3, <3>4
  <2>2. UnderWayInv'
    BY <1>1, <1>3, <2>1 DEF UnderWayInv
  <2>3. SeenInv' /\ CopiedInv'
    BY <1>1 DEF JailInv, SeenInv, CopiedInv
  <2> QED BY <2>2, <2>3 DEF JailInv
<1> QED BY <1>2, <1>3 DEF Read

LEMMA JailInvStays ==
  ASSUME StatsAssumption, StatsTypeOK, JailInv, [StatsNext]_statsVars
  PROVE  JailInv'
<1>1. CASE UNCHANGED statsVars
  BY <1>1, NothingCounted DEF statsVars, contractVars, readVars
<1>2. ASSUME NEW list \in Lists, RegisterStatsQueries(list) PROVE JailInv'
  BY <1>2, NothingCounted DEF RegisterStatsQueries, ValidatorInfoReply
<1>3. CASE NewBlock
  <2>1. state' = state /\ profiles' = profiles /\ members' = members
    BY <1>3 DEF NewBlock, contractVars, readVars
  <2> QED BY <1>3, <2>1, NewBlockDoes, NothingCounted
<1>4. CASE StatsNext
  BY <1>2, <1>3, <1>4, ValidatorInfoCounts, SigningInfoCounts, SetStepCounts, JailStepCounts, ReadCounts
     DEF StatsNext
<1> QED BY <1>1, <1>4

(* Neither contract counts a jailing twice or one that was not. *)
THEOREM JailingsAreRealAlways == StatsSpec => []JailingsAreReal
<1>1. StatsInit => JailInv
  BY StatsAssumption, InitJailInv
<1>2. StatsTypeOK /\ JailInv /\ [StatsNext]_statsVars => JailInv'
  BY StatsAssumption, JailInvStays
<1>3. StatsTypeOK /\ JailInv => JailingsAreReal
  <2> SUFFICES ASSUME StatsTypeOK, JailInv PROVE JailingsAreReal
    OBVIOUS
  <2>1. ASSUME NEW v \in DOMAIN state PROVE state[v].jailed_number <= chain[v].jailings
    <3>1. v \in Valopers /\ state[v].jailed_number = Counted(state, v)
      BY DEF StatsTypeOK, Counted, GetValidatorState
    <3>2. /\ Counted(state, v) \in Nat /\ chain[v].jailings \in Nat
          /\ Rise(Observed(state, v), chain[v].jailed) \in {0, 1}
      BY <3>1, StatsAssumption, CountTypes, RiseIs
    <3>3. Counted(state, v) + Rise(Observed(state, v), chain[v].jailed) <= chain[v].jailings
      BY <3>1 DEF JailInv, SeenInv
    <3> QED BY <3>1, <3>2, <3>3
  <2> QED BY <2>1 DEF JailInv, CopiedInv, JailingsAreReal
<1> QED BY <1>1, <1>2, <1>3, StatsTypeCorrect, PTL DEF StatsSpec

-----------------------------------------------------------------------------
(***************************************************************************)
(* Blame and tombstones                                                    *)
(***************************************************************************)

Innocent(v) == chain[v].missed = 0
(* Every record is of a validator with a state, and of one that missed nothing it says so. *)
Spotless(states, list) ==
  \A i \in 1..Len(list) :
    /\ list[i].valoper \in DOMAIN states
    /\ Innocent(list[i].valoper) => list[i].missed = 0 /\ states[list[i].valoper].missed = 0
FairReading(reading) == \A v \in Valopers : Innocent(v) => reading.data[v].missed = 0
BlameInv == (\A r \in infos : FairReading(r)) /\ Spotless(state, records)

LEMMA InitBlameInv == ASSUME StatsInit PROVE BlameInv
  BY DEF StatsInit, BlameInv, Spotless

(* The innocent are counted nothing, *)
LEMMA InnocentMissedNothing ==
  ASSUME NEW list \in Seq(MissedBlocks), NEW v,
         \A i \in 1..Len(list) : list[i].valoper = v => list[i].missed = 0
  PROVE  MissedIn(list, v, 0) = 0
<1> DEFINE n == Len(list)
<1>1. n \in Nat /\ list \in [1..n -> MissedBlocks]
  OBVIOUS
<1>2. ASSUME NEW i \in 1..n, NEW a \in {0} PROVE AddRecord(a, list[i], v) \in {0}
  BY <1>2 DEF AddRecord
<1> HIDE DEF n
<1>3. MissedIn(list, v, 0) \in {0}
  BY <1>1, <1>2, MissedStaysIn
<1> QED BY <1>3

(* whichever infos come. *)
LEMMA WithInfoSpotless ==
  ASSUME StatsAssumption, StartOk, now \in Nat, NEW a \in Start, NEW v \in Valopers,
         NEW reading, reading.height \in Nat, reading.data \in SigningInfo,
         FairReading(reading), Spotless(a.state, a.records)
  PROVE  /\ WithInfo(a, v, reading) \in Start
         /\ Spotless(WithInfo(a, v, reading).state, WithInfo(a, v, reading).records)
<1> DEFINE b == WithInfo(a, v, reading)
           list == Recent(a.records)
           counter == reading.data[v].missed
<1>1. /\ b \in Accs
      /\ DOMAIN b.state = DOMAIN a.state \cup {v}
      /\ \A w \in DOMAIN a.state : w # v => b.state[w] = a.state[w]
      /\ b.state[v].missed \in {0, MissedIn(list, v, counter)}
      /\ b.records = Append(list, InfoRecord(v, reading))
  BY WithInfoIs
<1>2. a.records \in Seq(MissedBlocks)
  BY StartTypes
<1>3. list \in Seq(MissedBlocks) /\ \A i \in 1..Len(list) : \E j \in 1..Len(a.records) : list[i] = a.records[j]
  BY <1>2, RecentIs
<1> HIDE DEF b, list
<1>4. Spotless(a.state, list)
  BY <1>3 DEF Spotless
<1>5. ASSUME Innocent(v) PROVE counter = 0 /\ b.state[v].missed = 0
  <2>1. counter = 0
    BY <1>5 DEF FairReading
  <2>2. MissedIn(list, v, 0) = 0
    BY <1>3, <1>4, <1>5, InnocentMissedNothing DEF Spotless
  <2> QED BY <1>1, <2>1, <2>2
<1>6. ASSUME NEW i \in 1..Len(list)
      PROVE  /\ list[i].valoper \in DOMAIN b.state
             /\ Innocent(list[i].valoper) => list[i].missed = 0 /\ b.state[list[i].valoper].missed = 0
  BY <1>1, <1>4, <1>5 DEF Spotless
<1>7. InfoRecord(v, reading).valoper = v /\ InfoRecord(v, reading).missed = counter
  BY DEF InfoRecord
<1>8. ASSUME NEW i \in 1..Len(b.records)
      PROVE  \/ i \in 1..Len(list) /\ b.records[i] = list[i]
             \/ b.records[i] = InfoRecord(v, reading)
  BY <1>1, <1>3
<1> HIDE DEF counter
<1>9. ASSUME NEW i \in 1..Len(b.records)
      PROVE  /\ b.records[i].valoper \in DOMAIN b.state
             /\ Innocent(b.records[i].valoper) =>
                  b.records[i].missed = 0 /\ b.state[b.records[i].valoper].missed = 0
  <2>1. CASE i \in 1..Len(list) /\ b.records[i] = list[i]
    BY <1>6, <2>1
  <2>2. CASE b.records[i] = InfoRecord(v, reading)
    BY <1>1, <1>5, <1>7, <2>2
  <2> QED BY <1>8, <2>1, <2>2
<1>10. b \in Start /\ Spotless(b.state, b.records)
  BY <1>1, <1>9 DEF Start, Spotless
<1> QED BY <1>10 DEF b

LEMMA SigningInfoBlames ==
  ASSUME StatsAssumption, StatsTypeOK, BlameInv, SudoSigningInfo
  PROVE  BlameInv'
<1>1. PICK list \in infoQuery, reading \in infos :
        state' = AfterInfos(list, reading).state /\ records' = AfterInfos(list, reading).records
  BY DEF SudoSigningInfo
<1>2. /\ list \in Seq(Valopers) /\ reading.data \in SigningInfo /\ reading.height \in Nat /\ now \in Nat
  BY DEF StatsTypeOK, StatsAssumption
<1>3. StartOk
  BY StatesAreTyped
<1> DEFINE n == Len(list)
           A == {a \in Start : Spotless(a.state, a.records)}
<1>4. n \in Nat /\ list \in [1..n -> Valopers]
  BY <1>2
<1>5. BeforeInfos \in A
  BY DEF Start, BeforeInfos, BlameInv
<1>6. \A v \in Valopers : \A a \in A : WithInfo(a, v, reading) \in A
  BY <1>2, <1>3, WithInfoSpotless DEF BlameInv
<1>7. AfterInfos(list, reading) \in A
  <2> HIDE DEF n, A
  <2> QED BY <1>4, <1>5, <1>6, InfosStayIn
<1>8. chain' = chain /\ infos' = {}
  BY DEF SudoSigningInfo
<1> QED BY <1>1, <1>7, <1>8 DEF BlameInv, Spotless, Innocent

(* Steps after which the same validators have a state, with the same uptime *)
LEMMA NobodyMoreBlamed ==
  ASSUME StatsTypeOK, BlameInv,
         \A v \in DOMAIN state : v \in DOMAIN state' /\ state'[v].missed = state[v].missed,
         records' = records,
         \A v \in Valopers : chain'[v].missed = 0 => chain[v].missed = 0,
         \A r \in infos' : r \in infos \/ (chain' = chain /\ FairReading(r))
  PROVE  BlameInv'
<1>1. ASSUME NEW i \in 1..Len(records)
      PROVE  records[i].valoper \in Valopers
  <2>1. records[i] \in MissedBlocks
    BY DEF StatsTypeOK
  <2> QED BY <2>1 DEF MissedBlocks
<1>2. Spotless(state, records)'
  BY <1>1 DEF BlameInv, Spotless, Innocent
<1>3. \A r \in infos' : FairReading(r)'
  BY DEF BlameInv, FairReading, Innocent
<1> QED BY <1>2, <1>3 DEF BlameInv

LEMMA ProfiledKeeps ==
  ASSUME StatsTypeOK, NEW list \in Seq(Valopers), NEW reading \in Profile, Profiled(list, reading),
         NEW v \in DOMAIN state
  PROVE  v \in DOMAIN state' /\ state'[v].missed = state[v].missed /\ state'[v].tombstone = state[v].tombstone
<1>1. v \in DOMAIN state' /\ v \in Valopers /\ state[v] \in StateWith(Nat)
  BY StatesAreTyped DEF Profiled, StatesWith
<1>2. CASE v \in ToSet(list)
  <2>1. state'[v] = WithProfile(state[v], reading[v]) /\ reading[v] \in BOOLEAN
    BY <1>1, <1>2 DEF Profiled, GetValidatorState, Profile
  <2> QED BY <1>1, <2>1, WithProfileIs
<1>3. CASE v \notin ToSet(list)
  BY <1>1, <1>3 DEF Profiled
<1> QED BY <1>1, <1>2, <1>3

LEMMA ValidatorInfoKeeps ==
  ASSUME StatsTypeOK, SudoValidatorInfo, NEW v \in DOMAIN state
  PROVE  v \in DOMAIN state' /\ state'[v].missed = state[v].missed /\ state'[v].tombstone = state[v].tombstone
<1>1. PICK list \in profileQuery, reading \in profiles :
        \/ infoQuery = {} /\ infoQuery' = {list} /\ state' = state
        \/ Profiled(list, reading) /\ infoQuery' = infoQuery
  BY ValidatorInfoDoes
<1>2. list \in Seq(Valopers) /\ reading \in Profile
  BY DEF StatsTypeOK
<1> QED BY <1>1, <1>2, ProfiledKeeps

LEMMA BlameInvStays ==
  ASSUME StatsAssumption, StatsTypeOK, BlameInv, [StatsNext]_statsVars
  PROVE  BlameInv'
<1>1. CASE UNCHANGED statsVars
  BY <1>1, NobodyMoreBlamed DEF statsVars, contractVars, readVars
<1>2. ASSUME NEW list \in Lists, RegisterStatsQueries(list) PROVE BlameInv'
  BY <1>2, NobodyMoreBlamed DEF RegisterStatsQueries, ValidatorInfoReply
<1>3. CASE SudoValidatorInfo
  <2>1. records' = records /\ chain' = chain /\ infos' = infos
    BY <1>3 DEF SudoValidatorInfo
  <2> QED BY <1>3, <2>1, ValidatorInfoKeeps, NobodyMoreBlamed
<1>4. CASE SetStep
  BY <1>4, NobodyMoreBlamed DEF SetStep, contractVars, readVars
<1>5. CASE JailStep
  <2>1. state' = state /\ records' = records /\ infos' = infos
    BY <1>5 DEF JailStep, contractVars, readVars
  <2>2. \A v \in Valopers : chain'[v].missed = chain[v].missed
    BY <1>5, JailStepDoes
  <2> QED BY <2>1, <2>2, NobodyMoreBlamed
<1>6. CASE NewBlock
  <2>1. state' = state /\ records' = records /\ infos' = infos
    BY <1>6 DEF NewBlock, contractVars, readVars
  <2> QED BY <1>6, <2>1, NewBlockDoes, NobodyMoreBlamed
<1>7. CASE Read
  <2>1. state' = state /\ records' = records /\ chain' = chain
    BY <1>7 DEF Read, contractVars
  <2>2. infos' = infos \/ infos' = {ReadInfos}
    BY <1>7 DEF Read
  <2>3. FairReading(ReadInfos)
    BY DEF FairReading, ReadInfos, Innocent
  <2> QED BY <2>1, <2>2, <2>3, NobodyMoreBlamed
<1>8. CASE StatsNext
  BY <1>2, <1>3, <1>4, <1>5, <1>6, <1>7, <1>8, SigningInfoBlames DEF StatsNext
<1> QED BY <1>1, <1>8

(* A validator that missed no block has its full uptime, whatever the others missed. *)
THEOREM NobodyIsBlamedAlways == StatsSpec => []NobodyIsBlamed
<1>1. StatsInit => BlameInv
  BY InitBlameInv
<1>2. StatsTypeOK /\ BlameInv /\ [StatsNext]_statsVars => BlameInv'
  BY StatsAssumption, BlameInvStays
<1>3. StatsTypeOK /\ BlameInv => NobodyIsBlamed
  <2> SUFFICES ASSUME StatsTypeOK, BlameInv PROVE NobodyIsBlamed
    OBVIOUS
  <2>1. DOMAIN records = 1..Len(records)
    BY DEF StatsTypeOK
  <2> QED BY <2>1 DEF BlameInv, Spotless, Innocent, NobodyIsBlamed
<1> QED BY <1>1, <1>2, <1>3, StatsTypeCorrect, PTL DEF StatsSpec

(* A tombstone that was seen is not forgotten, whichever results come in. *)
THEOREM TombstonesStayAlways == StatsSpec => TombstonesStay
<1> DEFINE Stays == \A v \in DOMAIN state :
                      v \in DOMAIN state' /\ (state[v].tombstone => state'[v].tombstone)
<1>1. ASSUME StatsTypeOK, StatsNext PROVE Stays
  <2>1. CASE SudoSigningInfo
    <3>1. Grown(state')
      BY <1>1, <2>1, StatsAssumption, SigningInfoDoes
    <3> QED BY <3>1 DEF Grown
  <2>2. CASE SudoValidatorInfo
    BY <1>1, <2>2, ValidatorInfoKeeps
  <2>3. CASE ~SudoSigningInfo /\ ~SudoValidatorInfo
    <3>1. state' = state
      BY <1>1, <2>3 DEF StatsNext, RegisterStatsQueries, SetStep, JailStep, NewBlock, Read, contractVars
    <3> QED BY <3>1
  <2> QED BY <2>1, <2>2, <2>3
<1>2. StatsTypeOK /\ [StatsNext]_statsVars => [Stays]_statsVars
  BY <1>1
<1> QED BY <1>2, StatsTypeCorrect, PTL DEF StatsSpec, TombstonesStay

=============================================================================
