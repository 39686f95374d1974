------------------------------ MODULE Proposals ------------------------------
(***************************************************************************)
(* Voting statistics of the validators: the provider-proposals contract,   *)
(* which follows the remote chain's proposals; the proposal-votes          *)
(* contract, which follows the votes of listed voters on them; and the     *)
(* counters of the validators set.  The contracts call each other within   *)
(* the transaction that delivers a query result, so that one refusal       *)
(* undoes all of it.                                                       *)
(*                                                                         *)
(* A voter and a validator are one name here: the set finds a vote's voter *)
(* among its keys.                                                         *)
(***************************************************************************)
EXTENDS Integers, FiniteSets, FiniteSetsExt, Functions

CONSTANTS
  Validators,
  VoterLists,          \* the lists of voters the owner may set
  InitProposal,        \* the proposal to begin with
  Prefetches,          \* how many proposals are asked for,
  MaxPrefetch,         \* at most
  VetoSpamThreshold,   \* percentage
  Tallies,             \* [yes, veto]: final tallies that proposals may get
  Endings,             \* and the statuses they may end in
  LastProposal,        \* bound of the model: proposals of the remote chain
  MaxCount             \* bound of the model: how often a validator is counted

ASSUME ProposalsAssumption ==
  /\ IsFiniteSet(Validators) /\ VoterLists \subseteq SUBSET Validators
  /\ InitProposal \in Nat \ {0} /\ {LastProposal, MaxPrefetch} \subseteq Nat /\ MaxCount \in Nat
  /\ Prefetches \subseteq 1..MaxPrefetch /\ VetoSpamThreshold \in 0..100
  /\ Tallies \subseteq [yes : Nat, veto : Nat]
  /\ Endings \subseteq {"passed", "rejected", "failed"}

VARIABLES
  prefetch,      \* provider-proposals: config.proposals_prefetch
  votesAddress,  \* whether config.proposal_votes_address is set
  asked,         \* the proposals its query asks for
  known,         \* PROPOSALS
  votes,         \* PROPOSALS_VOTES: voters by proposal
  linked,        \* proposal-votes: config.provider_proposals_address is the other contract
  voters,        \* VOTERS, a set of sets with at most one element
  active,        \* ACTIVE_PROPOSALS
  votesQuery,    \* its query: [proposals, voters], if any
  counting,      \* the validators set takes the word of provider-proposals
  validators,    \* VALIDATORS_SET: [init_proposal, counted] by member
  remote,        \* the remote chain's proposals: [status, tally, cast]
  submitted,     \* how many there are
  result,        \* results read and not delivered: of the proposals,
  votesResult    \*   and of the votes

providerVars == <<prefetch, votesAddress, asked, known, votes>>
votesVars == <<linked, voters, active, votesQuery>>
setVars == <<counting, validators>>
remoteVars == <<remote, submitted>>
resultVars == <<result, votesResult>>
vars == <<providerVars, votesVars, setVars, remoteVars, resultVars>>

Ids == 1..(InitProposal + LastProposal + MaxPrefetch)
Finished == {"passed", "rejected", "failed"}
Statuses == {"unspecified", "deposit", "voting"} \cup Finished
NoTally == [yes |-> 0, veto |-> 0]
Proposal == [status : Statuses, tally : Tallies \cup {NoTally}]
NewMember == [init_proposal |-> 0, counted |-> 0]

(* the types of the state of the three contracts, and of what the relayer carries *)
TypeOK ==
  /\ prefetch \in Prefetches /\ votesAddress \in BOOLEAN /\ counting \in BOOLEAN /\ linked \in BOOLEAN
  /\ asked \subseteq Ids /\ active \subseteq Ids
  /\ DOMAIN known \subseteq Ids /\ Range(known) \subseteq Proposal
  /\ DOMAIN votes \subseteq Ids /\ Range(votes) \subseteq SUBSET Validators
  /\ voters \subseteq SUBSET Validators /\ Cardinality(voters) <= 1
  /\ votesQuery \subseteq [proposals : SUBSET Ids, voters : SUBSET Validators]
  /\ DOMAIN validators \subseteq Validators
  /\ Range(validators) \subseteq [init_proposal : Ids \cup {0}, counted : 0..MaxCount]
  /\ \A r \in result : DOMAIN r \subseteq Ids /\ Range(r) \subseteq Proposal
  /\ \A r \in votesResult : DOMAIN r \subseteq Ids /\ Range(r) \subseteq SUBSET Validators

AskFrom(first, n) == first..(first + n - 1)

VotesInit == linked = TRUE /\ voters = {} /\ active = {} /\ votesQuery = {}

Init ==
  /\ VotesInit
  /\ prefetch \in Prefetches
  /\ votesAddress = FALSE
  /\ asked = AskFrom(InitProposal, prefetch)
  /\ known = <<>> /\ votes = <<>>
  /\ counting = FALSE /\ validators = <<>>
  /\ remote = [p \in Ids |-> [status |-> "unspecified", tally |-> NoTally, cast |-> {}]]
  /\ submitted = 0
  /\ result = {} /\ votesResult = {}

-----------------------------------------------------------------------------
(***************************************************************************)
(* The validators set                                                      *)
(***************************************************************************)

(* execute_update_validators and execute_update_validator: whoever is written, begins anew *)
UpdateValidators(members) == validators' = [v \in members |-> NewMember]

UpdateValidator(v) ==
  validators' = [w \in DOMAIN validators \cup {v} |-> IF w = v THEN NewMember ELSE validators[w]]

(* execute_update_validators_voting: counts the votes of members; spam is ignored *)
UpdateValidatorsVoting(p, voted, spam) ==
  LET Counted(v) ==
        [init_proposal |-> IF validators[v].init_proposal = 0 THEN p
                           ELSE validators[v].init_proposal,
         counted |-> validators[v].counted + 1]
  IN  /\ counting
      /\ validators' = [v \in DOMAIN validators |->
                          IF ~spam /\ v \in voted THEN Counted(v) ELSE validators[v]]

-----------------------------------------------------------------------------
(***************************************************************************)
(* proposal-votes                                                          *)
(***************************************************************************)

UpdateVotersList_added(list) == voters' = voters \cup {list}
UpdateVotersList(list) == voters' = {list}

(* remove_votes_interchain_query, with its reply *)
RemoveVotesQuery == votesQuery' = {} /\ UNCHANGED active

(* register_votes_interchain_query, with its reply *)
RegisterVotesQuery(proposals) ==
  /\ active' = proposals
  /\ votesQuery' = {[proposals |-> proposals, voters |-> list] : list \in voters}

(* execute_update_active_proposals.  A registered query whose proposals differ cannot be
   changed: the reply to the change looks for the number of a new query, which the answer
   to an update does not have, and the transaction fails. *)
UpdateActiveProposals(proposals) ==
  /\ linked
  /\ IF proposals = {} THEN RemoveVotesQuery
     ELSE IF voters # {} /\ votesQuery = {} THEN RegisterVotesQuery(proposals)
     ELSE /\ voters = {} \/ proposals = active
          /\ UNCHANGED <<active, votesQuery>>

(* execute_update_config *)
LinkProvider(isThis) == linked' = isThis

-----------------------------------------------------------------------------
(***************************************************************************)
(* provider-proposals                                                      *)
(***************************************************************************)

(* execute_update_config *)
SetProposalVotesAddress ==
  /\ votesAddress' = TRUE
  /\ UpdateActiveProposals(DOMAIN known)

(* execute_update_votes: only proposals that have votes in the message are overwritten *)
UpdateProposalVotes_all(read) ==
  votes' = [p \in DOMAIN votes \cup DOMAIN read |-> IF p \in DOMAIN read THEN read[p] ELSE votes[p]]
UpdateProposalVotes(read) ==
  LET voted == {p \in DOMAIN read : read[p] # {}}
  IN  /\ votesAddress
      /\ votes' = [p \in DOMAIN votes \cup voted |-> IF p \in voted THEN read[p] ELSE votes[p]]

IsFinished_or_voting(proposal) == proposal.status \in Finished \cup {"voting"}
IsFinished(proposal) == proposal.status \in Finished

IsSpam_never(tally) == FALSE
IsSpam(tally) ==
  LET total == tally.yes + tally.veto
  IN  total > 0 /\ tally.veto * 100 > VetoSpamThreshold * total

VotesFor(p) == IF p \in DOMAIN votes THEN votes[p] ELSE {}

(* The first proposal of the result is finished: the query is moved to begin with it, its
   votes are counted, and its successors become the active ones. *)
CountFirst(p, proposal) ==
  /\ asked' = AskFrom(p, prefetch)
  /\ UpdateValidatorsVoting(p, VotesFor(p), IsSpam(proposal.tally))
  /\ IF votesAddress THEN UpdateActiveProposals(AskFrom(p, prefetch))
                     ELSE UNCHANGED <<active, votesQuery>>

(* sudo_proposals_query: all proposals that exist are stored at last *)
SudoProposalsQuery(data) ==
  LET first == Min(DOMAIN data)
      present == {p \in DOMAIN data : data[p].status # "unspecified"}
  IN  /\ IF IsFinished(data[first])
         THEN CountFirst(first, data[first])
         ELSE UNCHANGED <<asked, validators, active, votesQuery>>
      /\ known' = [p \in DOMAIN known \cup present |-> IF p \in present THEN data[p] ELSE known[p]]

-----------------------------------------------------------------------------
(***************************************************************************)
(* The remote chain, the relayer and the owner                             *)
(***************************************************************************)

Submit ==
  /\ submitted < LastProposal
  /\ submitted' = submitted + 1
  /\ remote' = [remote EXCEPT ![submitted + 1].status = "deposit"]

(* what becomes of a proposal; without its deposit it is deleted *)
Move(p, status, tally) ==
  /\ \/ remote[p].status = "deposit" /\ status \in {"voting", "unspecified"} /\ tally = NoTally
     \/ remote[p].status = "voting" /\ status \in Endings /\ tally \in Tallies
  /\ remote' = [remote EXCEPT ![p].status = status, ![p].tally = tally]
  /\ UNCHANGED submitted

Vote(v, p) ==
  /\ remote[p].status = "voting" /\ v \notin remote[p].cast
  /\ remote' = [remote EXCEPT ![p].cast = @ \cup {v}]
  /\ UNCHANGED submitted

RemoteStep ==
  /\ \/ Submit
     \/ \E p \in Ids, status \in Statuses, tally \in Tallies \cup {NoTally} : Move(p, status, tally)
     \/ \E v \in Validators, p \in Ids : Vote(v, p)
  /\ UNCHANGED <<providerVars, votesVars, setVars, resultVars>>

(* The remote chain deletes the votes of a proposal when it is tallied. *)
ReadProposals ==
  /\ result = {}
  /\ result' = {[p \in asked |-> [status |-> remote[p].status, tally |-> remote[p].tally]]}
  /\ UNCHANGED <<providerVars, votesVars, setVars, remoteVars, votesResult>>

ReadVotes ==
  /\ votesResult = {}
  /\ \E q \in votesQuery :
       votesResult' = {[p \in q.proposals |->
                          IF remote[p].status = "voting" THEN remote[p].cast \cap q.voters ELSE {}]}
  /\ UNCHANGED <<providerVars, votesVars, setVars, remoteVars, result>>

Deliver ==
  \E data \in result :
    /\ DOMAIN data = asked
    /\ \A v \in DOMAIN validators : validators[v].counted < MaxCount
    /\ SudoProposalsQuery(data)
    /\ result' = {}
    /\ UNCHANGED <<prefetch, votesAddress, votes, linked, voters, counting, remoteVars, votesResult>>

DeliverVotes ==
  \E read \in votesResult :
    /\ \E q \in votesQuery : DOMAIN read = q.proposals
    /\ IF linked THEN UpdateProposalVotes(read) ELSE UNCHANGED votes
    /\ votesResult' = {}
    /\ UNCHANGED <<prefetch, votesAddress, asked, known, votesVars, setVars, remoteVars, result>>

(* A result is given up: the chain or a contract refuses it, or the relayer reads anew. *)
Drop ==
  /\ \/ result # {} /\ result' = {} /\ UNCHANGED votesResult
     \/ votesResult # {} /\ votesResult' = {} /\ UNCHANGED result
  /\ UNCHANGED <<providerVars, votesVars, setVars, remoteVars>>

ConfigureProvider ==
  /\ \/ SetProposalVotesAddress /\ UNCHANGED prefetch
     \/ prefetch' \in Prefetches /\ UNCHANGED <<votesAddress, active, votesQuery>>
  /\ UNCHANGED <<asked, known, votes, linked, voters, setVars, remoteVars, resultVars>>

ConfigureVotes ==
  /\ \/ \E list \in VoterLists : UpdateVotersList(list) /\ UNCHANGED linked
     \/ \E isThis \in BOOLEAN : LinkProvider(isThis) /\ UNCHANGED voters
  /\ UNCHANGED <<providerVars, active, votesQuery, setVars, remoteVars, resultVars>>

ConfigureSet ==
  /\ \/ \E members \in SUBSET Validators : UpdateValidators(members) /\ UNCHANGED counting
     \/ \E v \in Validators : UpdateValidator(v) /\ UNCHANGED counting
     \/ counting' = TRUE /\ UNCHANGED validators
  /\ UNCHANGED <<providerVars, votesVars, remoteVars, resultVars>>

Next ==
  \/ RemoteStep
  \/ ReadProposals \/ ReadVotes \/ Deliver \/ DeliverVotes \/ Drop
  \/ ConfigureProvider \/ ConfigureVotes \/ ConfigureSet

Spec == Init /\ [][Next]_vars

-----------------------------------------------------------------------------
(***************************************************************************)
(* Properties                                                              *)
(***************************************************************************)

(* A member is counted only for a proposal that is finished and no spam and in which it
   voted: what is stored of proposals and votes, at different times, says nothing false. *)
CountsAreEarned ==
  \A v \in DOMAIN validators :
    validators[v].counted > 0 =>
      LET p == validators[v].init_proposal
      IN  /\ p \in Ids
          /\ remote[p].status \in Finished
          /\ ~IsSpam(remote[p].tally)
          /\ v \in remote[p].cast

(* The votes of a proposal that are once stored stay, though the remote chain deletes
   them when the proposal is tallied and later results come without them. *)
VotesAreKept ==
  [][\A p \in DOMAIN votes : p \in DOMAIN votes' /\ votes[p] \subseteq votes'[p]]_vars

=============================================================================
