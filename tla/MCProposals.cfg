\* Two proposals, one validator, who may be a member and may be listed as a voter.
SPECIFICATION Spec
CONSTANTS
  Validators = {v1}
  VoterLists <- TwoLists
  InitProposal = 1
  Prefetches = {1, 2}
  MaxPrefetch = 2
  VetoSpamThreshold = 50
  Tallies <- TwoTallies
  Endings = {"passed"}
  LastProposal = 2
  MaxCount = 2
INVARIANTS
  CountsAreEarned
PROPERTY VotesAreKept
CHECK_DEADLOCK FALSE
