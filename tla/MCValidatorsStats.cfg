\* Two validators of which the second may be left out of a query; two blocks.
SPECIFICATION StatsSpec
CONSTANTS
  v1 = v1
  v2 = v2
  Valopers = {v1, v2}
  Lists <- TwoLists
  Keep = 2
  MaxTime = 2
  MaxMissed = 1
  MaxJailings = 1
INVARIANTS
  JailingsAreReal
  NobodyIsBlamed
PROPERTY TombstonesStay
CHECK_DEADLOCK FALSE
