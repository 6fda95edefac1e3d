\* Two rebalances; three out of two failing calls, one restart, one new peak.
SPECIFICATION FairSpec
CHECK_DEADLOCK FALSE
CONSTANTS
  r1 = r1
  r2 = r2
  Rebalances = {r1, r2}
  Old = Old
  NoAction = NoAction
  MaxFaults = 2
  MaxCrashes = 1
  MaxPeaks = 1
  MaxEvents = 3
INVARIANTS
  TypeOK
  SuccessorIsTraceable
  OutcomeTellsWhereCapitalIs
PROPERTIES
  MovesCapitalOnce
  SubmittedIsConcluded
