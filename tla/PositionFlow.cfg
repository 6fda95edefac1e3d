\* Two closes, one failing call, one restart.
SPECIFICATION FairSpec
CHECK_DEADLOCK FALSE
CONSTANTS
  Deploy = Deploy
  c1 = c1
  c2 = c2
  Closes = {c1, c2}
  NoAction = NoAction
  MaxFaults = 1
  MaxCrashes = 1
  MaxPeaks = 1
  MaxEvents = 2
INVARIANTS
  TypeOK
  DoneMeansDone
  SwapAtMostOnce
PROPERTIES
  ClosedIsFinal
  SubmittedIsConcluded
  StoreFollowsTheChain
