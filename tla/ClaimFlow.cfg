\* Two out of two failing calls, two restarts, one record written back, in the
\* wiring of the runtime and in that of the tests.
SPECIFICATION FairSpec
CHECK_DEADLOCK FALSE
CONSTANTS
  c1 = c1
  Claims = {c1}
  NoClaim = NoClaim
  Wirings = {TRUE, FALSE}
  MaxFaults = 2
  MaxCrashes = 2
  MaxPeaks = 1
  MaxEvents = 2
INVARIANTS
  EffectsInOrder
  DoneTellsRedeploy
PROPERTIES
  ReportedClaimIsConcluded
  PositionFollowsTheChain
