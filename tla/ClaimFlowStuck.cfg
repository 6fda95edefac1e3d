\* The wiring of the runtime; one call fails and nothing crashes.
SPECIFICATION FairSpec
CHECK_DEADLOCK FALSE
CONSTANTS
  c1 = c1
  Claims = {c1}
  NoClaim = NoClaim
  Wirings = {TRUE}
  MaxFaults = 1
  MaxCrashes = 0
  MaxPeaks = 0
  MaxEvents = 1
PROPERTY
  ReconcilingClaimIsResumed
