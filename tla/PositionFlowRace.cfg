\* Nothing fails and nothing crashes: the race of the snapshot pass alone.
SPECIFICATION Spec
CHECK_DEADLOCK FALSE
CONSTANTS
  Deploy = Deploy
  c1 = c1
  c2 = c2
  Closes = {c1}
  NoAction = NoAction
  MaxFaults = 0
  MaxCrashes = 0
  MaxPeaks = 0
  MaxEvents = 0
INVARIANT
  ConfirmedCloseIsNotTimedOut
