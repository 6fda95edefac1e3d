SPECIFICATION Spec
CONSTANTS
  Supervisors = {s1, s2}
  Former = former
  NoOwner = NoOwner
  MaxSlips = 2
  Order <- MCOrder
  Screening = "screening"
INVARIANTS
  TypeOK
  OneRunPerWorker
  BlockedHasCause
PROPERTIES
  SplitBrainEnds
  EveryWorkerKeepsRunning
CHECK_DEADLOCK FALSE
