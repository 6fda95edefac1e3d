\* A deploy and one more operation, each transaction with one retry.
SPECIFICATION Spec
CHECK_DEADLOCK FALSE
CONSTANTS
  MaxAttempts = 2
  MaxCalls = 2
INVARIANTS
  SuccessMeansDone
  PlainErrorMovedNothing
  ClosedIsNotServed
