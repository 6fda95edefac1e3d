\* Two workers, one restart, two failing writes; no symmetry, which TLC
\* cannot combine with a temporal property.
SPECIFICATION FairSpec
CHECK_DEADLOCK FALSE
CONSTANTS
  A = A
  B = B
  pos = pos
  w1 = w1
  w2 = w2
  NoPosition = NoPosition
  NoAction = NoAction
  Actions = {1, 2, 3}
  Wallets = {A, B}
  Positions = {pos}
  Keys = {"k1", "k2"}
  Workers = {w1, w2}
  MaxFaults = 2
  MaxCrashes = 1
  WalletOf <- MCWalletOf
  PositionOf <- MCPositionOf
  RequestedAt <- MCRequestedAt
  KeyOf <- MCKeyOf
INVARIANTS
  OneActiveWritePerWallet
  ClaimedActionIsUntouched
  HandlersAreExclusive
  FaultsAreContained
PROPERTIES
  EveryActionIsConcluded
  StatusesFollowTheLifecycle
  ImplementsWriteLedger
