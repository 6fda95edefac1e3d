SPECIFICATION FairSpec
CONSTANTS
  Pools = {"pool"}
  Tokens = {"sol"}
  Policy <- MCPolicy
  NoLimit = NoLimit
  NoPool = NoPool
  Order <- MCOrder
  PoolOf <- MCPoolOf
  TokensOf <- MCTokensOf
  Funds = 4
  Facts <- MCFacts
  Ai = "constrained_action"
  DryRun = FALSE
  MaxAutoDeploysPerCycle = 2
  None = None
  Scenarios <- MCNextDay
PROPERTIES
  BreakerShutsTheGates
