------------------------------ MODULE RiskRules ------------------------------
(***************************************************************************)
(* The portfolio guardrails (domain/rules/riskRules.ts): what an action    *)
(* may commit, given a snapshot of the portfolio.  Amounts are integers of *)
(* one currency; a percentage of the wallet is compared by multiplying     *)
(* out, and an exposure is kept as the value it is a percentage of.        *)
(***************************************************************************)
EXTENDS Integers, FiniteSets

CONSTANTS
  Pools, Tokens,
  Policy,   \* the limits of the configuration
  NoLimit,  \* a limit that is not configured
  NoPool    \* a request that commits nothing

PolicyFields ==
  {"maxConcurrentPositions", "maxNewDeploysPerHour", "maxRebalancesPerPosition",
   "minReserve", "maxCapitalUsagePct", "maxPoolExposurePct",
   "maxTokenExposurePct", "dailyLossLimitPct"}

ASSUME PolicyIsConfigured ==
  /\ PolicyFields \cup {"maxDailyLossSol"} = DOMAIN Policy
  /\ \A f \in PolicyFields : Policy[f] \in Nat
  /\ Policy.maxDailyLossSol = NoLimit \/ Policy.maxDailyLossSol \in Nat

AtLeast(x, y) == IF x >= y THEN x ELSE y
AtMost(x, y) == IF x <= y THEN x ELSE y

\* toPercent(part, whole) >= pct; an empty wallet makes every percentage 0.
ReachesPct(part, whole, pct) ==
  IF whole <= 0 THEN 0 >= pct ELSE part * 100 >= pct * whole

CapitalUsage(portfolio, delta) ==
  LET committed == AtLeast(portfolio.equity - portfolio.reserved
                           - portfolio.available, 0)
  IN [projected |-> AtLeast(committed + delta, 0),
      free |-> portfolio.available - delta]

DailyLossReached(portfolio) ==
  ReachesPct(portfolio.loss, portfolio.equity, Policy.dailyLossLimitPct)

\* The limit in SOL needs a price; without one the guard blocks.
SolLossReached(portfolio) ==
  /\ Policy.maxDailyLossSol # NoLimit
  /\ \/ portfolio.solPrice <= 0
     \/ portfolio.loss >= Policy.maxDailyLossSol * portfolio.solPrice

\* deriveCircuitBreakerState: the loss of the day, and the lifecycle's state.
BreakerState(portfolio) ==
  IF \/ DailyLossReached(portfolio)
     \/ portfolio.loss > 0 /\ SolLossReached(portfolio)
    THEN "ON" ELSE portfolio.breaker

\* A rebalance releases what the position holds and commits the new amount.
AllocationDelta(request) ==
  CASE request.type = "DEPLOY" -> request.amount
    [] request.type = "REBALANCE" -> request.amount - request.released
    [] OTHER -> 0

Projected(exposure, of, from, request) ==
  LET kept == IF of \in from
                THEN AtLeast(exposure[of] - request.released, 0)
                ELSE exposure[of]
  IN kept + request.amount

PoolExposure(portfolio, request) ==
  Projected(portfolio.byPool, request.pool, request.fromPools, request)

TokenExposure(portfolio, t, request) ==
  Projected(portfolio.byToken, t, request.fromTokens, request)

Rule(name, broken) == IF broken THEN {name} ELSE {}

WriteRule(portfolio) == Rule("activeWrite", portfolio.pending >= 1)

\* A loss, a breaker or a limit on what is open.
StandingRules(portfolio, request) ==
  Rule("breaker", BreakerState(portfolio) # "OFF")
  \cup Rule("dailyLoss", DailyLossReached(portfolio))
  \cup Rule("dailyLossSol", SolLossReached(portfolio))
  \cup Rule("maxPositions", request.type = "DEPLOY"
              /\ portfolio.open >= Policy.maxConcurrentPositions)

\* What the wallet would look like afterwards.
CapitalRules(portfolio, request) ==
  LET usage == CapitalUsage(portfolio, AllocationDelta(request)) IN
  Rule("capital", ReachesPct(usage.projected, portfolio.equity,
                             Policy.maxCapitalUsagePct))
  \cup Rule("reserve", portfolio.reserved < Policy.minReserve)
  \cup Rule("balance", usage.free < 0)

\* A mutant of CountRules: one deploy too many.
CountRulesLate(request) ==
  Rule("maxRebalances", request.type = "REBALANCE"
         /\ request.rebalances >= Policy.maxRebalancesPerPosition)
  \cup Rule("maxDeploys", request.type = "DEPLOY"
              /\ request.recent > Policy.maxNewDeploysPerHour)

CountRules(request) ==
  Rule("maxRebalances", request.type = "REBALANCE"
         /\ request.rebalances >= Policy.maxRebalancesPerPosition)
  \cup Rule("maxDeploys", request.type = "DEPLOY"
              /\ request.recent >= Policy.maxNewDeploysPerHour)

ExposureRules(portfolio, request) ==
  IF request.pool = NoPool THEN {}
  ELSE Rule("pool", ReachesPct(PoolExposure(portfolio, request),
                               portfolio.equity, Policy.maxPoolExposurePct))
       \cup Rule("token", \E t \in request.tokens :
                   ReachesPct(TokenExposure(portfolio, t, request),
                              portfolio.equity, Policy.maxTokenExposurePct))

\* evaluatePortfolioRisk, as the set of the rules that block the request.
BlockingRules(portfolio, request) ==
  CASE request.type = "RECONCILE_ONLY" -> {}
    [] request.type \in {"CLAIM_FEES", "CLOSE", "PARTIAL_CLOSE"} ->
         WriteRule(portfolio)
    [] OTHER ->
         WriteRule(portfolio) \cup StandingRules(portfolio, request)
         \cup CapitalRules(portfolio, request) \cup CountRules(request)
         \cup ExposureRules(portfolio, request)

RiskAllows(portfolio, request) == BlockingRules(portfolio, request) = {}
=============================================================================
