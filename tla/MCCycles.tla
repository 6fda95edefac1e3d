------------------------------ MODULE MCCycles ------------------------------
EXTENDS Cycles

MCOrder == <<"p1", "p2">>
MCPoolOf == [p \in {"p1", "p2"} |-> "pool"]
MCTokensOf == [p \in {"p1", "p2"} |-> {"sol"}]
MCPolicy ==
  [maxConcurrentPositions |-> 2, maxNewDeploysPerHour |-> 1,
   maxRebalancesPerPosition |-> 1, minReserve |-> 1, maxCapitalUsagePct |-> 90,
   maxPoolExposurePct |-> 90, maxTokenExposurePct |-> 90,
   dailyLossLimitPct |-> 50, maxDailyLossSol |-> NoLimit]
MCFacts == {{}, {"incomplete"}, {"claimable"}, {"rangeInvalid", "improvement"}}
MCScenarios ==
  {{"fact", "hour"}, {"command"}, {"trip"}, {"loss", "restart"}, {"loss", "skip"},
   {"loss", "unsaved"}, {"loss", "fact"}, {"rise", "depart"}}

\* The day of a loss ends, and so does the hour of the last deploy.
MCNextDay == {{"loss", "hour"}}
=============================================================================
