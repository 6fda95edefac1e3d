--------------------------- MODULE ManagementRules ---------------------------
(***************************************************************************)
(* The decisions about an open position: the priority list of              *)
(* evaluateManagementAction, and the checks an AI decision on a rebalance  *)
(* has to pass.  What a position's numbers say is a set of facts:          *)
(*   severeRisk        token risk, collapsed liquidity, a forced close     *)
(*   hardExit          stop loss, holding time, range time, yield          *)
(*   retraced, stale   the trailing exit's condition; old numbers          *)
(*   needsReconciliation, incomplete                                       *)
(*   feeless, claimable, profitTarget                                      *)
(*   rangeInvalid, nearEdge, youngRange, improvement, rebalanced           *)
(***************************************************************************)
EXTENDS FiniteSets

Has(facts, some) == facts \cap some # {}

Emergency(facts, breaker) == breaker # "OFF" \/ Has(facts, {"severeRisk"})

HardExit(facts) == Has(facts, {"hardExit"})

\* The peak of a position whose numbers are old is not used.
TrailingExit(facts) == "retraced" \in facts /\ "stale" \notin facts

Unknown(facts) == Has(facts, {"needsReconciliation", "incomplete"})

\* isRangeInvalid or isNearRangeEdge; the edge counts only for a position of
\* a minimum age.
RangeTrigger(facts) ==
  \/ "rangeInvalid" \in facts
  \/ "nearEdge" \in facts /\ "youngRange" \notin facts

Rebalanceable(facts) ==
  /\ RangeTrigger(facts)
  /\ "rebalanced" \notin facts
  /\ "improvement" \in facts

Decision(type, reason) == [type |-> type, reason |-> reason]

\* Below the exits: only when the position's numbers can be relied on.
Maintenance(facts) ==
  IF "feeless" \in facts THEN Decision("CLOSE", "feeless")
  ELSE IF "claimable" \in facts THEN Decision("CLAIM_FEES", "threshold")
  ELSE IF "profitTarget" \in facts THEN Decision("PARTIAL_CLOSE", "profitTarget")
  ELSE IF Rebalanceable(facts) THEN Decision("REBALANCE", "range")
  ELSE Decision("HOLD", "none")

\* The exits only for a position whose numbers can be relied on.
CautiousFirst(facts, breaker) ==
  IF Unknown(facts) THEN Decision("RECONCILE_ONLY", "unknown")
  ELSE IF Emergency(facts, breaker) THEN Decision("CLOSE", "emergency")
  ELSE IF HardExit(facts) THEN Decision("CLOSE", "hardExit")
  ELSE IF TrailingExit(facts) THEN Decision("CLOSE", "trailing")
  ELSE Maintenance(facts)

Evaluate(facts, breaker) ==
  IF Emergency(facts, breaker) THEN Decision("CLOSE", "emergency")
  ELSE IF HardExit(facts) THEN Decision("CLOSE", "hardExit")
  ELSE IF TrailingExit(facts) THEN Decision("CLOSE", "trailing")
  ELSE IF Unknown(facts) THEN Decision("RECONCILE_ONLY", "unknown")
  ELSE Maintenance(facts)

---------------------------------------------------------------------------
(* The AI's word on a rebalance *)

AiActions == {"hold", "claim_only", "exit", "rebalance_same_pool"}
PlanFlaws == {"plan", "drift", "costs"}
Flaws == PlanFlaws \cup {"confidence", "highRisk", "count", "young", "cooldown",
                         "simulation"}

\* validateRebalancePlan: the limits of the plan, the pool and the costs, and
\* the simulations once they have been made.
PlanBlockers(flaws, simulated) ==
  flaws \cap (PlanFlaws \cup (IF simulated THEN {"simulation"} ELSE {}))

\* validateRebalanceDecision.
DecisionBlockers(decision, flaws, simulated) ==
  (flaws \cap {"confidence"})
  \cup (IF decision # "exit" THEN flaws \cap {"highRisk"} ELSE {})
  \cup (IF decision = "rebalance_same_pool"
          THEN (flaws \cap {"count", "young", "cooldown"})
               \cup PlanBlockers(flaws, simulated)
          ELSE {})

DecisionAllowed(decision, flaws, simulated) ==
  DecisionBlockers(decision, flaws, simulated) = {}

\* reviewRebalanceWithAi: without an answer in time the decision is to hold.
Reviews ==
  {[decision |-> d, flaws |-> f] :
     d \in AiActions, f \in {{}} \cup {{x} : x \in Flaws}}
  \cup {[decision |-> "hold", flaws |-> {}]}
=============================================================================
