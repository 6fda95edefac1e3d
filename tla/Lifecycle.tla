----------------------------- MODULE Lifecycle -----------------------------
(***************************************************************************)
(* The two status tables every use case goes through before it writes an   *)
(* action or a position (src/domain/stateMachines).  A table is a relation *)
(* here, so that "the transition is allowed" is membership.                *)
(***************************************************************************)

ActionStatuses ==
  {"QUEUED", "RUNNING", "WAITING_CONFIRMATION", "RECONCILING", "DONE",
   "FAILED", "ABORTED", "TIMED_OUT", "RETRY_QUEUED"}

\* The statuses a claim may pick up (PROCESSABLE_STATUSES).
ProcessableStatuses == {"QUEUED", "RETRY_QUEUED"}

\* The statuses that occupy the wallet's single write slot
\* (ACTIVE_WRITE_STATUSES).
ActiveWriteStatuses == {"RUNNING", "WAITING_CONFIRMATION", "RECONCILING"}

\* The statuses that carry a completedAt (TERMINAL_STATUSES).
TerminalStatuses == {"DONE", "FAILED", "ABORTED", "TIMED_OUT"}

ActionLifecycle ==
  {<<"QUEUED", "RUNNING">>, <<"QUEUED", "ABORTED">>,
   <<"RUNNING", "WAITING_CONFIRMATION">>, <<"RUNNING", "FAILED">>,
   <<"RUNNING", "ABORTED">>,
   <<"WAITING_CONFIRMATION", "RECONCILING">>,
   <<"WAITING_CONFIRMATION", "TIMED_OUT">>,
   <<"WAITING_CONFIRMATION", "FAILED">>,
   <<"WAITING_CONFIRMATION", "ABORTED">>,
   <<"RECONCILING", "DONE">>, <<"RECONCILING", "FAILED">>,
   <<"RECONCILING", "ABORTED">>,
   <<"FAILED", "RETRY_QUEUED">>, <<"FAILED", "ABORTED">>,
   <<"TIMED_OUT", "ABORTED">>,
   <<"RETRY_QUEUED", "RUNNING">>, <<"RETRY_QUEUED", "ABORTED">>}

CanTransitionAction(from, to) == <<from, to>> \in ActionLifecycle

-----------------------------------------------------------------------------

PositionStatuses ==
  {"DRAFT", "DEPLOY_REQUESTED", "DEPLOYING", "OPEN", "MANAGEMENT_REVIEW",
   "HOLD", "CLAIM_REQUESTED", "CLAIMING", "CLAIM_CONFIRMED",
   "PARTIAL_CLOSE_REQUESTED", "PARTIAL_CLOSING", "PARTIAL_CLOSE_CONFIRMED",
   "REBALANCE_REQUESTED", "CLOSING_FOR_REBALANCE", "CLOSE_REQUESTED",
   "CLOSING", "CLOSE_CONFIRMED", "REDEPLOY_REQUESTED", "REDEPLOYING",
   "RECONCILIATION_REQUIRED", "RECONCILING", "CLOSED", "FAILED", "ABORTED"}

PositionLifecycle ==
  LET Row(from, tos) == {<<from, to>> : to \in tos}
      Submitted(to) == {to, "RECONCILIATION_REQUIRED", "FAILED", "ABORTED"}
      Requested(to) == {to, "FAILED", "ABORTED"}
  IN  UNION {
        Row("DRAFT", {"DEPLOY_REQUESTED"}),
        Row("DEPLOY_REQUESTED", Requested("DEPLOYING")),
        Row("DEPLOYING", Submitted("OPEN")),
        Row("OPEN", {"MANAGEMENT_REVIEW"}),
        Row("MANAGEMENT_REVIEW",
            {"HOLD", "CLAIM_REQUESTED", "PARTIAL_CLOSE_REQUESTED",
             "REBALANCE_REQUESTED", "CLOSE_REQUESTED",
             "RECONCILIATION_REQUIRED"}),
        Row("HOLD", {"OPEN", "MANAGEMENT_REVIEW", "CLOSE_REQUESTED",
                     "RECONCILIATION_REQUIRED"}),
        Row("CLAIM_REQUESTED", Requested("CLAIMING")),
        Row("CLAIMING", Submitted("CLAIM_CONFIRMED")),
        Row("CLAIM_CONFIRMED", {"OPEN", "MANAGEMENT_REVIEW", "RECONCILING"}),
        Row("PARTIAL_CLOSE_REQUESTED", Requested("PARTIAL_CLOSING")),
        Row("PARTIAL_CLOSING", Submitted("PARTIAL_CLOSE_CONFIRMED")),
        Row("PARTIAL_CLOSE_CONFIRMED",
            {"OPEN", "CLOSE_REQUESTED", "RECONCILING"}),
        Row("REBALANCE_REQUESTED", Requested("CLOSING_FOR_REBALANCE")),
        Row("CLOSING_FOR_REBALANCE", Submitted("CLOSE_CONFIRMED")),
        Row("CLOSE_REQUESTED", Requested("CLOSING")),
        Row("CLOSING", Submitted("CLOSE_CONFIRMED")),
        Row("CLOSE_CONFIRMED", {"RECONCILING"}),
        Row("REDEPLOY_REQUESTED", Requested("REDEPLOYING")),
        Row("REDEPLOYING", Submitted("OPEN")),
        Row("RECONCILIATION_REQUIRED", {"RECONCILING", "FAILED", "ABORTED"}),
        Row("RECONCILING", {"OPEN", "MANAGEMENT_REVIEW", "HOLD", "CLOSED",
                            "FAILED", "ABORTED"}),
        Row("FAILED", {"RECONCILIATION_REQUIRED", "ABORTED"})}

\* canTransitionPositionStatus: CLOSED and ABORTED are never left, a close
\* that belongs to a rebalance may go on to a redeploy, and any other status
\* may be escalated to RECONCILIATION_REQUIRED.  `escalated` stands for a
\* given escalationReason, which also admits FAILED and ABORTED.
CanTransitionPosition(from, to, flow, escalated) ==
  /\ from \notin {"CLOSED", "ABORTED"}
  /\ \/ <<from, to>> \in PositionLifecycle
     \/ from = "CLOSE_CONFIRMED" /\ to = "REDEPLOY_REQUESTED" /\ flow = "rebalance"
     \/ to = "RECONCILIATION_REQUIRED"
     \/ to \in {"FAILED", "ABORTED"} /\ escalated
=============================================================================
