------------------------- MODULE RebalanceFlowProofs -------------------------
(***************************************************************************)
(* What the rebalance flow guarantees for every number of rebalances,      *)
(* failures and crashes: the four safety properties of RebalanceFlow, from *)
(* one inductive invariant.                                                *)
(***************************************************************************)
EXTENDS RebalanceFlow, TLAPS

-----------------------------------------------------------------------------
(* The inductive invariant *)

\* The steps of the reconciler that are about one action.
CloseSteps == {"closeLeg", "closeCaught", "close", "validate"}
DeploySteps == {"deploy", "answer", "named", "submitted"}
ConfirmSteps == {"pending", "markPending", "confirm", "reconciling"}
WaitingSteps == CloseSteps \cup DeploySteps \cup ConfirmSteps \cup {"timeOut"}
ReconcilingSteps == {"done", "recover", "recoverDone", "recoverEnd"}

NotClaimed == {"ABSENT", "QUEUED"}
AfterIntent == {"REDEPLOY_SUBMITTING", "REDEPLOY_SUBMITTED", "REBALANCE_COMPLETED",
                "REBALANCE_ABORTED"}
Reports == {"FAILED", "ABORTED", "WAITING_CONFIRMATION"}

\* One rebalance at a time is between its claim and its conclusion, and the
\* worker and the reconciler do not work on it together.
Turns ==
  /\ \A r, q \in Rebalances :
       action[r] \in ActiveWriteStatuses /\ action[q] \in ActiveWriteStatuses => r = q
  /\ worker.step # "idle" =>
       worker.job \in Rebalances /\ action[worker.job] = "RUNNING"
  /\ worker.step \in {"finish", "store", "mark"} => worker.outcome \in Reports
  /\ tick.step \in WaitingSteps =>
       tick.job \in Rebalances /\ action[tick.job] = "WAITING_CONFIRMATION"
  /\ tick.step \in ReconcilingSteps =>
       tick.job \in Rebalances /\ action[tick.job] = "RECONCILING"
  /\ ~booted => worker.step = "idle" /\ tick.step = "idle"

\* The phase in the store says how far the reconciler has come.
PhaseFits ==
  /\ \A r \in Rebalances :
       /\ action[r] \in NotClaimed \cup {"RUNNING"} => phase[r] = "none"
       /\ action[r] = "WAITING_CONFIRMATION" =>
            phase[r] \in {"CLOSE_SUBMITTED", "REDEPLOY_SUBMITTING", "REDEPLOY_SUBMITTED"}
       /\ action[r] = "RECONCILING" => phase[r] = "REDEPLOY_SUBMITTED"
       /\ action[r] = "DONE" => phase[r] = "REBALANCE_COMPLETED"
  /\ tick.step \in CloseSteps => phase[tick.job] = "CLOSE_SUBMITTED"
  /\ tick.step \in DeploySteps => phase[tick.job] = "REDEPLOY_SUBMITTING"
  /\ tick.step \in ConfirmSteps => phase[tick.job] = "REDEPLOY_SUBMITTED"

\* One close lands; settled amounts come from it.
CloseFits ==
  /\ \A r \in Rebalances :
       /\ action[r] \in NotClaimed => closeTx[r] = "none"
       /\ closeTx[r] = "landed" => chain[Old] = "closed"
       /\ r \in settled => closeTx[r] = "landed"
  /\ \A r, q \in Rebalances : closeTx[r] = "landed" /\ closeTx[q] = "landed" => r = q
  /\ worker.step \in {"read", "send"} => closeTx[worker.job] = "none"
  /\ chain[Old] # "absent"

\* The old position is CLOSED in the store, or was until its listed record was
\* written back.
RecordedClosed == chain[Old] = "closed" /\ (local[Old] = "CLOSED" \/ reopened)

\* CLOSED is recorded of what is closed, before any redeploy, and only a
\* listed record replaces it.
RecordFits ==
  /\ tick.step = "close" => chain[Old] = "closed"
  /\ tick.step = "closeCaught" => local[Old] # "CLOSED"
  /\ local[Old] = "CLOSED" => chain[Old] = "closed"
  /\ worker.step \in {"send", "answer", "store", "mark"} => local[Old] # "CLOSED"
  /\ tick.step = "sync" => /\ tick.write \notin {"none", "CLOSED"}
                           /\ tick.at = Old => local[Old] # "CLOSED"
  /\ tick.step = "validate" => RecordedClosed
  /\ \A r \in Rebalances : phase[r] \in AfterIntent => RecordedClosed

\* A redeploy follows its own close and its intent, and was not sent before.
DeployFits ==
  /\ \A r \in Rebalances :
       /\ redeploys[r] = 0 => deployTx[r] = "none"
       /\ redeploys[r] # 0 => closeTx[r] = "landed" /\ phase[r] \in AfterIntent
       /\ deployTx[r] = "landed" <=> chain[r] # "absent"
       /\ r \in known => deployTx[r] = "landed"
  /\ tick.step = "deploy" => redeploys[tick.job] = 0 /\ closeTx[tick.job] = "landed"

\* A redeploy that may be on the chain is in the store, or was misreported.
Traced(r) ==
  \/ local[r] # "none"
  \/ /\ phase[r] \in {"REDEPLOY_SUBMITTING", "REDEPLOY_SUBMITTED"}
     /\ action[r] \in {"WAITING_CONFIRMATION", "TIMED_OUT"}

OutcomeFits ==
  /\ \A r \in Rebalances :
       /\ deployTx[r] \in {"sent", "landed"} /\ r \notin misreported => Traced(r)
       /\ action[r] \in {"RECONCILING", "DONE"} => local[r] # "none" /\ chain[r] # "absent"
       /\ phase[r] = "REBALANCE_ABORTED" /\ r \notin misreported =>
            deployTx[r] \in {"none", "dropped"}
  /\ tick.step = "reconciling" => local[tick.job] # "none" /\ chain[tick.job] # "absent"

Facts == Turns /\ PhaseFits /\ CloseFits /\ RecordFits /\ DeployFits /\ OutcomeFits

IInv == TypeOK /\ Facts

-----------------------------------------------------------------------------
(* Where the steps that build a new record leave the two tasks *)

\* All that a step of the reconciler which only chooses its next step leaves.
Others == <<action, payload, local, chainVars, booted, known, worker, management,
            observers, faults, crashes>>

\* Read goes on only with a position that may be rebalanced.
LEMMA ReadOutcome ==
  ASSUME WorkerTyped, Read
  PROVE  \/ worker' = [worker EXCEPT !.step = "send"] /\ local[Old] # "CLOSED"
         \/ \E s \in {"FAILED", "ABORTED"} :
              worker' = [step |-> "finish", job |-> worker.job, outcome |-> s,
                         unsure |-> FALSE]
BY DEF WorkerTyped, Read, GoOn, Report, RebalanceRequestable

\* A tick takes up a waiting rebalance at its phase, or none.
LEMMA BeginTickTask ==
  ASSUME TickTyped, PhaseFits, BeginTick
  PROVE  /\ TickTyped'
         /\ \/ \E q \in Rebalances :
                 /\ action[q] = "WAITING_CONFIRMATION" /\ tick'.job = q
                 /\ \/ phase[q] = "CLOSE_SUBMITTED" /\ tick'.step = "closeLeg"
                    \/ phase[q] = "REDEPLOY_SUBMITTING" /\ tick'.step = "timeOut"
                    \/ phase[q] = "REDEPLOY_SUBMITTED" /\ tick'.step = "confirm"
            \/ tick'.step = "resume"
         /\ booted /\ UNCHANGED Others
<1>1. booted /\ UNCHANGED Others
  BY DEF BeginTick, TickKeeps, NothingSent, Others, payload, chainVars, management, observers
<1>2. CASE tick' = [Rest EXCEPT !.step = "resume"]
  BY <1>1, <1>2 DEF TickTyped, Rest, TickSteps, Stored
<1>3. ASSUME NEW q \in Rebalances, action[q] = "WAITING_CONFIRMATION",
             NEW step \in {"closeLeg", "timeOut", "confirm"},
             tick' = [Rest EXCEPT !.job = q, !.step = step]
      PROVE  TickTyped' /\ tick'.job = q /\ tick'.step = step
  BY <1>3 DEF TickTyped, Rest, TickSteps, Stored
<1> QED
  BY <1>1, <1>2, <1>3 DEF BeginTick, PhaseFits

\* An interrupted finalization is taken up again, or none.
LEMMA ResumeTask ==
  ASSUME TickTyped, Resume
  PROVE  /\ TickTyped'
         /\ \/ /\ tick'.step = "recover"
               /\ tick'.job \in Rebalances /\ action[tick'.job] = "RECONCILING"
            \/ tick'.step = "list"
         /\ tick.step # "idle" /\ UNCHANGED Others
BY DEF TickTyped, Resume, Rest, TickSteps, Stored, TickKeeps, NothingSent, Others,
       payload, chainVars, management, observers

\* After its write the comparison goes on, or the tick ends.
LEMMA SyncTask ==
  ASSUME TickTyped, Sync
  PROVE  TickTyped' /\ tick'.step \in {"look", "idle"} /\ tick.write \in Stored
<1>1. CASE tick' = [tick EXCEPT !.step = "look", !.tracked = @ \ {tick.at},
                                !.at = "none", !.write = "none"]
  BY <1>1 DEF TickTyped, TickSteps, Stored
<1>2. CASE tick' = Rest
  BY <1>2 DEF TickTyped, Rest, TickSteps, Stored
<1> QED
  BY <1>1, <1>2 DEF Sync

\* A write that is planned makes nothing of a CLOSED position.
LEMMA LookTask ==
  ASSUME TickTyped, NEW i \in Ids, local[i] \in Stored, Look(i)
  PROVE  /\ TickTyped'
         /\ \/ tick'.step = "look"
            \/ /\ tick'.step = "sync" /\ tick'.write \notin {"none", "CLOSED"}
               /\ tick'.at = Old => local[Old] # "CLOSED"
         /\ tick.step # "idle" /\ UNCHANGED Others
<1> USE DEF TickKeeps, NothingSent, Others, payload, chainVars, management, observers
<1>1. CASE Compared(local[i], i \in tick.shown) = {}
  BY <1>1 DEF Look, TickTyped
<1>2. CASE Compared(local[i], i \in tick.shown) # {}
  <2>1. PICK s \in Compared(local[i], i \in tick.shown) :
          tick' = [tick EXCEPT !.step = "sync", !.at = i, !.write = s]
    BY <1>2 DEF Look
  <2>2. s \in Stored \ {"none", "CLOSED"} /\ local[i] # "CLOSED"
    BY <2>1 DEF Compared, Syncable, Stored
  <2> QED
    BY <2>1, <2>2 DEF TickTyped, TickSteps, Look
<1> QED
  BY <1>1, <1>2

-----------------------------------------------------------------------------
(* Every step keeps the invariant *)

\* finalizeRebalance, one case for each of its writes.
LEMMA FinalizeKeepsInv ==
  ASSUME IInv, Finalize
  PROVE  IInv'
<1> USE OldIsNoSuccessor, BoundsAreNatural
    DEF IInv, Facts, TypeOK, Turns, PhaseFits, CloseFits, RecordFits,
         DeployFits, OutcomeFits, Traced, RecordedClosed, CloseSteps, DeploySteps, ConfirmSteps,
         WaitingSteps, ReconcilingSteps, NotClaimed, AfterIntent, Reports,
         ActiveWriteStatuses, ActionStatuses, Phases, Stored, TxStates, Ids,
         payload, chainVars, management, observers,
         TickKeeps, NothingSent, To, SetAction, Put, Fault, NoFault, TickTyped,
         WorkerTyped, TickSteps
<1>1. CASE CloseLeg
  BY <1>1 DEF CloseLeg, MarkOld, UpdateAction, UpdatePosition, Skip, CloseIsConfirmed, Seen
<1>2. CASE Close
  BY <1>2 DEF Close, UpdatePosition
<1>3. CASE RejectTarget
  BY <1>3 DEF RejectTarget, Abort, UpdateAction
<1>4. CASE BreakerStops
  BY <1>4 DEF BreakerStops, Abort, UpdateAction
<1>5. CASE SimulationStops
  BY <1>5 DEF SimulationStops, Abort, UpdateAction
<1>6. CASE Intent
  BY <1>6 DEF Intent, Settled, UpdateAction
<1>7. CASE SendDeploy
  BY <1>7 DEF SendDeploy, Skip
<1>8. CASE DeployFails
  BY <1>8 DEF DeployFails, Abort, UpdateAction
<1>9. CASE DeploySucceeds
  BY <1>9 DEF DeploySucceeds, Skip
<1>10. CASE DeployIsAmbiguous
  BY <1>10 DEF DeployIsAmbiguous, UpdatePosition
<1>11. CASE Named
  BY <1>11 DEF Named, UpdateAction
<1>12. CASE Submitted
  BY <1>12 DEF Submitted, UpdateAction
<1>13. CASE Pending
  BY <1>13 DEF Pending, UpdatePosition
<1>14. CASE MarkPending
  BY <1>14 DEF MarkPending, UpdatePosition
<1>15. CASE TimeOut
  BY <1>15 DEF TimeOut, UpdateAction
<1>16. CASE ConfirmOpen
  BY <1>16 DEF ConfirmOpen, Seen, SameIdentity, OtherIdentity, UpdatePosition
<1>17. CASE ConfirmLost
  BY <1>17 DEF ConfirmLost, Seen, SameIdentity, OtherIdentity, UpdatePosition
<1>18. CASE ConfirmMarked
  BY <1>18 DEF ConfirmMarked, Seen, SameIdentity, OtherIdentity, UpdatePosition
<1>19. CASE ConfirmRedeploying
  BY <1>19 DEF ConfirmRedeploying, Seen, SameIdentity, OtherIdentity, UpdatePosition
<1>20. CASE NotConfirmed
  BY <1>20 DEF NotConfirmed, OtherIdentity, Seen, Skip,
               UpdatePosition
<1>21. CASE Reconciling
  BY <1>21 DEF Reconciling, UpdateAction
<1>22. CASE Done
  BY <1>22 DEF Done, UpdateAction
<1>23. CASE CloseCaught
  BY <1>23 DEF CloseCaught, MarkOld, UpdatePosition, Skip
<1>24. CASE ReadFails
  BY <1>24 DEF ReadFails
<1> QED
  BY <1>1, <1>2, <1>3, <1>4, <1>5, <1>6, <1>7, <1>8, <1>9, <1>10,
     <1>11, <1>12, <1>13, <1>14, <1>15, <1>16, <1>17, <1>18, <1>19, <1>20,
     <1>21, <1>22, <1>23, <1>24 DEF Finalize

\* The queue's handler: the reconciler has no rebalance in hand meanwhile.
LEMMA HandlerKeepsInv ==
  ASSUME IInv, Handle
  PROVE  IInv'
<1> USE OldIsNoSuccessor, BoundsAreNatural
    DEF IInv, Facts, TypeOK, Turns, PhaseFits, CloseFits, RecordFits,
         DeployFits, OutcomeFits, Traced, RecordedClosed, CloseSteps, DeploySteps, ConfirmSteps,
         WaitingSteps, ReconcilingSteps, NotClaimed, AfterIntent, Reports,
         ActiveWriteStatuses, ActionStatuses, Phases, Stored, TxStates, Ids,
         payload, chainVars, management, observers,
         WorkerKeeps, GoOn, Put, Fault, NoFault, WorkerTyped, TickTyped,
         WorkerSteps
<1>1. CASE Read
  <2>1. \/ worker' = [worker EXCEPT !.step = "send"] /\ local[Old] # "CLOSED"
        \/ \E s \in {"FAILED", "ABORTED"} :
             worker' = [step |-> "finish", job |-> worker.job, outcome |-> s,
                        unsure |-> FALSE]
    BY <1>1, ReadOutcome
  <2>2. CASE worker' = [worker EXCEPT !.step = "send"] /\ local[Old] # "CLOSED"
    BY <1>1, <2>2 DEF Read
  <2>3. CASE \E s \in {"FAILED", "ABORTED"} :
               worker' = [step |-> "finish", job |-> worker.job, outcome |-> s,
                          unsure |-> FALSE]
    BY <1>1, <2>3 DEF Read
  <2> QED
    BY <2>1, <2>2, <2>3
<1>2. CASE Refuse
  <2>1. worker' = [step |-> "finish", job |-> worker.job, outcome |-> "FAILED",
                  unsure |-> FALSE]
    BY <1>2 DEF Refuse, Report
  <2> QED
    BY <1>2, <2>1 DEF Refuse
<1>3. CASE Send
  BY <1>3 DEF Send
<1>4. CASE Succeed
  <2>1. worker' = [step |-> "store", job |-> worker.job, outcome |-> "WAITING_CONFIRMATION",
                  unsure |-> FALSE]
    BY <1>4 DEF Succeed, Report
  <2> QED
    BY <1>4, <2>1 DEF Succeed
<1>5. CASE Ambiguous
  <2>1. worker' = [step |-> "mark", job |-> worker.job, outcome |-> "WAITING_CONFIRMATION",
                  unsure |-> TRUE]
    BY <1>5 DEF Ambiguous, Report
  <2> QED
    BY <1>5, <2>1 DEF Ambiguous
<1>6. CASE Fail
  <2>1. worker' = [step |-> "finish", job |-> worker.job, outcome |-> "FAILED",
                  unsure |-> FALSE]
    BY <1>6 DEF Fail, Report
  <2> QED
    BY <1>6, <2>1 DEF Fail
<1>7. CASE Store
  BY <1>7 DEF Store
<1>8. CASE Mark
  BY <1>8 DEF Mark
<1>9. CASE Finish
  BY <1>9 DEF Finish, SetAction, Idle
<1> QED
  BY <1>1, <1>2, <1>3, <1>4, <1>5, <1>6, <1>7, <1>8, <1>9 DEF Handle

\* Interrupted finalizations, and the comparison with the wallet's snapshot.
LEMMA SnapshotKeepsInv ==
  ASSUME IInv, Reconcile
  PROVE  IInv'
<1> USE OldIsNoSuccessor, BoundsAreNatural
    DEF IInv, Facts, TypeOK, Turns, PhaseFits, CloseFits, RecordFits,
         DeployFits, OutcomeFits, Traced, RecordedClosed, CloseSteps, DeploySteps, ConfirmSteps,
         WaitingSteps, ReconcilingSteps, NotClaimed, AfterIntent, Reports,
         ActiveWriteStatuses, ActionStatuses, Phases, Stored, TxStates, Ids,
         payload, chainVars, management, observers,
         TickKeeps, NothingSent, To, SetAction, Put, Fault, NoFault, WorkerTyped,
         TickSteps
<1>1. CASE Finalize
  BY <1>1, FinalizeKeepsInv
<1>2. CASE Resume
  <2>1. /\ TickTyped'
        /\ \/ /\ tick'.step = "recover"
              /\ tick'.job \in Rebalances /\ action[tick'.job] = "RECONCILING"
           \/ tick'.step = "list"
        /\ tick.step # "idle" /\ UNCHANGED Others
    BY <1>2, ResumeTask
  <2>2. TypeOK'
    BY <2>1 DEF Others
  <2>3. Facts'
    BY <2>1 DEF Others
  <2> QED
    BY <2>2, <2>3
<1>3. CASE Recover
  BY <1>3 DEF TickTyped, Recover, Seen, Skip, UpdatePosition
<1>4. CASE RecoverDone
  BY <1>4 DEF TickTyped, RecoverDone, UpdateAction
<1>5. CASE RecoverEnd
  BY <1>5 DEF TickTyped, RecoverEnd, UpdateAction
<1>6. CASE List
  <2>1. TickTyped' /\ tick'.step = "snapshot"
    BY <1>6 DEF List, Rest, TickTyped
  <2> QED
    BY <1>6, <2>1 DEF List
<1>7. CASE Snapshot
  <2>1. TickTyped' /\ tick'.step = "look"
    BY <1>7 DEF Snapshot, TickTyped
  <2> QED
    BY <1>7, <2>1 DEF Snapshot
<1>8. CASE Sync
  <2>1. TickTyped' /\ tick'.step \in {"look", "idle"} /\ tick.write \in Stored
    BY <1>8, SyncTask
  <2> QED
    BY <1>8, <2>1 DEF Sync
<1>9. CASE EndTick
  BY <1>9 DEF TickTyped, EndTick, Rest
<1>10. CASE \E i \in Ids : Look(i)
  <2>1. PICK i \in Ids : Look(i)
    BY <1>10
  <2>2. /\ TickTyped'
        /\ \/ tick'.step = "look"
           \/ /\ tick'.step = "sync" /\ tick'.write \notin {"none", "CLOSED"}
              /\ tick'.at = Old => local[Old] # "CLOSED"
        /\ tick.step # "idle" /\ UNCHANGED Others
    BY <2>1, LookTask
  <2>3. TypeOK'
    BY <2>2 DEF Others
  <2>4. Facts'
    BY <2>2 DEF Others
  <2> QED
    BY <2>3, <2>4
<1> QED
  BY <1>1, <1>2, <1>3, <1>4, <1>5, <1>6, <1>7, <1>8, <1>9, <1>10 DEF Reconcile

\* What happens on the chain.
LEMMA ChainKeepsInv ==
  ASSUME IInv, NEW r \in Rebalances,
         LandClose(r) \/ LandDeploy(r) \/ Depart(r) \/ DropClose(r) \/ DropDeploy(r)
  PROVE  IInv'
<1> USE OldIsNoSuccessor, BoundsAreNatural
    DEF IInv, Facts, TypeOK, Turns, PhaseFits, CloseFits, RecordFits,
         DeployFits, OutcomeFits, Traced, RecordedClosed, CloseSteps, DeploySteps, ConfirmSteps,
         WaitingSteps, ReconcilingSteps, NotClaimed, AfterIntent, Reports,
         ActiveWriteStatuses, ActionStatuses, Phases, Stored, TxStates, Ids,
         payload, chainVars, management, observers,
         ChainKeeps, WorkerTyped, TickTyped
<1>1. CASE LandClose(r)
  BY <1>1 DEF LandClose
<1>2. CASE LandDeploy(r)
  BY <1>2 DEF LandDeploy
<1>3. CASE DropClose(r)
  BY <1>3 DEF DropClose
<1>4. CASE DropDeploy(r)
  BY <1>4 DEF DropDeploy
<1>5. CASE Depart(r)
  BY <1>5 DEF Depart
<1> QED
  BY <1>1, <1>2, <1>3, <1>4, <1>5

\* Requests, claims, and the result made up for an interrupted rebalance.
LEMMA ActionKeepsInv ==
  ASSUME IInv, NEW r \in Rebalances, Request(r) \/ Claim(r) \/ RecoverStale(r)
  PROVE  IInv'
<1> USE OldIsNoSuccessor, BoundsAreNatural
    DEF IInv, Facts, TypeOK, Turns, PhaseFits, CloseFits, RecordFits,
         DeployFits, OutcomeFits, Traced, RecordedClosed, CloseSteps, DeploySteps, ConfirmSteps,
         WaitingSteps, ReconcilingSteps, NotClaimed, AfterIntent, Reports,
         ActiveWriteStatuses, ActionStatuses, Phases, Stored, TxStates, Ids,
         payload, chainVars, management, observers,
         SetAction
<1>1. CASE Request(r)
  BY <1>1 DEF Request, WorkerKeeps, WorkerTyped, TickTyped
<1>2. CASE Claim(r)
  <2>1. WorkerTyped' /\ TickTyped' /\ worker'.step = "read" /\ worker'.job = r
    BY <1>2 DEF Claim, WorkerKeeps, Idle, WorkerTyped, TickTyped, WorkerSteps
  <2>2. TypeOK'
    BY <1>2, <2>1 DEF Claim, WorkerKeeps
  <2>3. Facts'
    BY <1>2, <2>1 DEF Claim, WorkerKeeps
  <2> QED
    BY <2>2, <2>3
<1>3. CASE RecoverStale(r)
  BY <1>3 DEF RecoverStale, WorkerTyped, TickTyped
<1> QED
  BY <1>1, <1>2, <1>3

\* The management tick: what it writes back is a record of an open position.
LEMMA ManageKeepsInv ==
  ASSUME IInv, Manage
  PROVE  IInv'
<1> USE OldIsNoSuccessor, BoundsAreNatural
    DEF IInv, Facts, TypeOK, Turns, PhaseFits, CloseFits, RecordFits,
         DeployFits, OutcomeFits, Traced, RecordedClosed, CloseSteps, DeploySteps,
         ConfirmSteps, WaitingSteps, ReconcilingSteps, NotClaimed, AfterIntent, Reports,
         ActiveWriteStatuses, ActionStatuses, Phases, Stored, TxStates, Ids,
         payload, chainVars, management, observers,
         ManagementOnly, Put, WorkerTyped, TickTyped
<1>1. CASE ListManaged
  BY <1>1 DEF ListManaged
<1>2. CASE LetGo
  BY <1>2 DEF LetGo
<1>3. ASSUME NEW i \in Ids, RefreshPeak(i)
      PROVE  IInv'
  <2>1. /\ local' = [local EXCEPT ![i] = "OPEN"] /\ local' \in [Ids -> Stored]
        /\ managed' \subseteq Ids /\ reopened' \in BOOLEAN
        /\ reopened => reopened'
        /\ local[Old] = "CLOSED" => local'[Old] = "CLOSED" \/ reopened'
        /\ UNCHANGED <<action, phase, ambiguous, settled, chain, closeTx, deployTx, booted,
                       known, worker, tick, peaks, redeploys, misreported, faults, crashes>>
    BY <1>3 DEF RefreshPeak
  <2>2. TypeOK'
    BY <2>1
  <2>3. RecordFits'
    BY <2>1
  <2>4. (Turns /\ PhaseFits /\ CloseFits /\ DeployFits)'
    BY <2>1
  <2>5. OutcomeFits'
    BY <2>1
  <2> QED
    BY <2>2, <2>3, <2>4, <2>5
<1> QED
  BY <1>1, <1>2, <1>3 DEF Manage

\* The timer, crashes and restarts.
LEMMA ProcessKeepsInv ==
  ASSUME IInv, BeginTick \/ Crash \/ Boot
  PROVE  IInv'
<1> USE OldIsNoSuccessor, BoundsAreNatural
    DEF IInv, Facts, TypeOK, Turns, PhaseFits, CloseFits, RecordFits,
         DeployFits, OutcomeFits, Traced, RecordedClosed, CloseSteps, DeploySteps, ConfirmSteps,
         WaitingSteps, ReconcilingSteps, NotClaimed, AfterIntent, Reports,
         ActiveWriteStatuses, ActionStatuses, Phases, Stored, TxStates, Ids,
         payload, chainVars, management, observers,
         SetAction
<1>1. CASE BeginTick
  <2>1. /\ TickTyped'
        /\ \/ \E q \in Rebalances :
                /\ action[q] = "WAITING_CONFIRMATION" /\ tick'.job = q
                /\ \/ phase[q] = "CLOSE_SUBMITTED" /\ tick'.step = "closeLeg"
                   \/ phase[q] = "REDEPLOY_SUBMITTING" /\ tick'.step = "timeOut"
                   \/ phase[q] = "REDEPLOY_SUBMITTED" /\ tick'.step = "confirm"
           \/ tick'.step = "resume"
        /\ booted /\ UNCHANGED Others
    BY <1>1, BeginTickTask
  <2>2. TypeOK'
    BY <2>1 DEF Others, WorkerTyped
  <2>3. Facts'
    BY <2>1 DEF Others
  <2> QED
    BY <2>2, <2>3
<1>2. CASE Crash
  <2>1. WorkerTyped' /\ TickTyped' /\ worker'.step = "idle" /\ tick'.step = "idle"
    BY <1>2 DEF Crash, Idle, Rest, WorkerTyped, TickTyped, WorkerSteps, TickSteps
  <2>2. booted' = FALSE /\ known' = {} /\ managed' = {} /\ crashes' \in 0..MaxCrashes
        /\ UNCHANGED <<action, phase, ambiguous, settled, local, chain, closeTx,
                       deployTx, reopened, peaks, redeploys, misreported, faults>>
    BY <1>2 DEF Crash
  <2>3. TypeOK'
    BY <2>1, <2>2
  <2>4. Facts'
    BY <2>1, <2>2
  <2> QED
    BY <2>3, <2>4
<1>3. CASE Boot
  BY <1>3 DEF Boot, WorkerTyped, TickTyped
<1> QED
  BY <1>1, <1>2, <1>3

\* Nothing is changed by a step in which the flow does not move.
LEMMA StutterKeepsInv ==
  ASSUME IInv, UNCHANGED vars
  PROVE  IInv'
BY DEF IInv, Facts, TypeOK, Turns, PhaseFits, CloseFits, RecordFits, DeployFits,
       OutcomeFits, Traced, RecordedClosed, WorkerTyped, TickTyped, vars, payload,
       chainVars, management, observers

LEMMA NextKeepsInv ==
  ASSUME IInv, [Next]_vars
  PROVE  IInv'
<1>1. ASSUME NEW r \in Rebalances, Request(r) \/ Claim(r) \/ RecoverStale(r)
      PROVE  IInv'
  BY <1>1, ActionKeepsInv
<1>2. ASSUME NEW r \in Rebalances,
             LandClose(r) \/ LandDeploy(r) \/ Depart(r) \/ DropClose(r) \/ DropDeploy(r)
      PROVE  IInv'
  BY <1>2, ChainKeepsInv
<1>3. CASE Handle
  BY <1>3, HandlerKeepsInv
<1>4. CASE Reconcile
  BY <1>4, SnapshotKeepsInv
<1>5. CASE BeginTick \/ Crash \/ Boot
  BY <1>5, ProcessKeepsInv
<1>6. CASE Manage
  BY <1>6, ManageKeepsInv
<1>7. CASE UNCHANGED vars
  BY <1>7, StutterKeepsInv
<1> QED
  BY <1>1, <1>2, <1>3, <1>4, <1>5, <1>6, <1>7 DEF Next

LEMMA InitHasInv ==
  ASSUME Init
  PROVE  IInv
<1> USE OldIsNoSuccessor, BoundsAreNatural DEF Init, Ids
<1>1. TypeOK
  <2>1. WorkerTyped /\ TickTyped
    BY DEF WorkerTyped, TickTyped, WorkerSteps, TickSteps, Stored, ActionStatuses, Idle, Rest
  <2>2. /\ action \in [Rebalances -> ActionStatuses \cup {"ABSENT"}]
        /\ phase \in [Rebalances -> Phases] /\ local \in [Ids -> Stored]
        /\ chain \in [Ids -> {"absent", "open", "closed"}]
        /\ closeTx \in [Rebalances -> TxStates] /\ deployTx \in [Rebalances -> TxStates]
    BY DEF Phases, Stored, TxStates
  <2>3. /\ redeploys \in [Rebalances -> Nat]
        /\ peaks \in 0..MaxPeaks /\ faults \in 0..MaxFaults /\ crashes \in 0..MaxCrashes
    OBVIOUS
  <2>4. /\ ambiguous \subseteq Rebalances /\ settled \subseteq Rebalances
        /\ misreported \subseteq Rebalances /\ managed \subseteq Ids /\ known \subseteq Ids
        /\ booted \in BOOLEAN /\ reopened \in BOOLEAN
    OBVIOUS
  <2> QED
    BY <2>1, <2>2, <2>3, <2>4 DEF TypeOK
<1>2. Facts
  BY DEF Facts, Turns, PhaseFits, CloseFits, RecordFits, DeployFits, OutcomeFits,
         Traced, RecordedClosed, Idle, Rest, CloseSteps, DeploySteps, ConfirmSteps, WaitingSteps,
         ReconcilingSteps, NotClaimed, AfterIntent, Reports, ActiveWriteStatuses
<1> QED
  BY <1>1, <1>2 DEF IInv

-----------------------------------------------------------------------------
(* What holds of every rebalance *)

\* IInv holds of every reachable state.
LEMMA InvHolds == Spec => []IInv
<1>1. Init => IInv
  BY InitHasInv
<1>2. IInv /\ [Next]_vars => IInv'
  BY NextKeepsInv
<1> QED
  BY <1>1, <1>2, PTL DEF Spec

\* The stores, the chain and the two tasks keep to their types.
THEOREM RebalanceTypes == Spec => []TypeOK
<1>1. IInv => TypeOK
  BY DEF IInv
<1> QED
  BY <1>1, InvHolds, PTL

\* A successor that is open on the chain can be found from the store, unless
\* the gateway called a deploy failed that it had sent.
THEOREM SuccessorsAreTraceable == Spec => []SuccessorIsTraceable
<1>1. IInv => SuccessorIsTraceable
  BY DEF IInv, Facts, DeployFits, OutcomeFits, Traced, SuccessorIsTraceable
<1> QED
  BY <1>1, InvHolds, PTL

\* A stored outcome, DONE or aborted, tells where the capital is; of the old
\* position's record it tells this as long as the management tick has written
\* back no older one.
THEOREM OutcomesTellWhereCapitalIs == Spec => []OutcomeTellsWhereCapitalIs
<1>1. IInv => OutcomeTellsWhereCapitalIs
  <2> SUFFICES ASSUME IInv, NEW r \in Rebalances
               PROVE  /\ action[r] = "DONE" =>
                           /\ chain[Old] = "closed" /\ (local[Old] = "CLOSED" \/ reopened)
                           /\ chain[r] # "absent" /\ local[r] # "none"
                      /\ phase[r] = "REBALANCE_ABORTED" =>
                           /\ chain[Old] = "closed"
                           /\ \/ r \in misreported
                              \/ chain[r] = "absent" /\ deployTx[r] # "sent"
    BY DEF OutcomeTellsWhereCapitalIs
  <2> QED
    BY DEF IInv, Facts, PhaseFits, RecordFits, RecordedClosed, DeployFits, OutcomeFits,
           AfterIntent
<1> QED
  BY <1>1, InvHolds, PTL

-----------------------------------------------------------------------------
(* The rebalances implement Relocation *)

\* The chain takes no position back, and only LandClose releases the capital.
LEMMA ReleaseStep ==
  ASSUME IInv, NEW r \in Rebalances, LandClose(r)
  PROVE  Capital!Release
BY DEF LandClose, ChainKeeps, Capital!Release, IInv, TypeOK, Ids, observers

\* deployLiquidity is called when the capital is released, and for the first
\* time: an earlier call was for the rebalance whose close landed, this one.
LEMMA SendOnStep ==
  ASSUME IInv, SendDeploy
  PROVE  Capital!SendOn(tick.job)
<1>1. tick.job \in Rebalances /\ closeTx[tick.job] = "landed" /\ redeploys[tick.job] = 0
  BY DEF SendDeploy, IInv, Facts, Turns, DeployFits, WaitingSteps, DeploySteps
<1>2. chain[Old] = "closed"
  BY <1>1 DEF IInv, Facts, CloseFits
<1>3. \A t \in Rebalances : redeploys[t] = 0
  BY <1>1 DEF IInv, Facts, CloseFits, DeployFits
<1> QED
  BY <1>1, <1>2, <1>3 DEF SendDeploy, Capital!SendOn, TickKeeps

\* The redeployed capital is what the close released, sent on at most once.
THEOREM CapitalMovesOnce == Spec => MovesCapitalOnce
<1>1. Init => Capital!Init
  BY DEF Init, Capital!Init, Ids
<1>2. ASSUME IInv, [Next]_vars
      PROVE  [Capital!Next]_<<chain[Old] = "closed", redeploys>>
  <2>1. CASE \E r \in Rebalances : LandClose(r)
    BY <1>2, <2>1, ReleaseStep DEF Capital!Next
  <2>2. CASE SendDeploy
    <3>1. tick.job \in Rebalances
      BY <1>2, <2>2 DEF SendDeploy, IInv, Facts, Turns, WaitingSteps, DeploySteps
    <3> QED
      BY <1>2, <2>2, <3>1, SendOnStep DEF Capital!Next
  <2>3. CASE ~SendDeploy /\ ~\E r \in Rebalances : LandClose(r)
    <3>1. UNCHANGED <<chain[Old], redeploys>>
      <4>1. CASE Finalize
        BY <2>3, <4>1 DEF Finalize, TickKeeps, NothingSent, observers,
           CloseLeg, CloseCaught, ReadFails, Close, RejectTarget, BreakerStops, SimulationStops, Intent,
           DeployFails, DeploySucceeds, DeployIsAmbiguous, Named, Submitted, Pending,
           MarkPending, TimeOut, ConfirmOpen, ConfirmLost, ConfirmMarked,
           ConfirmRedeploying, NotConfirmed, Reconciling, Done
      <4>2. CASE Reconcile /\ ~Finalize
        BY <4>2 DEF Reconcile, TickKeeps, NothingSent, observers, Resume, Recover,
           RecoverDone, RecoverEnd, List, Snapshot, Sync, EndTick, Look
      <4>3. CASE Handle
        BY <4>3 DEF Handle, WorkerKeeps, observers, Read, Refuse, Send, Succeed,
           Ambiguous, Fail, Store, Mark, Finish
      <4>4. ASSUME NEW r \in Rebalances, LandDeploy(r) \/ Depart(r)
            PROVE  UNCHANGED <<chain[Old], redeploys>>
        BY <1>2, <4>4, OldIsNoSuccessor DEF LandDeploy, Depart, ChainKeeps, observers, IInv, TypeOK, Ids
      <4>5. ASSUME NEW r \in Rebalances,
                   Request(r) \/ Claim(r) \/ RecoverStale(r) \/ DropClose(r) \/ DropDeploy(r)
            PROVE  UNCHANGED <<chain[Old], redeploys>>
        BY <4>5 DEF Request, Claim, RecoverStale, DropClose, DropDeploy, WorkerKeeps,
           ChainKeeps, chainVars, observers
      <4>6. CASE BeginTick \/ Crash \/ Boot \/ UNCHANGED vars
        BY <4>6 DEF BeginTick, Crash, Boot, vars, TickKeeps, NothingSent, chainVars,
           observers
      <4>7. CASE Manage
        BY <4>7 DEF Manage, ListManaged, RefreshPeak, LetGo, ManagementOnly, chainVars,
           observers
      <4> QED
        BY <1>2, <2>3, <4>1, <4>2, <4>3, <4>4, <4>5, <4>6, <4>7 DEF Next
    <3> QED
      BY <3>1
  <2> QED
    BY <2>1, <2>2, <2>3
<1> QED
  BY <1>1, <1>2, InvHolds, PTL DEF Spec, MovesCapitalOnce, Capital!Spec
=============================================================================
