---------------------------- MODULE RebalanceFlow ----------------------------
(***************************************************************************)
(* The rebalance of a position: its close on the chain, its record, and    *)
(* the deploy of a successor with what was released.  processRebalance-    *)
(* Action sends the close; the reconciler (reconcilePortfolio with         *)
(* finalizeRebalance) does the rest, the deploy included, and finds its    *)
(* place again by the phase in the action's result.                        *)
(*                                                                         *)
(* Locks and the fence between the queue and the reconciler are those of   *)
(* PositionFlow: no handler runs while an action waits, so a finalizer's   *)
(* reads and its first write are one step.  The management tick writes as  *)
(* it does there, the records that it has listed as OPEN, the old          *)
(* position's and the successor's.  Journal and lessons are best-effort    *)
(* and left out.                                                           *)
(***************************************************************************)
EXTENDS Naturals, FiniteSets, Lifecycle

CONSTANTS
  Rebalances,   \* the actions; each names the position it would open
  Old,          \* the position they move
  NoAction,
  MaxFaults,    \* bound: calls of the store and reads of the gateway that fail
  MaxCrashes,   \* bound: crashes of the process
  MaxPeaks,     \* bound: management ticks that find a new peak
  MaxEvents     \* bound: all of these together

ASSUME OldIsNoSuccessor == Old \notin Rebalances
ASSUME NoActionIsNoAction == NoAction \notin Rebalances
ASSUME BoundsAreNatural == MaxFaults \in Nat /\ MaxCrashes \in Nat /\ MaxPeaks \in Nat

Ids == Rebalances \cup {Old}

VARIABLES
  (* the stores, which survive a crash *)
  action,      \* action[r]: its status, "ABSENT" before it is stored
  phase,       \* phase[r]: the phase in its result, "none" without result
  ambiguous,   \* the rebalances whose close says submissionAmbiguous
  settled,     \* those whose close carries the settled token amounts
  local,       \* local[i]: the status of the stored position, or "none"
  (* the chain *)
  chain,       \* chain[i]: "absent", "open", "closed"
  closeTx,     \* closeTx[r], deployTx[r]: "none", "sent", "landed" or
  deployTx,    \*   "dropped"
  (* the process *)
  booted,
  known,       \* the gateway's recentDeploys
  worker,      \* the queue's task: its step, action and report
  tick,        \* the reconciler's task: its step, its action, the positions
               \* left to compare, those the snapshot shows, and the write
  managed,     \* the positions whose listed records the management tick is
               \* yet to write back with a new peak
  (* observers *)
  redeploys,   \* redeploys[r]: how often deployLiquidity sent for r
  misreported, \* those for which it then threw although the deploy may land
  reopened,    \* a record written back has replaced a CLOSED one of Old
  peaks, faults, crashes

payload == <<phase, ambiguous, settled>>
chainVars == <<chain, closeTx, deployTx>>
management == <<managed, reopened, peaks>>
observers == <<redeploys, misreported>>
vars == <<action, payload, local, chainVars, booted, known, worker, tick,
          management, observers, faults, crashes>>

Idle == [step |-> "idle", job |-> NoAction, outcome |-> "none", unsure |-> FALSE]
Rest == [step |-> "idle", job |-> NoAction, tracked |-> {}, shown |-> {},
         at |-> "none", write |-> "none"]

RebalanceRequestable == {"OPEN", "MANAGEMENT_REVIEW", "HOLD"}

\* The old position is open and recorded; the gateway knows it by its own
\* deploy, or from the chain alone.
Init ==
  /\ action = [r \in Rebalances |-> "ABSENT"]
  /\ phase = [r \in Rebalances |-> "none"] /\ ambiguous = {} /\ settled = {}
  /\ local = [i \in Ids |-> IF i = Old THEN "OPEN" ELSE "none"]
  /\ chain = [i \in Ids |-> IF i = Old THEN "open" ELSE "absent"]
  /\ closeTx = [r \in Rebalances |-> "none"] /\ deployTx = closeTx
  /\ booted = TRUE /\ known \in SUBSET {Old}
  /\ worker = Idle /\ tick = Rest
  /\ managed = {} /\ reopened = FALSE /\ peaks = 0
  /\ redeploys = [r \in Rebalances |-> 0] /\ misreported = {}
  /\ faults = 0 /\ crashes = 0

MoreMayHappen == peaks + faults + crashes < MaxEvents

Fault == MoreMayHappen /\ faults < MaxFaults /\ faults' = faults + 1
NoFault == UNCHANGED faults
Put(i, s) == local' = [local EXCEPT ![i] = s]
SetAction(r, s) == action' = [action EXCEPT ![r] = s]
MayEscalate(s) == CanTransitionPosition(s, "RECONCILIATION_REQUIRED", "rebalance", FALSE)

\* What getPosition shows: what is open, and what the gateway has deployed.
Seen(i) == chain[i] = "open" \/ i \in known

-----------------------------------------------------------------------------
(* Request, claim and handler *)

WorkerKeeps == UNCHANGED <<deployTx, booted, tick, management, observers, crashes>>
GoOn(step) == worker' = [worker EXCEPT !.step = step]
Report(step, s, doubt) ==
  worker' = [worker EXCEPT !.step = step, !.outcome = s, !.unsure = doubt]

\* requestRebalance; a breaker or the portfolio's risk may refuse it.
Request(r) ==
  /\ booted
  /\ action[r] = "ABSENT" /\ local[Old] \in RebalanceRequestable
  /\ SetAction(r, "QUEUED")
  /\ WorkerKeeps
  /\ UNCHANGED <<payload, local, chain, closeTx, known, worker, faults>>

Claim(r) ==
  /\ booted /\ worker.step = "idle"
  /\ action[r] = "QUEUED" /\ \A q \in Rebalances : action[q] \notin ActiveWriteStatuses
  /\ SetAction(r, "RUNNING")
  /\ worker' = [Idle EXCEPT !.step = "read", !.job = r]
  /\ WorkerKeeps
  /\ UNCHANGED <<payload, local, chain, closeTx, known, faults>>

\* The position must still be there to rebalance, and no breaker be active.
Read ==
  /\ worker.step = "read"
  /\ \/ local[Old] \notin RebalanceRequestable /\ Report("finish", "FAILED", FALSE)
     \/ local[Old] \in RebalanceRequestable
        /\ (GoOn("send") \/ Report("finish", "ABORTED", FALSE))
  /\ WorkerKeeps
  /\ UNCHANGED <<action, payload, local, chain, closeTx, known, faults>>

\* closePosition throws before it sends: the position is left alone.
Refuse ==
  /\ worker.step = "send"
  /\ Report("finish", "FAILED", FALSE)
  /\ WorkerKeeps
  /\ UNCHANGED <<action, payload, local, chain, closeTx, known, faults>>

Send ==
  /\ worker.step = "send" /\ chain[Old] = "open"
  /\ closeTx' = [closeTx EXCEPT ![worker.job] = "sent"]
  /\ GoOn("answer")
  /\ WorkerKeeps
  /\ UNCHANGED <<action, payload, local, chain, known, faults>>

\* The close is confirmed, and its settled amounts could be read, or not.
Succeed ==
  /\ worker.step = "answer" /\ closeTx[worker.job] = "landed"
  /\ known' = known \ {Old}
  /\ settled' \in {settled, settled \cup {worker.job}}
  /\ Report("store", "WAITING_CONFIRMATION", FALSE)
  /\ WorkerKeeps
  /\ UNCHANGED <<action, phase, ambiguous, local, chain, closeTx, faults>>

\* AmbiguousSubmissionError
Ambiguous ==
  /\ worker.step = "answer"
  /\ Report("mark", "WAITING_CONFIRMATION", TRUE)
  /\ WorkerKeeps
  /\ UNCHANGED <<action, payload, local, chain, closeTx, known, faults>>

\* Any other error; what was sent before it may have landed, or may land yet
\* (module MeteoraGateway).
Fail ==
  /\ worker.step = "answer"
  /\ Report("finish", "FAILED", FALSE)
  /\ WorkerKeeps
  /\ UNCHANGED <<action, payload, local, chain, closeTx, known, faults>>

\* CLOSING_FOR_REBALANCE is stored after the submission.
Store ==
  /\ worker.step = "store"
  /\ \/ NoFault /\ Put(Old, "CLOSING_FOR_REBALANCE") /\ GoOn("finish")
     \/ Fault /\ UNCHANGED local /\ GoOn("mark")
  /\ WorkerKeeps
  /\ UNCHANGED <<action, payload, chain, closeTx, known>>

\* RECONCILIATION_REQUIRED, best effort.
Mark ==
  /\ worker.step = "mark"
  /\ \/ NoFault /\ Put(Old, "RECONCILIATION_REQUIRED")
     \/ Fault /\ UNCHANGED local
  /\ GoOn("finish")
  /\ WorkerKeeps
  /\ UNCHANGED <<action, payload, chain, closeTx, known>>

\* The queue stores the handler's report.
Finish ==
  /\ worker.step = "finish"
  /\ SetAction(worker.job, worker.outcome)
  /\ IF worker.outcome # "WAITING_CONFIRMATION" THEN UNCHANGED <<phase, ambiguous>>
     ELSE /\ phase' = [phase EXCEPT ![worker.job] = "CLOSE_SUBMITTED"]
          /\ ambiguous' = IF worker.unsure THEN ambiguous \cup {worker.job} ELSE ambiguous
  /\ worker' = Idle
  /\ WorkerKeeps
  /\ UNCHANGED <<settled, local, chain, closeTx, known, faults>>

Handle ==
  \/ Read \/ Refuse \/ Send \/ Succeed \/ Ambiguous \/ Fail \/ Store \/ Mark \/ Finish

-----------------------------------------------------------------------------
(* The chain *)

ChainKeeps == UNCHANGED <<action, payload, local, booted, known, worker, tick,
                          management, observers, faults, crashes>>

\* A transaction that was sent lands at some time, or expires.
LandClose(r) ==
  /\ closeTx[r] = "sent" /\ chain[Old] = "open"
  /\ closeTx' = [closeTx EXCEPT ![r] = "landed"]
  /\ chain' = [chain EXCEPT ![Old] = "closed"]
  /\ ChainKeeps /\ UNCHANGED deployTx

LandDeploy(r) ==
  /\ deployTx[r] = "sent" /\ chain[r] = "absent"
  /\ deployTx' = [deployTx EXCEPT ![r] = "landed"]
  /\ chain' = [chain EXCEPT ![r] = "open"]
  /\ ChainKeeps /\ UNCHANGED closeTx

DropClose(r) ==
  /\ closeTx[r] = "sent"
  /\ closeTx' = [closeTx EXCEPT ![r] = "dropped"]
  /\ ChainKeeps /\ UNCHANGED <<chain, deployTx>>

DropDeploy(r) ==
  /\ deployTx[r] = "sent"
  /\ deployTx' = [deployTx EXCEPT ![r] = "dropped"]
  /\ ChainKeeps /\ UNCHANGED <<chain, closeTx>>

\* The owner closes a successor elsewhere.
Depart(r) ==
  /\ chain[r] = "open"
  /\ chain' = [chain EXCEPT ![r] = "closed"]
  /\ ChainKeeps /\ UNCHANGED <<closeTx, deployTx>>

-----------------------------------------------------------------------------
(* The reconciler: finalizeRebalance *)

TickKeeps == UNCHANGED <<ambiguous, settled, chain, closeTx, booted, worker, management,
                         crashes>>
NothingSent == UNCHANGED <<deployTx, known, observers>>
To(step) == tick' = [tick EXCEPT !.step = step]

\* An update of a store; when it fails the tick goes on elsewhere.
UpdateAction(s, p, next, caught) ==
  /\ UNCHANGED local
  /\ \/ /\ NoFault /\ SetAction(tick.job, s)
        /\ phase' = [phase EXCEPT ![tick.job] = p] /\ To(next)
     \/ Fault /\ UNCHANGED <<action, phase>> /\ To(caught)

UpdatePosition(i, s, next, caught) ==
  /\ UNCHANGED <<action, phase>>
  /\ \/ NoFault /\ Put(i, s) /\ To(next)
     \/ Fault /\ UNCHANGED local /\ To(caught)

\* An exception: the next tick tries again.
Skip(next) == UNCHANGED <<action, phase, local, faults>> /\ To(next)

\* The waiting rebalance is taken up where its phase says.
BeginTick ==
  /\ booted /\ tick.step = "idle"
  /\ \/ \E r \in Rebalances :
          /\ action[r] = "WAITING_CONFIRMATION"
          /\ tick' = [Rest EXCEPT !.job = r,
               !.step = CASE phase[r] = "CLOSE_SUBMITTED" -> "closeLeg"
                          [] phase[r] = "REDEPLOY_SUBMITTING" -> "timeOut"
                          [] phase[r] = "REDEPLOY_SUBMITTED" -> "confirm"]
     \/ /\ \A r \in Rebalances : action[r] # "WAITING_CONFIRMATION"
        /\ tick' = [Rest EXCEPT !.step = "resume"]
  /\ TickKeeps /\ NothingSent /\ UNCHANGED <<action, phase, local, faults>>

\* inferCloseConfirmedPosition, and the statuses the close leg admits.
CloseIsConfirmed(r) ==
  /\ ~Seen(Old)
  /\ \/ local[Old] = "CLOSING_FOR_REBALANCE"
     \/ local[Old] = "RECONCILIATION_REQUIRED" /\ r \in ambiguous

\* The position is marked, where the table lets it, and the action times out.
MarkOld ==
  IF MayEscalate(local[Old])
  THEN UpdatePosition(Old, "RECONCILIATION_REQUIRED", "timeOut", "resume")
  ELSE Skip("resume")

\* finalizeCloseLeg and its catch block: the accounting is stored, or the
\* position marked.  A position that is CLOSED already is not asked for again;
\* for any other the gateway may fail to answer.
CloseLeg ==
  /\ tick.step = "closeLeg"
  /\ \/ /\ local[Old] = "CLOSED" \/ CloseIsConfirmed(tick.job)
        /\ UpdateAction("WAITING_CONFIRMATION", "CLOSE_SUBMITTED", "close", "resume")
     \/ /\ local[Old] # "CLOSED" /\ ~CloseIsConfirmed(tick.job)
        /\ MarkOld
     \/ /\ local[Old] # "CLOSED"
        /\ Fault
        /\ UNCHANGED <<action, phase, local>> /\ To("closeCaught")
  /\ TickKeeps /\ NothingSent

\* The catch block reads the position again.
CloseCaught ==
  /\ tick.step = "closeCaught"
  /\ MarkOld
  /\ TickKeeps /\ NothingSent

Close ==
  /\ tick.step = "close"
  /\ UpdatePosition(Old, "CLOSED", "validate", "resume")
  /\ TickKeeps /\ NothingSent

\* validatePostCloseRedeploySettlement
Settled(r) == r \in settled

Abort == UpdateAction("FAILED", "REBALANCE_ABORTED", "resume", "resume")

\* The amounts are missing, or too little was released for the redeploy.
RejectTarget ==
  /\ tick.step = "validate"
  /\ Abort
  /\ TickKeeps /\ NothingSent

\* The breaker was set since.
BreakerStops ==
  /\ tick.step = "validate" /\ Settled(tick.job)
  /\ Abort
  /\ TickKeeps /\ NothingSent

SimulationStops ==
  /\ tick.step = "validate" /\ Settled(tick.job)
  /\ Abort
  /\ TickKeeps /\ NothingSent

\* Mutant: no marker is written before the call.
IntentForgotten ==
  /\ tick.step = "validate" /\ Settled(tick.job)
  /\ Skip("deploy")
  /\ TickKeeps /\ NothingSent

\* The intent is durable before deployLiquidity is called.
Intent ==
  /\ tick.step = "validate" /\ Settled(tick.job)
  /\ UpdateAction("WAITING_CONFIRMATION", "REDEPLOY_SUBMITTING", "deploy", "resume")
  /\ TickKeeps /\ NothingSent

SendDeploy ==
  /\ tick.step = "deploy"
  /\ deployTx' = [deployTx EXCEPT ![tick.job] = "sent"]
  /\ redeploys' = [redeploys EXCEPT ![tick.job] = @ + 1]
  /\ Skip("answer")
  /\ TickKeeps /\ UNCHANGED <<known, misreported>>

\* deployLiquidity throws: nothing was sent, or what was sent may land or not.
DeployFails ==
  /\ tick.step \in {"deploy", "answer"}
  /\ Abort
  /\ misreported' = IF tick.step = "answer" /\ deployTx[tick.job] # "dropped"
                    THEN misreported \cup {tick.job} ELSE misreported
  /\ TickKeeps /\ UNCHANGED <<deployTx, known, redeploys>>

DeploySucceeds ==
  /\ tick.step = "answer" /\ deployTx[tick.job] = "landed"
  /\ known' = known \cup {tick.job}
  /\ Skip("submitted")
  /\ TickKeeps /\ UNCHANGED <<deployTx, observers>>

\* The successor is stored as one that needs reconciliation, and its address
\* in the action.
DeployIsAmbiguous ==
  /\ tick.step = "answer"
  /\ UpdatePosition(tick.job, "RECONCILIATION_REQUIRED", "named", "resume")
  /\ TickKeeps /\ NothingSent

Named ==
  /\ tick.step = "named"
  /\ UpdateAction("WAITING_CONFIRMATION", "REDEPLOY_SUBMITTED", "resume", "resume")
  /\ TickKeeps /\ NothingSent

\* Mutant: the phase is written back to where the close left it.
SubmittedLate ==
  /\ tick.step = "submitted"
  /\ UpdateAction("WAITING_CONFIRMATION", "CLOSE_SUBMITTED", "pending", "resume")
  /\ TickKeeps /\ NothingSent

\* The address is in the action before the successor is in the store.
Submitted ==
  /\ tick.step = "submitted"
  /\ UpdateAction("WAITING_CONFIRMATION", "REDEPLOY_SUBMITTED", "pending", "resume")
  /\ TickKeeps /\ NothingSent

\* Mutant: the successor is stored as it was requested.
PendingRequested ==
  /\ tick.step = "pending"
  /\ UpdatePosition(tick.job, "REDEPLOY_REQUESTED", "resume", "markPending")
  /\ TickKeeps /\ NothingSent

Pending ==
  /\ tick.step = "pending"
  /\ UpdatePosition(tick.job, "REDEPLOYING", "resume", "markPending")
  /\ TickKeeps /\ NothingSent

\* Mutant: a record that cannot be stored counts as a failed redeploy.
AbortPending ==
  /\ tick.step = "markPending"
  /\ Abort
  /\ TickKeeps /\ NothingSent

MarkPending ==
  /\ tick.step = "markPending"
  /\ UpdatePosition(tick.job, "RECONCILIATION_REQUIRED", "timeOut", "timeOut")
  /\ TickKeeps /\ NothingSent

TimeOut ==
  /\ tick.step = "timeOut"
  /\ UpdateAction("TIMED_OUT", phase[tick.job], "resume", "resume")
  /\ TickKeeps /\ NothingSent

\* The confirmation of the successor.  The gateway's answer and the store's
\* record are of the same position, or the finalizer finds that they are not.
SameIdentity == UpdatePosition(tick.job, "OPEN", "reconciling", "resume")
OtherIdentity == UpdatePosition(tick.job, "RECONCILIATION_REQUIRED", "timeOut", "resume")

\* The snapshot pass had restored it.
ConfirmOpen ==
  /\ tick.step = "confirm" /\ Seen(tick.job)
  /\ local[tick.job] = "OPEN"
  /\ SameIdentity \/ OtherIdentity
  /\ TickKeeps /\ NothingSent

\* The crash came before the record: it is rebuilt from the request.
ConfirmLost ==
  /\ tick.step = "confirm" /\ Seen(tick.job)
  /\ local[tick.job] = "none"
  /\ SameIdentity \/ OtherIdentity
  /\ TickKeeps /\ NothingSent

ConfirmMarked ==
  /\ tick.step = "confirm" /\ Seen(tick.job)
  /\ local[tick.job] = "RECONCILIATION_REQUIRED"
  /\ SameIdentity \/ OtherIdentity
  /\ TickKeeps /\ NothingSent

ConfirmRedeploying ==
  /\ tick.step = "confirm" /\ Seen(tick.job)
  /\ local[tick.job] = "REDEPLOYING"
  /\ SameIdentity \/ OtherIdentity
  /\ TickKeeps /\ NothingSent

\* Mutant: the action is left to the next tick.
WaitForSuccessor ==
  /\ tick.step = "confirm" /\ ~Seen(tick.job)
  /\ Skip("resume")
  /\ TickKeeps /\ NothingSent

\* The successor is not there; with no record either the finalizer throws.
NotConfirmed ==
  /\ tick.step = "confirm" /\ ~Seen(tick.job)
  /\ IF MayEscalate(local[tick.job]) /\ local[tick.job] # "none"
     THEN OtherIdentity ELSE Skip("resume")
  /\ TickKeeps /\ NothingSent

\* The gateway fails to answer: this finalizer throws, and so does the
\* recovery of an interrupted one.
ReadFails ==
  /\ tick.step \in {"confirm", "recover"}
  /\ Fault
  /\ To(IF tick.step = "confirm" THEN "resume" ELSE "list")
  /\ UNCHANGED <<action, phase, local>>
  /\ TickKeeps /\ NothingSent

Reconciling ==
  /\ tick.step = "reconciling"
  /\ UpdateAction("RECONCILING", "REDEPLOY_SUBMITTED", "done", "resume")
  /\ TickKeeps /\ NothingSent

Done ==
  /\ tick.step = "done"
  /\ UpdateAction("DONE", "REBALANCE_COMPLETED", "resume", "resume")
  /\ TickKeeps /\ NothingSent

Finalize ==
  \/ CloseLeg \/ CloseCaught \/ Close \/ RejectTarget \/ BreakerStops \/ SimulationStops \/ Intent
  \/ SendDeploy \/ DeployFails \/ DeploySucceeds \/ DeployIsAmbiguous \/ Named
  \/ Submitted \/ Pending \/ MarkPending \/ TimeOut
  \/ ConfirmOpen \/ ConfirmLost \/ ConfirmMarked \/ ConfirmRedeploying \/ NotConfirmed
  \/ ReadFails \/ Reconciling \/ Done

-----------------------------------------------------------------------------
(* The reconciler: interrupted finalizations, and the wallet's snapshot *)

Resume ==
  /\ tick.step = "resume"
  /\ \/ \E r \in Rebalances :
          action[r] = "RECONCILING" /\ tick' = [Rest EXCEPT !.step = "recover", !.job = r]
     \/ /\ \A r \in Rebalances : action[r] # "RECONCILING"
        /\ tick' = [Rest EXCEPT !.step = "list"]
  /\ TickKeeps /\ NothingSent /\ UNCHANGED <<action, phase, local, faults>>

\* recoverReconcilingAction: only a rebalance whose successor was confirmed
\* gets into RECONCILING, and it is DONE when the successor is still there.
Recover ==
  /\ tick.step = "recover"
  /\ IF Seen(tick.job) THEN UpdatePosition(tick.job, "OPEN", "recoverDone", "list")
     ELSE IF local[tick.job] \in {"none", "CLOSED", "ABORTED"} THEN Skip("recoverEnd")
     ELSE UpdatePosition(tick.job, "RECONCILIATION_REQUIRED", "recoverEnd", "list")
  /\ TickKeeps /\ NothingSent

RecoverDone ==
  /\ tick.step = "recoverDone"
  /\ UpdateAction("DONE", "REBALANCE_COMPLETED", "list", "list")
  /\ TickKeeps /\ NothingSent

RecoverEnd ==
  /\ tick.step = "recoverEnd"
  /\ UpdateAction("FAILED", phase[tick.job], "list", "list")
  /\ TickKeeps /\ NothingSent

\* The stored positions are listed before the snapshot is taken.
List ==
  /\ tick.step = "list"
  /\ tick' = [Rest EXCEPT !.step = "snapshot",
       !.tracked = {i \in Ids : local[i] \notin {"none", "DRAFT", "CLOSED", "FAILED", "ABORTED"}}]
  /\ TickKeeps /\ NothingSent /\ UNCHANGED <<action, phase, local, faults>>

Snapshot ==
  /\ tick.step = "snapshot"
  /\ tick' = [tick EXCEPT !.step = "look", !.shown = {i \in Ids : chain[i] = "open"}]
  /\ TickKeeps /\ NothingSent /\ UNCHANGED <<action, phase, local, faults>>

\* shouldSyncLiveSnapshot
Syncable == {"OPEN", "HOLD", "MANAGEMENT_REVIEW", "RECONCILIATION_REQUIRED"}

\* What the snapshot makes of a stored status, if anything.
Compared(s, shown) ==
  IF shown
  THEN IF s \notin Syncable THEN {}
       ELSE {IF s = "RECONCILIATION_REQUIRED" THEN "OPEN" ELSE s}
  ELSE {"RECONCILIATION_REQUIRED"} \
         (IF s \in {"none", "CLOSED", "ABORTED"} THEN {"RECONCILIATION_REQUIRED"} ELSE {s})

\* The position is read and compared; its write is a step of its own.
Look(i) ==
  /\ tick.step = "look" /\ i \in tick.tracked
  /\ IF Compared(local[i], i \in tick.shown) = {}
     THEN tick' = [tick EXCEPT !.tracked = @ \ {i}]
     ELSE \E s \in Compared(local[i], i \in tick.shown) :
            tick' = [tick EXCEPT !.step = "sync", !.at = i, !.write = s]
  /\ TickKeeps /\ NothingSent /\ UNCHANGED <<action, phase, local, faults>>

Sync ==
  /\ tick.step = "sync"
  /\ \/ /\ NoFault /\ Put(tick.at, tick.write)
        /\ tick' = [tick EXCEPT !.step = "look", !.tracked = @ \ {tick.at},
                                !.at = "none", !.write = "none"]
     \/ Fault /\ UNCHANGED local /\ tick' = Rest
  /\ TickKeeps /\ NothingSent /\ UNCHANGED <<action, phase>>

EndTick ==
  /\ tick.step = "look" /\ tick.tracked = {}
  /\ tick' = Rest
  /\ TickKeeps /\ NothingSent /\ UNCHANGED <<action, phase, local, faults>>

Reconcile ==
  \/ Finalize \/ Resume \/ Recover \/ RecoverDone \/ RecoverEnd
  \/ List \/ Snapshot \/ Sync \/ EndTick
  \/ \E i \in Ids : Look(i)

-----------------------------------------------------------------------------
(* The management tick, as in PositionFlow *)

ManagementOnly == UNCHANGED <<action, payload, chainVars, booted, known, worker, tick,
                              observers, faults, crashes>>

\* runManagementCycle lists positions, the profits of some above their peaks.
ListManaged ==
  /\ booted /\ managed = {}
  /\ MoreMayHappen /\ peaks < MaxPeaks
  /\ managed' \in SUBSET {i \in Ids : local[i] = "OPEN"} \ {{}}
  /\ peaks' = peaks + 1
  /\ ManagementOnly /\ UNCHANGED <<local, reopened>>

RefreshPeak(i) ==
  /\ i \in managed
  /\ Put(i, "OPEN")
  /\ managed' = managed \ {i}
  /\ reopened' = (reopened \/ (i = Old /\ local[Old] = "CLOSED"))
  /\ ManagementOnly /\ UNCHANGED peaks

LetGo ==
  /\ managed # {}
  /\ managed' = {}
  /\ ManagementOnly /\ UNCHANGED <<local, reopened, peaks>>

Manage == ListManaged \/ LetGo \/ \E i \in Ids : RefreshPeak(i)

-----------------------------------------------------------------------------
(* The crash and the restart *)

Crash ==
  /\ booted
  /\ MoreMayHappen /\ crashes < MaxCrashes /\ crashes' = crashes + 1
  /\ booted' = FALSE /\ known' = {}
  /\ worker' = Idle /\ tick' = Rest /\ managed' = {}
  /\ UNCHANGED <<action, payload, local, chainVars, reopened, peaks, observers, faults>>

\* The result made up for a RUNNING rebalance: an ambiguous close, without
\* amounts.
RecoverStale(r) ==
  /\ ~booted /\ action[r] = "RUNNING"
  /\ SetAction(r, "WAITING_CONFIRMATION")
  /\ phase' = [phase EXCEPT ![r] = "CLOSE_SUBMITTED"]
  /\ ambiguous' = ambiguous \cup {r} /\ settled' = settled \ {r}
  /\ UNCHANGED <<local, chainVars, booted, known, worker, tick, management, observers,
                 faults, crashes>>

Boot ==
  /\ ~booted /\ \A r \in Rebalances : action[r] # "RUNNING"
  /\ booted' = TRUE
  /\ UNCHANGED <<action, payload, local, chainVars, known, worker, tick, management,
                 observers, faults, crashes>>

-----------------------------------------------------------------------------

Next ==
  \/ \E r \in Rebalances :
       \/ Request(r) \/ Claim(r) \/ RecoverStale(r)
       \/ LandClose(r) \/ LandDeploy(r) \/ Depart(r)
       \/ DropClose(r) \/ DropDeploy(r)
  \/ Handle \/ BeginTick \/ Reconcile \/ Manage \/ Crash \/ Boot

\* As in PositionFlow: I/O settles, the timers keep calling, transactions
\* land or expire, and a process that died is started again; nothing is
\* assumed of the management tick.
Fairness ==
  /\ WF_vars(Handle) /\ WF_vars(BeginTick) /\ WF_vars(Reconcile) /\ WF_vars(Boot)
  /\ \A r \in Rebalances :
       /\ WF_vars(Claim(r)) /\ WF_vars(RecoverStale(r))
       /\ WF_vars(LandClose(r) \/ DropClose(r)) /\ WF_vars(LandDeploy(r) \/ DropDeploy(r))

Spec == Init /\ [][Next]_vars
FairSpec == Spec /\ Fairness

-----------------------------------------------------------------------------
(* Properties *)

WorkerSteps == {"idle", "read", "send", "answer", "store", "mark", "finish"}
TickSteps ==
  {"idle", "closeLeg", "closeCaught", "close", "validate", "deploy", "answer", "named", "submitted",
   "pending", "markPending", "timeOut", "confirm", "reconciling", "done",
   "resume", "recover", "recoverDone", "recoverEnd", "list", "snapshot", "look", "sync"}
Phases == {"none", "CLOSE_SUBMITTED", "REDEPLOY_SUBMITTING", "REDEPLOY_SUBMITTED",
           "REBALANCE_COMPLETED", "REBALANCE_ABORTED"}
Stored == {"none", "OPEN", "CLOSING_FOR_REBALANCE", "REDEPLOYING", "CLOSED",
           "RECONCILIATION_REQUIRED"}
TxStates == {"none", "sent", "landed", "dropped"}

WorkerTyped ==
  worker \in [step : WorkerSteps, job : Rebalances \cup {NoAction},
             outcome : ActionStatuses \cup {"none"}, unsure : BOOLEAN]

TickTyped ==
  tick \in [step : TickSteps, job : Rebalances \cup {NoAction}, tracked : SUBSET Ids,
           shown : SUBSET Ids, at : Ids \cup {"none"}, write : Stored]

TypeOK ==
  /\ action \in [Rebalances -> ActionStatuses \cup {"ABSENT"}]
  /\ phase \in [Rebalances -> Phases]
  /\ ambiguous \subseteq Rebalances /\ settled \subseteq Rebalances
  /\ local \in [Ids -> Stored]
  /\ chain \in [Ids -> {"absent", "open", "closed"}]
  /\ closeTx \in [Rebalances -> TxStates] /\ deployTx \in [Rebalances -> TxStates]
  /\ booted \in BOOLEAN /\ known \subseteq Ids
  /\ WorkerTyped /\ TickTyped
  /\ redeploys \in [Rebalances -> Nat] /\ misreported \subseteq Rebalances
  /\ managed \subseteq Ids /\ reopened \in BOOLEAN /\ peaks \in 0..MaxPeaks
  /\ faults \in 0..MaxFaults /\ crashes \in 0..MaxCrashes

\* The capital is released on the chain before it is sent on, and sent on at
\* most once, by one rebalance, whatever fails and however often the process
\* restarts: deployLiquidity is never called for a second time.
Capital == INSTANCE Relocation WITH
  Successors <- Rebalances, released <- chain[Old] = "closed", sent <- redeploys
MovesCapitalOnce == Capital!Spec

\* A successor that is open on the chain can be found from the store: it is
\* recorded, or its action names it or says that a redeploy was under way;
\* unless the gateway reported a plain failure of a deploy that had been sent.
SuccessorIsTraceable ==
  \A r \in Rebalances : chain[r] = "open" /\ r \notin misreported =>
    \/ local[r] # "none"
    \/ phase[r] \in {"REDEPLOY_SUBMITTING", "REDEPLOY_SUBMITTED"}
       /\ action[r] \in {"WAITING_CONFIRMATION", "TIMED_OUT"}

\* The outcome says where the capital is.  DONE: the old position is closed,
\* and recorded as CLOSED unless the management tick has written back a record
\* that it listed before; the successor came to the chain and is in the store.
\* Aborted: the old one is closed, and there is no successor, not even by a
\* transaction under way, unless the gateway misreported its deploy.
OutcomeTellsWhereCapitalIs ==
  \A r \in Rebalances :
    /\ action[r] = "DONE" =>
         /\ chain[Old] = "closed" /\ (local[Old] = "CLOSED" \/ reopened)
         /\ chain[r] # "absent" /\ local[r] # "none"
    /\ phase[r] = "REBALANCE_ABORTED" =>
         /\ chain[Old] = "closed"
         /\ r \in misreported \/ (chain[r] = "absent" /\ deployTx[r] # "sent")

\* A successor that left the chain before it was recorded.
Vanished(r) == chain[r] = "closed" /\ local[r] = "none"

\* Every submitted rebalance is concluded, and frees its wallet, but for one
\* whose successor is neither on the chain nor recorded any more: there the
\* finalizer throws at every tick.
SubmittedIsConcluded ==
  []<>(\A r \in Rebalances :
    action[r] \notin {"WAITING_CONFIRMATION", "RECONCILING"} \/ Vanished(r))
=============================================================================
