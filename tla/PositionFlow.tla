---------------------------- MODULE PositionFlow ----------------------------
(***************************************************************************)
(* One liquidity position from its deploy to its close: the handlers that  *)
(* the queue runs (processDeployAction, processCloseAction), the ticks of  *)
(* the reconciler (reconcilePortfolio with confirmDeployAction and         *)
(* finalizeClose), the chain behind the Meteora gateway, and the crash and *)
(* restart of the process.                                                 *)
(*                                                                         *)
(* The queue and the reconciler use lock objects of their own: the runtime *)
(* hands reconcilePortfolio none, so it makes new ones.  Each set is taken *)
(* by a single task and never waited for, which is why no lock appears     *)
(* here.  What keeps them apart is the one active write per wallet (module *)
(* ActionQueue): while an action waits for its confirmation no handler     *)
(* runs, so a finalizer's reads and its first write are one step; the      *)
(* snapshot pass looks at no action, and its reads and writes are steps of *)
(* their own.                                                              *)
(*                                                                         *)
(* The third task that writes positions is the management tick: it lists   *)
(* the OPEN ones and writes a new peak of the profit back into the records *)
(* it has listed, status and all, without a lock and without reading them  *)
(* again.  Of that tick only this write is modelled here (module Cycles    *)
(* has the rest).  A write of it that falls between a finalizer's reads    *)
(* and its first write is lost under that write: LetGo.                    *)
(*                                                                         *)
(* Statuses that no code path writes into the store on this way            *)
(* (MANAGEMENT_REVIEW, CLOSE_REQUESTED, ...) appear in the tables only.    *)
(***************************************************************************)
EXTENDS Naturals, Lifecycle

CONSTANTS
  Deploy,       \* the action that creates the position
  Closes,       \* actions that close it, each with a key of its own
  NoAction,
  MaxFaults,    \* bound: store or swap calls of the use cases that fail
  MaxCrashes,   \* bound: crashes of the process
  MaxPeaks,     \* bound: management ticks that find a new peak
  MaxEvents     \* bound: all of these together

ASSUME DeployIsNoClose == Deploy \notin Closes
ASSUME NoActionIsNoAction == NoAction \notin Closes \cup {Deploy}
ASSUME BoundsAreNatural == MaxFaults \in Nat /\ MaxCrashes \in Nat /\ MaxPeaks \in Nat

Actions == Closes \cup {Deploy}

\* The position's address, and the placeholder stale-running:<actionId> that
\* startup recovery puts into the result of an interrupted deploy.
Ids == {"pos", "stale"}

VARIABLES
  (* the stores, which survive a crash *)
  action,      \* action[a]: its status, "ABSENT" before it is stored
  deployedAs,  \* positionId in the deploy's result, "none" without result
  ambiguous,   \* the closes whose result says submissionAmbiguous
  local,       \* local[i]: the status of the stored position, or "none"
  (* the chain *)
  chain,       \* the position there: "absent", "open", "closed"
  tx,          \* tx[a]: "none", "sent" or "landed"; "none" if it expires
  (* the process *)
  booted,
  known,       \* the gateway's recentDeploys has the position
  worker,      \* the queue's task: its step, its action, what it will report
  tick,        \* the reconciler's task: its step, its action, the positions
               \* left to compare, the snapshot, and the write it decided on
  managed,     \* the management tick holds the record it has listed as OPEN,
               \* and is to write it back with a new peak
  (* observers *)
  swaps,       \* swaps[c]: how often the post-close swap was run for c
  confirmed,   \* the closes for which the gateway reported success
  reopened,    \* a record written back has replaced one that was CLOSED
  peaks, faults, crashes

stores == <<action, deployedAs, ambiguous, local>>
chainVars == <<chain, tx>>
management == <<managed, reopened, peaks>>
observers == <<swaps, confirmed>>
vars == <<stores, chainVars, booted, known, worker, tick, management, observers,
          faults, crashes>>

Idle == [step |-> "idle", job |-> NoAction, outcome |-> "none", unsure |-> FALSE]
Rest == [step |-> "idle", job |-> NoAction, tracked |-> {}, shown |-> FALSE,
         at |-> "none", write |-> "none"]

CloseRequestable == {"OPEN", "MANAGEMENT_REVIEW", "HOLD", "PARTIAL_CLOSE_CONFIRMED"}

Init ==
  /\ action = [a \in Actions |-> "ABSENT"]
  /\ deployedAs = "none" /\ ambiguous = {}
  /\ local = [i \in Ids |-> "none"]
  /\ chain = "absent" /\ tx = [a \in Actions |-> "none"]
  /\ booted = TRUE /\ known = FALSE
  /\ worker = Idle /\ tick = Rest
  /\ managed = FALSE /\ reopened = FALSE /\ peaks = 0
  /\ swaps = [c \in Closes |-> 0] /\ confirmed = {}
  /\ faults = 0 /\ crashes = 0

MoreMayHappen == peaks + faults + crashes < MaxEvents

Fault == MoreMayHappen /\ faults < MaxFaults /\ faults' = faults + 1
NoFault == UNCHANGED faults
Put(i, s) == local' = [local EXCEPT ![i] = s]
SetAction(a, s) == action' = [action EXCEPT ![a] = s]

\* transitionPositionStatus throws unless the table has the transition.
MayEscalate(s) == CanTransitionPosition(s, "RECONCILIATION_REQUIRED", "normal_close", FALSE)

-----------------------------------------------------------------------------
(* Requests and the claim *)

\* requestDeploy, and requestClose of a position that may be closed.  The
\* handler tests the status again, so the read and the enqueue are one step.
Request(a) ==
  /\ booted
  /\ action[a] = "ABSENT"
  /\ a \in Closes => local["pos"] \in CloseRequestable
  /\ SetAction(a, "QUEUED")
  /\ UNCHANGED <<deployedAs, ambiguous, local, chainVars, booted, known, worker,
                 tick, management, observers, faults, crashes>>

Claim(a) ==
  /\ booted /\ worker.step = "idle"
  /\ action[a] = "QUEUED"
  /\ \A b \in Actions : action[b] \notin ActiveWriteStatuses
  /\ SetAction(a, "RUNNING")
  /\ worker' = [Idle EXCEPT !.step = IF a = Deploy THEN "send" ELSE "read", !.job = a]
  /\ UNCHANGED <<deployedAs, ambiguous, local, chainVars, booted, known, tick,
                 management, observers, faults, crashes>>

WorkerKeeps == UNCHANGED <<action, deployedAs, ambiguous, booted, tick, management,
                           swaps, crashes>>

GoOn(step) == worker' = [worker EXCEPT !.step = step]
Report(step, s, doubt) ==
  worker' = [worker EXCEPT !.step = step, !.outcome = s, !.unsure = doubt]

-----------------------------------------------------------------------------
(* The handlers *)

\* processDeployAction: an active breaker aborts the action.
Blocked ==
  /\ worker.step = "send" /\ worker.job = Deploy
  /\ Report("finish", "ABORTED", FALSE)
  /\ WorkerKeeps /\ UNCHANGED <<local, chainVars, known, confirmed, faults>>

\* processCloseAction: the position must still be closeable.
CloseRead ==
  /\ worker.step = "read"
  /\ IF local["pos"] \in CloseRequestable THEN GoOn("start")
     ELSE Report("finish", "FAILED", FALSE)
  /\ WorkerKeeps /\ UNCHANGED <<local, chainVars, known, confirmed, faults>>

\* Mutant: the status stored is that of the request.
StartRequested ==
  /\ worker.step = "start"
  /\ \/ NoFault /\ Put("pos", "CLOSE_REQUESTED") /\ GoOn("send")
     \/ Fault /\ UNCHANGED local /\ Report("finish", "FAILED", FALSE)
  /\ WorkerKeeps /\ UNCHANGED <<chainVars, known, confirmed>>

\* CLOSING is written, over whatever is there now, before the submission; a
\* failing write throws.
CloseStart ==
  /\ worker.step = "start"
  /\ \/ NoFault /\ Put("pos", "CLOSING") /\ GoOn("send")
     \/ Fault /\ UNCHANGED local /\ Report("finish", "FAILED", FALSE)
  /\ WorkerKeeps /\ UNCHANGED <<chainVars, known, confirmed>>

\* The gateway sends the transaction, unless it throws before: the close of a
\* position that is not open finds nothing to close.
Send ==
  /\ worker.step = "send"
  /\ worker.job \in Closes => chain = "open"
  /\ tx' = [tx EXCEPT ![worker.job] = "sent"]
  /\ GoOn("answer")
  /\ WorkerKeeps /\ UNCHANGED <<local, chain, known, confirmed, faults>>

Refuse ==
  /\ worker.step = "send"
  /\ Report(IF worker.job = Deploy THEN "finish" ELSE "mark", "FAILED", FALSE)
  /\ WorkerKeeps /\ UNCHANGED <<local, chainVars, known, confirmed, faults>>

\* A transaction that was sent lands at some time, or expires.
Land(a) ==
  /\ tx[a] = "sent"
  /\ chain = IF a = Deploy THEN "absent" ELSE "open"
  /\ tx' = [tx EXCEPT ![a] = "landed"]
  /\ chain' = IF a = Deploy THEN "open" ELSE "closed"
  /\ UNCHANGED <<stores, booted, known, worker, tick, management, observers, faults,
                 crashes>>

Drop(a) ==
  /\ tx[a] = "sent"
  /\ tx' = [tx EXCEPT ![a] = "none"]
  /\ UNCHANGED <<stores, chain, booted, known, worker, tick, management, observers,
                 faults, crashes>>

\* The gateway reports success once the transaction is confirmed, remembering
\* a deploy and forgetting a closed position.
Succeed ==
  /\ worker.step = "answer" /\ tx[worker.job] = "landed"
  /\ known' = (worker.job = Deploy)
  /\ IF worker.job = Deploy
     THEN UNCHANGED <<confirmed, faults>> /\ Report("store", "WAITING_CONFIRMATION", FALSE)
     ELSE /\ confirmed' = confirmed \cup {worker.job}
          /\ \/ NoFault /\ Report("finish", "WAITING_CONFIRMATION", FALSE)
             \/ Fault /\ Report("mark", "WAITING_CONFIRMATION", FALSE)
  /\ WorkerKeeps /\ UNCHANGED <<local, chainVars>>

\* AmbiguousSubmissionError: the transaction may land, may have landed, or not.
Ambiguous ==
  /\ worker.step = "answer"
  /\ Report("mark", "WAITING_CONFIRMATION", TRUE)
  /\ WorkerKeeps /\ UNCHANGED <<local, chainVars, known, confirmed, faults>>

\* An error that is not ambiguous ends the action, although what was sent
\* before it may have landed, or may land yet (module MeteoraGateway).
Fail ==
  /\ worker.step = "answer"
  /\ Report(IF worker.job = Deploy THEN "finish" ELSE "mark", "FAILED", FALSE)
  /\ WorkerKeeps /\ UNCHANGED <<local, chainVars, known, confirmed, faults>>

\* The pending position is stored; when that write or the journal's fails,
\* the position is marked instead.
Store ==
  /\ worker.step = "store"
  /\ \/ NoFault /\ Put("pos", "DEPLOYING") /\ GoOn("finish")
     \/ Fault /\ UNCHANGED local /\ GoOn("mark")
     \/ Fault /\ Put("pos", "DEPLOYING") /\ GoOn("mark")
  /\ WorkerKeeps /\ UNCHANGED <<chainVars, known, confirmed>>

\* RECONCILIATION_REQUIRED is written if it can be.
Mark ==
  /\ worker.step = "mark"
  /\ \/ NoFault /\ Put("pos", "RECONCILIATION_REQUIRED")
     \/ Fault /\ UNCHANGED local
  /\ GoOn("finish")
  /\ WorkerKeeps /\ UNCHANGED <<chainVars, known, confirmed>>

\* finalizeAction or failAction; that this write may fail as well is the
\* subject of ActionQueue.
Finish ==
  /\ worker.step = "finish"
  /\ SetAction(worker.job, worker.outcome)
  /\ deployedAs' = IF worker.job = Deploy /\ worker.outcome = "WAITING_CONFIRMATION"
                   THEN "pos" ELSE deployedAs
  /\ ambiguous' = IF worker.job \in Closes /\ worker.unsure
                  THEN ambiguous \cup {worker.job} ELSE ambiguous
  /\ worker' = Idle
  /\ UNCHANGED <<local, chainVars, booted, known, tick, management, observers, faults,
                 crashes>>

-----------------------------------------------------------------------------
(* The reconciler: submitted actions *)

TickKeeps == UNCHANGED <<deployedAs, ambiguous, chainVars, booted, known, worker,
                         management, confirmed, crashes>>
To(step) == tick' = [tick EXCEPT !.step = step]

\* An update of a store that may fail, after which the tick goes on elsewhere.
UpdateAction(a, s, next, caught) ==
  /\ UNCHANGED local
  /\ \/ NoFault /\ SetAction(a, s) /\ To(next)
     \/ Fault /\ UNCHANGED action /\ To(caught)

UpdatePosition(i, s, next, caught) ==
  /\ UNCHANGED action
  /\ \/ NoFault /\ Put(i, s) /\ To(next)
     \/ Fault /\ UNCHANGED local /\ To(caught)

\* An exception leaves the action as it is, and the tick goes on.
Skip(next) == UNCHANGED <<action, local, faults>> /\ To(next)

\* What getPosition shows: the open positions of the wallet and those the
\* gateway has deployed itself; a closed one is simply not there.
Seen(i) == i = "pos" /\ (chain = "open" \/ known)

BeginTick ==
  /\ booted /\ tick.step = "idle"
  /\ \/ \E a \in Actions :
          /\ action[a] = "WAITING_CONFIRMATION"
          /\ tick' = [Rest EXCEPT !.job = a,
                        !.step = IF a = Deploy THEN "confirmDeploy" ELSE "finalizeClose"]
     \/ /\ \A a \in Actions : action[a] # "WAITING_CONFIRMATION"
        /\ tick' = [Rest EXCEPT !.step = "resume"]
  /\ TickKeeps /\ UNCHANGED <<action, local, swaps, faults>>

\* confirmDeployAction up to its first write.  A position the store has lost
\* is rebuilt from the request.
ConfirmDeploy ==
  /\ tick.step = "confirmDeploy"
  /\ IF Seen(deployedAs)
        /\ local[deployedAs] \in {"none", "DEPLOYING", "RECONCILIATION_REQUIRED", "OPEN"}
     THEN UpdatePosition(deployedAs, "OPEN", "reconciling", "resume")
     ELSE IF local[deployedAs] \notin {"CLOSED", "ABORTED"}
     THEN UpdatePosition(deployedAs, "RECONCILIATION_REQUIRED", "timeOut", "resume")
     ELSE Skip("resume")
  /\ TickKeeps /\ UNCHANGED swaps

\* The two writes with which a deploy, or the close of a position that is
\* CLOSED already, ends.
Reconciling ==
  /\ tick.step = "reconciling"
  /\ UpdateAction(tick.job, "RECONCILING", "done", "resume")
  /\ TickKeeps /\ UNCHANGED swaps

Done ==
  /\ tick.step = "done"
  /\ UpdateAction(tick.job, "DONE", "resume", "resume")
  /\ TickKeeps /\ UNCHANGED swaps

TimeOut ==
  /\ tick.step = "timeOut"
  /\ UpdateAction(tick.job, "TIMED_OUT", "resume", "resume")
  /\ TickKeeps /\ UNCHANGED swaps

\* Mutant: an ambiguous close is believed although the position is still open.
BelievesAmbiguous(c) ==
  \/ local["pos"] = "CLOSING" /\ ~Seen("pos")
  \/ local["pos"] = "RECONCILIATION_REQUIRED" /\ c \in ambiguous

\* inferCloseConfirmedPosition and its two substitutes.
CloseIsConfirmed(c) ==
  /\ ~Seen("pos")
  /\ \/ local["pos"] = "CLOSING"
     \/ local["pos"] = "RECONCILIATION_REQUIRED" /\ c \in ambiguous

\* From these the inference asks for a transition to CLOSE_CONFIRMED that the
\* table does not have: it throws.
InferenceThrows ==
  /\ ~Seen("pos")
  /\ local["pos"] \in {"CLOSE_CONFIRMED", "RECONCILING"}
  /\ ~CanTransitionPosition(local["pos"], "CLOSE_CONFIRMED", "normal_close", FALSE)

\* Neither the store nor the gateway has the position: it throws as well.
NothingToMark == local["pos"] = "none" /\ ~Seen("pos")

\* finalizeClose up to its first write.  When the gateway fails to answer it
\* throws.
FinalizeClose ==
  /\ tick.step = "finalizeClose"
  /\ \/ /\ local["pos"] = "CLOSED"
        /\ Skip("reconciling")
     \/ /\ CloseIsConfirmed(tick.job)
        /\ UpdatePosition("pos", "RECONCILING", "swapMarker", "undoPosition")
     \/ /\ NothingToMark \/ InferenceThrows
        /\ Skip("resume")
     \/ /\ Fault
        /\ UNCHANGED <<action, local>> /\ To("resume")
     \/ /\ ~CloseIsConfirmed(tick.job) /\ ~InferenceThrows
        /\ ~NothingToMark /\ MayEscalate(local["pos"])
        /\ UpdatePosition("pos", "RECONCILIATION_REQUIRED", "timeOut", "resume")
  /\ TickKeeps /\ UNCHANGED swaps

\* Mutant: the swap is run before its marker is stored.
SwapFirst ==
  /\ tick.step = "swapMarker"
  /\ swaps' = [swaps EXCEPT ![tick.job] = @ + 1]
  /\ UpdateAction(tick.job, "RECONCILING", "close", "undoPosition")
  /\ TickKeeps

\* The marker POST_CLOSE_SWAP_IN_PROGRESS is stored before the swap is run.
SwapMarker ==
  /\ tick.step = "swapMarker"
  /\ UpdateAction(tick.job, "RECONCILING", "swap", "undoPosition")
  /\ TickKeeps /\ UNCHANGED swaps

Swap ==
  /\ tick.step = "swap"
  /\ swaps' = [swaps EXCEPT ![tick.job] = @ + 1]
  /\ \/ NoFault /\ To("close")
     \/ Fault /\ To("undoPosition")
  /\ TickKeeps /\ UNCHANGED <<action, local>>

Close ==
  /\ tick.step = "close"
  /\ UpdatePosition("pos", "CLOSED", "closeDone", "undoPosition")
  /\ TickKeeps /\ UNCHANGED swaps

CloseDone ==
  /\ tick.step = "closeDone"
  /\ UpdateAction(tick.job, "DONE", "resume", "undoPosition")
  /\ TickKeeps /\ UNCHANGED swaps

\* The catch block writes RECONCILIATION_REQUIRED from the copy it holds, not
\* from the store, which may say CLOSED by then; then FAILED.
UndoPosition ==
  /\ tick.step = "undoPosition"
  /\ UpdatePosition("pos", "RECONCILIATION_REQUIRED", "undoAction", "resume")
  /\ TickKeeps /\ UNCHANGED swaps

UndoAction ==
  /\ tick.step = "undoAction"
  /\ UpdateAction(tick.job, "FAILED", "resume", "resume")
  /\ TickKeeps /\ UNCHANGED swaps

\* The actions found in RECONCILING were interrupted.
Resume ==
  /\ tick.step = "resume"
  /\ UNCHANGED <<action, local, swaps, faults>>
  /\ \/ \E a \in Actions :
          /\ action[a] = "RECONCILING"
          /\ tick' = [Rest EXCEPT !.step = "recover", !.job = a]
     \/ /\ \A a \in Actions : action[a] # "RECONCILING"
        /\ tick' = [Rest EXCEPT !.step = "list"]
  /\ TickKeeps

Target(a) == IF a = Deploy THEN deployedAs ELSE "pos"

\* Mutant: an interrupted close counts as done.
RecoverAsDone ==
  /\ tick.step = "recover"
  /\ IF tick.job \in Closes
     THEN UpdateAction(tick.job, "DONE", "list", "list")
     ELSE UpdatePosition(Target(tick.job), "RECONCILIATION_REQUIRED", "recoverEnd", "list")
  /\ TickKeeps /\ UNCHANGED swaps

\* Mutant: a position that is CLOSED is marked as well.
RecoverClosed ==
  /\ tick.step = "recover"
  /\ UpdatePosition(Target(tick.job), "RECONCILIATION_REQUIRED", "recoverEnd", "list")
  /\ TickKeeps /\ UNCHANGED swaps

\* Mutant: only a close is looked after.
RecoverCloseOnly ==
  /\ tick.step = "recover"
  /\ IF tick.job = Deploy THEN Skip("list")
     ELSE IF local["pos"] = "CLOSED" THEN UpdateAction(tick.job, "DONE", "list", "list")
     ELSE UpdatePosition("pos", "RECONCILIATION_REQUIRED", "recoverEnd", "list")
  /\ TickKeeps /\ UNCHANGED swaps

\* recoverReconcilingAction: a close whose position is CLOSED is DONE; else
\* the position is marked, and the action FAILED.
Recover ==
  /\ tick.step = "recover"
  /\ LET s == local[Target(tick.job)] IN
       IF s = "CLOSED" /\ tick.job \in Closes
       THEN UpdateAction(tick.job, "DONE", "list", "list")
       ELSE IF s \in {"none", "CLOSED", "ABORTED"} THEN Skip("recoverEnd")
       ELSE UpdatePosition(Target(tick.job), "RECONCILIATION_REQUIRED", "recoverEnd", "list")
  /\ TickKeeps /\ UNCHANGED swaps

RecoverEnd ==
  /\ tick.step = "recoverEnd"
  /\ UpdateAction(tick.job, "FAILED", "list", "list")
  /\ TickKeeps /\ UNCHANGED swaps

-----------------------------------------------------------------------------
(* The reconciler: the wallet's snapshot *)

\* TRACKED_SNAPSHOT_STATUSES: every stored status but these.
Untracked == {"none", "DRAFT", "CLOSED", "FAILED", "ABORTED"}

\* The stored positions are listed before the snapshot is taken.
List ==
  /\ tick.step = "list"
  /\ tick' = [Rest EXCEPT !.step = "snapshot",
                !.tracked = {i \in Ids : local[i] \notin Untracked}]
  /\ TickKeeps /\ UNCHANGED <<action, local, swaps, faults>>

Snapshot ==
  /\ tick.step = "snapshot"
  /\ tick' = [tick EXCEPT !.step = "look", !.shown = (chain = "open")]
  /\ TickKeeps /\ UNCHANGED <<action, local, swaps, faults>>

\* shouldSyncLiveSnapshot
Syncable == {"OPEN", "HOLD", "MANAGEMENT_REVIEW", "RECONCILIATION_REQUIRED"}

\* Mutant: a position that needs reconciliation is not synchronised.
ComparedWithoutRestoring(i, shown) ==
  LET s == local[i] IN
  IF i = "pos" /\ shown
  THEN IF s \in Syncable \ {"RECONCILIATION_REQUIRED"} THEN {s} ELSE {}
  ELSE IF s \in {"none", "RECONCILIATION_REQUIRED", "CLOSED", "ABORTED"} THEN {}
       ELSE {"RECONCILIATION_REQUIRED"}

\* Mutant: a missing position is marked only when it was being managed.
ComparedWhenManaged(i, shown) ==
  LET s == local[i] IN
  IF i = "pos" /\ shown
  THEN IF s \notin Syncable THEN {}
       ELSE {IF s = "RECONCILIATION_REQUIRED" THEN "OPEN" ELSE s}
  ELSE IF s \in Syncable \ {"RECONCILIATION_REQUIRED"} THEN {"RECONCILIATION_REQUIRED"}
       ELSE {}

\* What the snapshot makes of a stored status: none of the two cases applies
\* to some, which are left alone.
Compared(i, shown) ==
  LET s == local[i] IN
  IF i = "pos" /\ shown
  THEN IF s \notin Syncable THEN {}
       ELSE {IF s = "RECONCILIATION_REQUIRED" THEN "OPEN" ELSE s}
  ELSE IF s \in {"none", "RECONCILIATION_REQUIRED", "CLOSED", "ABORTED"} THEN {}
       ELSE {"RECONCILIATION_REQUIRED"}

\* Under the position's lock the store is read again and compared with the
\* snapshot taken before; the write follows in a later step.
Look(i) ==
  /\ tick.step = "look" /\ i \in tick.tracked
  /\ IF Compared(i, tick.shown) = {}
     THEN tick' = [tick EXCEPT !.tracked = @ \ {i}]
     ELSE \E s \in Compared(i, tick.shown) :
            tick' = [tick EXCEPT !.step = "sync", !.at = i, !.write = s]
  /\ TickKeeps /\ UNCHANGED <<action, local, swaps, faults>>

\* A failing write ends the pass over the wallet.
Sync ==
  /\ tick.step = "sync"
  /\ \/ /\ NoFault /\ Put(tick.at, tick.write)
        /\ tick' = [tick EXCEPT !.step = "look", !.tracked = @ \ {tick.at},
                                !.at = "none", !.write = "none"]
     \/ Fault /\ UNCHANGED local /\ tick' = Rest
  /\ TickKeeps /\ UNCHANGED <<action, swaps>>

EndTick ==
  /\ tick.step = "look" /\ tick.tracked = {}
  /\ tick' = Rest
  /\ TickKeeps /\ UNCHANGED <<action, local, swaps, faults>>

-----------------------------------------------------------------------------
(* The management tick *)

ManagementOnly == UNCHANGED <<action, deployedAs, ambiguous, chainVars, booted, known,
                              worker, tick, observers, faults, crashes>>

\* runManagementCycle lists the position; its profit is above its peak.
ListManaged ==
  /\ booted /\ ~managed
  /\ MoreMayHappen /\ peaks < MaxPeaks
  /\ local["pos"] = "OPEN"
  /\ managed' = TRUE /\ peaks' = peaks + 1
  /\ ManagementOnly /\ UNCHANGED <<local, reopened>>

\* The whole record is written, as it was listed but for the peak.
RefreshPeak ==
  /\ managed
  /\ Put("pos", "OPEN")
  /\ managed' = FALSE
  /\ reopened' = (reopened \/ local["pos"] = "CLOSED")
  /\ ManagementOnly /\ UNCHANGED peaks

\* The tick fails before this write or at it, or the write is lost.
LetGo ==
  /\ managed
  /\ managed' = FALSE
  /\ ManagementOnly /\ UNCHANGED <<local, reopened, peaks>>

-----------------------------------------------------------------------------
(* The crash and the restart *)

Crash ==
  /\ booted
  /\ MoreMayHappen /\ crashes < MaxCrashes /\ crashes' = crashes + 1
  /\ booted' = FALSE /\ known' = FALSE
  /\ worker' = Idle /\ tick' = Rest /\ managed' = FALSE
  /\ UNCHANGED <<stores, chainVars, reopened, peaks, observers, faults>>

\* recoverStaleRunningActions with the result it makes up: the deploy's does
\* not name the position.
RecoverStale(a) ==
  /\ ~booted /\ action[a] = "RUNNING"
  /\ SetAction(a, "WAITING_CONFIRMATION")
  /\ deployedAs' = IF a = Deploy THEN "stale" ELSE deployedAs
  /\ ambiguous' = IF a = Deploy THEN ambiguous ELSE ambiguous \cup {a}
  /\ UNCHANGED <<local, chainVars, booted, known, worker, tick, management, observers,
                 faults, crashes>>

Boot ==
  /\ ~booted /\ \A a \in Actions : action[a] # "RUNNING"
  /\ booted' = TRUE
  /\ UNCHANGED <<stores, chainVars, known, worker, tick, management, observers, faults,
                 crashes>>

-----------------------------------------------------------------------------

Handle ==
  \/ Blocked \/ CloseRead \/ CloseStart \/ Send \/ Refuse \/ Succeed
  \/ Ambiguous \/ Fail \/ Store \/ Mark \/ Finish

Reconcile ==
  \/ ConfirmDeploy \/ Reconciling \/ Done \/ TimeOut
  \/ FinalizeClose \/ SwapMarker \/ Swap \/ Close \/ CloseDone
  \/ UndoPosition \/ UndoAction \/ Resume \/ Recover \/ RecoverEnd
  \/ List \/ Snapshot \/ Sync \/ EndTick
  \/ \E i \in Ids : Look(i)

Manage == ListManaged \/ RefreshPeak \/ LetGo

Next ==
  \/ \E a \in Actions : Request(a) \/ Claim(a) \/ Land(a) \/ Drop(a) \/ RecoverStale(a)
  \/ Handle \/ BeginTick \/ Reconcile \/ Manage \/ Crash \/ Boot

\* I/O settles, the timers keep calling, transactions land or expire, and a
\* process that died is started again.  Nothing is assumed of the management
\* tick, which may hold its record for any time.
Fairness ==
  /\ WF_vars(Handle) /\ WF_vars(BeginTick) /\ WF_vars(Reconcile) /\ WF_vars(Boot)
  /\ \A a \in Actions :
       WF_vars(Claim(a)) /\ WF_vars(Land(a) \/ Drop(a)) /\ WF_vars(RecoverStale(a))

Spec == Init /\ [][Next]_vars
FairSpec == Spec /\ Fairness

-----------------------------------------------------------------------------
(* Properties *)

WorkerSteps == {"idle", "read", "start", "send", "answer", "store", "mark", "finish"}
TickSteps ==
  {"idle", "confirmDeploy", "reconciling", "done", "timeOut", "finalizeClose",
   "swapMarker", "swap", "close", "closeDone", "undoPosition", "undoAction",
   "resume", "recover", "recoverEnd", "list", "snapshot", "look", "sync"}
Stored == {"none", "DEPLOYING", "OPEN", "CLOSING", "RECONCILING", "CLOSED",
           "RECONCILIATION_REQUIRED"}

TypeOK ==
  /\ action \in [Actions -> ActionStatuses \cup {"ABSENT"}]
  /\ deployedAs \in Ids \cup {"none"} /\ ambiguous \subseteq Closes
  /\ local \in [Ids -> Stored]
  /\ chain \in {"absent", "open", "closed"}
  /\ tx \in [Actions -> {"none", "sent", "landed"}]
  /\ booted \in BOOLEAN /\ known \in BOOLEAN
  /\ worker \in [step : WorkerSteps, job : Actions \cup {NoAction},
                 outcome : ActionStatuses \cup {"none"}, unsure : BOOLEAN]
  /\ tick \in [step : TickSteps, job : Actions \cup {NoAction}, tracked : SUBSET Ids,
               shown : BOOLEAN, at : Ids \cup {"none"}, write : Stored]
  /\ swaps \in [Closes -> Nat] /\ confirmed \subseteq Closes
  /\ managed \in BOOLEAN /\ reopened \in BOOLEAN
  /\ peaks \in 0..MaxPeaks /\ faults \in 0..MaxFaults /\ crashes \in 0..MaxCrashes

\* A position the store calls CLOSED is closed on the chain: not being shown
\* by the gateway is taken for a close only after a close was begun and the
\* position had been open.  A DONE close has its position closed there too, and
\* CLOSED in the store unless the management tick has written back a record
\* that it listed before; a DONE deploy has found its position on the chain
\* under its own address.
DoneMeansDone ==
  /\ local["pos"] = "CLOSED" => chain = "closed"
  /\ \A c \in Closes : action[c] = "DONE" =>
       chain = "closed" /\ (local["pos"] = "CLOSED" \/ reopened)
  /\ action[Deploy] = "DONE" => deployedAs = "pos" /\ chain # "absent"

\* The proceeds of a close are swapped at most once, whatever fails and
\* however often the process is restarted.
SwapAtMostOnce == \A c \in Closes : swaps[c] <= 1

\* CLOSED is left in two ways only: by the management tick, which writes back
\* a record that it listed while the position was OPEN, and, once a call of the
\* use cases has failed, by the catch block.  Handlers, recovery, snapshot pass
\* and a second close, which write positions from what they have read, spare it.
ClosedIsFinal ==
  [][local["pos"] = "CLOSED" /\ local'["pos"] # "CLOSED" =>
       \/ managed /\ local'["pos"] = "OPEN" /\ ~managed'
       \/ faults' > 0]_vars

\* Every submitted action is concluded: none is left to block its wallet.
SubmittedIsConcluded ==
  []<>(\A a \in Actions : action[a] \notin {"WAITING_CONFIRMATION", "RECONCILING"})

\* Once nothing fails or is overtaken any more the store follows the chain for
\* good.  A position closed there is CLOSED or marked, not OPEN or CLOSING as a
\* snapshot taken before or a record written back had it; and one that was
\* marked but is open on the chain is managed again.
StoreFollowsTheChain ==
  <>[](/\ chain = "closed" => local["pos"] \in {"CLOSED", "RECONCILIATION_REQUIRED"}
       /\ chain = "open" => local["pos"] # "RECONCILIATION_REQUIRED")

\* A close the gateway reported as successful does not end TIMED_OUT.
ConfirmedCloseIsNotTimedOut ==
  \A c \in confirmed : action[c] # "TIMED_OUT"
=============================================================================
