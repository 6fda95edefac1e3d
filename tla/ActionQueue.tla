---------------------------- MODULE ActionQueue ----------------------------
(***************************************************************************)
(* The action queue (src/app/services/ActionQueue.ts) over the action      *)
(* store (src/adapters/storage/ActionRepository.ts), with the workers that *)
(* drain it, the reconciler that concludes submitted actions, storage      *)
(* faults, and the crash and restart of the process.                       *)
(*                                                                         *)
(* Every repository call is one atomic step (FileStore serialises them per *)
(* file); the interleaving points are the awaits between such calls.  The  *)
(* handler of an action is outside this module: it may submit a            *)
(* transaction and then returns an outcome or throws.                      *)
(***************************************************************************)
EXTENDS Naturals, Sequences, Lifecycle

CONSTANTS
  Actions,        \* action ids; naturals, ordered as localeCompare orders ids
  Wallets,
  Positions,
  NoPosition,     \* the positionId of an action without a position
  WalletOf,       \* fields of the action that never change
  PositionOf,
  KeyOf,          \* idempotency key
  Keys,
  RequestedAt,    \* requestedAt, which the caller may choose
  Workers,        \* concurrent calls of processNext on one queue
  NoAction,
  MaxFaults,      \* bound: storage writes that may fail
  MaxCrashes      \* bound: process crashes

ASSUME ActionsAreOrdered == Actions \subseteq Nat
ASSUME RequestedAtType == RequestedAt \in [Actions -> Nat]
ASSUME WalletOfType == WalletOf \in [Actions -> Wallets]
ASSUME PositionOfType == PositionOf \in [Actions -> Positions \cup {NoPosition}]
ASSUME KeyOfType == KeyOf \in [Actions -> Keys]
ASSUME NoPositionIsNoPosition == NoPosition \notin Positions
ASSUME NoActionIsNoAction == NoAction \notin Actions
ASSUME BoundsAreNatural == MaxFaults \in Nat /\ MaxCrashes \in Nat

VARIABLES
  (* the action store, which survives a crash *)
  status,         \* status[a], "ABSENT" while a is not stored
  (* the process *)
  booted,         \* startup recovery is over and the timers run
  paused,
  stage,          \* stage[w]: where worker w is in processNext
  job,            \* job[w]: the action w has claimed
  outcome,        \* outcome[w]: what the handler returned to w
  walletLine,     \* walletLine[k]: the workers in the lock's queue, holder first
  positionLine,
  (* observers *)
  submitted,      \* submitted[w]: w's handler has sent its transaction
  submissions,    \* submissions[a]: transactions sent for a
  faults,
  crashes

locks == <<walletLine, positionLine>>
counters == <<faults, crashes>>
vars == <<status, booted, paused, stage, job, outcome, walletLine,
          positionLine, submitted, submissions, faults, crashes>>

Stages == {"idle", "claimed", "walletWait", "positionWait", "handling",
           "returned", "written", "unwinding", "requeueing"}

\* The handler's answers: the three statuses of QueueExecutionResult, or the
\* exception that failAction turns into FAILED.
Outcomes == {"WAITING_CONFIRMATION", "FAILED", "ABORTED", "threw"}
NoOutcome == "none"

Stored(a) == status[a] # "ABSENT"

\* The order of claimNextForProcessing: requestedAt, then the id.
Before(a, b) ==
  \/ RequestedAt[a] < RequestedAt[b]
  \/ RequestedAt[a] = RequestedAt[b] /\ a < b

\* Mutant: an action that waits for its confirmation no longer counts.
WalletIsRunning(k) ==
  \E a \in Actions : WalletOf[a] = k /\ status[a] = "RUNNING"

WalletIsBusy(k) ==
  \E a \in Actions : WalletOf[a] = k /\ status[a] \in ActiveWriteStatuses

Claimable(a) == status[a] \in ProcessableStatuses /\ ~WalletIsBusy(WalletOf[a])

Init ==
  /\ status = [a \in Actions |-> "ABSENT"]
  /\ booted = TRUE
  /\ paused = FALSE
  /\ stage = [w \in Workers |-> "idle"]
  /\ job = [w \in Workers |-> NoAction]
  /\ outcome = [w \in Workers |-> NoOutcome]
  /\ walletLine = [k \in Wallets |-> <<>>]
  /\ positionLine = [p \in Positions |-> <<>>]
  /\ submitted = [w \in Workers |-> FALSE]
  /\ submissions = [a \in Actions |-> 0]
  /\ faults = 0
  /\ crashes = 0

-----------------------------------------------------------------------------
(* Requests and operator commands *)

\* Mutant: a finished action no longer answers for its key.
EnqueueUnlessPending(a) ==
  /\ booted
  /\ ~Stored(a)
  /\ \A b \in Actions : KeyOf[b] = KeyOf[a] =>
       ~Stored(b) \/ status[b] \in TerminalStatuses
  /\ status' = [status EXCEPT ![a] = "QUEUED"]
  /\ UNCHANGED <<booted, paused, stage, job, outcome, locks,
                 submitted, submissions, counters>>

\* Mutant: a finished action is queued afresh by a repeated request.
EnqueueAgain(a) ==
  /\ booted
  /\ ~Stored(a) \/ status[a] \in TerminalStatuses
  /\ \A b \in Actions : Stored(b) => b = a \/ KeyOf[b] # KeyOf[a]
  /\ status' = [status EXCEPT ![a] = "QUEUED"]
  /\ UNCHANGED <<booted, paused, stage, job, outcome, locks,
                 submitted, submissions, counters>>

\* enqueue: upsertByIdempotencyKey stores a new action only when no stored
\* action, of whatever status, has its key; otherwise the caller is handed
\* the stored one and nothing changes.  The caller may pass any requestedAt.
Enqueue(a) ==
  /\ booted
  /\ ~Stored(a)
  /\ \A b \in Actions : Stored(b) => KeyOf[b] # KeyOf[a]
  /\ status' = [status EXCEPT ![a] = "QUEUED"]
  /\ UNCHANGED <<booted, paused, stage, job, outcome, locks,
                 submitted, submissions, counters>>

Pause ==
  /\ booted /\ ~paused
  /\ paused' = TRUE
  /\ UNCHANGED <<status, booted, stage, job, outcome, locks, submitted,
                 submissions, counters>>

Resume ==
  /\ paused
  /\ paused' = FALSE
  /\ UNCHANGED <<status, booted, stage, job, outcome, locks, submitted,
                 submissions, counters>>

-----------------------------------------------------------------------------
(* processNext *)

\* claimNextForProcessing: one atomic update picks the first processable
\* action of a wallet that has no active write, and marks it RUNNING.
Claim(w) ==
  /\ booted /\ ~paused
  /\ stage[w] = "idle"
  /\ \E a \in Actions :
       /\ Claimable(a)
       /\ \A b \in Actions : Claimable(b) => b = a \/ Before(a, b)
       /\ status' = [status EXCEPT ![a] = "RUNNING"]
       /\ job' = [job EXCEPT ![w] = a]
  /\ stage' = [stage EXCEPT ![w] = "claimed"]
  /\ UNCHANGED <<booted, paused, outcome, locks, submitted, submissions, counters>>

\* walletLock.withLock, after the journal entry for the claim.
QueueForWallet(w) ==
  /\ stage[w] = "claimed"
  /\ walletLine' = [walletLine EXCEPT ![WalletOf[job[w]]] = Append(@, w)]
  /\ stage' = [stage EXCEPT ![w] = "walletWait"]
  /\ UNCHANGED <<status, booted, paused, job, outcome, positionLine, submitted,
                 submissions, counters>>

\* The wallet lock is granted: the handler starts, unless the action has a
\* position, whose lock is asked for first.
HoldWallet(w) ==
  /\ stage[w] = "walletWait"
  /\ Head(walletLine[WalletOf[job[w]]]) = w
  /\ \/ /\ PositionOf[job[w]] = NoPosition
        /\ stage' = [stage EXCEPT ![w] = "handling"]
        /\ UNCHANGED positionLine
     \/ /\ PositionOf[job[w]] # NoPosition
        /\ positionLine' = [positionLine EXCEPT ![PositionOf[job[w]]] = Append(@, w)]
        /\ stage' = [stage EXCEPT ![w] = "positionWait"]
  /\ UNCHANGED <<status, booted, paused, job, outcome, walletLine, submitted,
                 submissions, counters>>

\* Mutant: the position lock is not awaited.
HoldPositionAtOnce(w) ==
  /\ stage[w] = "positionWait"
  /\ stage' = [stage EXCEPT ![w] = "handling"]
  /\ UNCHANGED <<status, booted, paused, job, outcome, locks, submitted,
                 submissions, counters>>

HoldPosition(w) ==
  /\ stage[w] = "positionWait"
  /\ Head(positionLine[PositionOf[job[w]]]) = w
  /\ stage' = [stage EXCEPT ![w] = "handling"]
  /\ UNCHANGED <<status, booted, paused, job, outcome, locks, submitted,
                 submissions, counters>>

\* The handler's transaction reaches the chain.
Submit(w) ==
  /\ stage[w] = "handling"
  /\ ~submitted[w]
  /\ submitted' = [submitted EXCEPT ![w] = TRUE]
  /\ submissions' = [submissions EXCEPT ![job[w]] = @ + 1]
  /\ UNCHANGED <<status, booted, paused, stage, job, outcome, locks, counters>>

\* The handler settles.  Once it has submitted it answers
\* WAITING_CONFIRMATION, except that a claim whose answer from the chain was
\* ambiguous throws when the position cannot be saved.
Return(w) ==
  /\ stage[w] = "handling"
  /\ \E o \in Outcomes :
       /\ submitted[w] /\ o # "WAITING_CONFIRMATION" =>
            o = "threw" /\ PositionOf[job[w]] # NoPosition /\ faults < MaxFaults
       /\ outcome' = [outcome EXCEPT ![w] = o]
       /\ faults' = IF submitted[w] /\ o = "threw" THEN faults + 1 ELSE faults
  /\ stage' = [stage EXCEPT ![w] = "returned"]
  /\ UNCHANGED <<status, booted, paused, job, locks, submitted, submissions, crashes>>

\* The status finalizeAction or failAction writes.
WrittenStatus(w) == IF outcome[w] = "threw" THEN "FAILED" ELSE outcome[w]

\* finalizeAction, or failAction when the handler threw: the whole record is
\* written from the copy taken at the claim, without reading it again.
WriteOutcome(w) ==
  /\ stage[w] = "returned"
  /\ CanTransitionAction("RUNNING", WrittenStatus(w))
  /\ status' = [status EXCEPT ![job[w]] = WrittenStatus(w)]
  /\ stage' = [stage EXCEPT ![w] = "written"]
  /\ UNCHANGED <<booted, paused, job, outcome, locks, submitted,
                 submissions, counters>>

\* The write fails: the error leaves both locks and reaches processNext.
WriteOutcomeFails(w) ==
  /\ stage[w] = "returned"
  /\ faults < MaxFaults
  /\ faults' = faults + 1
  /\ stage' = [stage EXCEPT ![w] = "unwinding"]
  /\ UNCHANGED <<status, booted, paused, job, outcome, locks, submitted,
                 submissions, crashes>>

\* Mutant: the position lock is never released.
LeaveWalletLock(w) ==
  /\ walletLine' = [walletLine EXCEPT ![WalletOf[job[w]]] = Tail(@)]
  /\ UNCHANGED positionLine

\* The finally blocks of withLock: position first, then wallet.
LeaveLocks(w) ==
  /\ walletLine' = [walletLine EXCEPT ![WalletOf[job[w]]] = Tail(@)]
  /\ positionLine' = [p \in Positions |->
                        IF p = PositionOf[job[w]] THEN Tail(positionLine[p])
                        ELSE positionLine[p]]

\* Mutant: the claimed action outlives its worker.
RetireKeepingJob(w) ==
  /\ stage' = [stage EXCEPT ![w] = "idle"]
  /\ outcome' = [outcome EXCEPT ![w] = NoOutcome]
  /\ submitted' = [submitted EXCEPT ![w] = FALSE]
  /\ UNCHANGED job

\* processNext returns or rejects, and the worker's variables are gone.
Retire(w) ==
  /\ stage' = [stage EXCEPT ![w] = "idle"]
  /\ job' = [job EXCEPT ![w] = NoAction]
  /\ outcome' = [outcome EXCEPT ![w] = NoOutcome]
  /\ submitted' = [submitted EXCEPT ![w] = FALSE]

Finish(w) ==
  /\ stage[w] = "written"
  /\ LeaveLocks(w)
  /\ Retire(w)
  /\ UNCHANGED <<status, booted, paused, submissions, counters>>

Unwind(w) ==
  /\ stage[w] = "unwinding"
  /\ LeaveLocks(w)
  /\ stage' = [stage EXCEPT ![w] = "requeueing"]
  /\ UNCHANGED <<status, booted, paused, job, outcome, submitted, submissions, counters>>

\* Mutant: the action is given up without being requeued.
RequeueNothing(w) ==
  /\ stage[w] = "requeueing"
  /\ Retire(w)
  /\ UNCHANGED <<status, booted, paused, locks, submissions, counters>>

\* requeueRunningAction: RUNNING -> FAILED -> RETRY_QUEUED in one write.
Requeue(w) ==
  /\ stage[w] = "requeueing"
  /\ CanTransitionAction("RUNNING", "FAILED")
  /\ CanTransitionAction("FAILED", "RETRY_QUEUED")
  /\ status' = [status EXCEPT ![job[w]] = "RETRY_QUEUED"]
  /\ Retire(w)
  /\ UNCHANGED <<booted, paused, locks, submissions, counters>>

\* The second write fails as well: the action stays RUNNING with no worker.
RequeueFails(w) ==
  /\ stage[w] = "requeueing"
  /\ faults < MaxFaults
  /\ faults' = faults + 1
  /\ Retire(w)
  /\ UNCHANGED <<status, booted, paused, locks, submissions, crashes>>

-----------------------------------------------------------------------------
(* The reconciler, the crash and the restart *)

\* Mutant: a confirmation that comes too late still ends the action.
ConcludeLate(a) ==
  /\ booted
  /\ \E s \in {"RECONCILING", "DONE", "FAILED", "TIMED_OUT"} :
       /\ \/ status[a] \in {"WAITING_CONFIRMATION", "RECONCILING"}
             /\ CanTransitionAction(status[a], s)
          \/ status[a] = "TIMED_OUT" /\ s = "DONE"
       /\ status' = [status EXCEPT ![a] = s]
  /\ UNCHANGED <<booted, paused, stage, job, outcome, locks,
                 submitted, submissions, counters>>

\* The confirmation use cases take a submitted action to its end with the
\* transitions of the table: through RECONCILING, or straight to TIMED_OUT
\* or FAILED.
Conclude(a) ==
  /\ booted
  /\ \E s \in {"RECONCILING", "DONE", "FAILED", "TIMED_OUT"} :
       /\ status[a] \in {"WAITING_CONFIRMATION", "RECONCILING"}
       /\ CanTransitionAction(status[a], s)
       /\ status' = [status EXCEPT ![a] = s]
  /\ UNCHANGED <<booted, paused, stage, job, outcome, locks,
                 submitted, submissions, counters>>

\* Only the files survive; the locks and the pause flag are memory.
Crash ==
  /\ crashes < MaxCrashes
  /\ crashes' = crashes + 1
  /\ booted' = FALSE
  /\ paused' = FALSE
  /\ stage' = [w \in Workers |-> "idle"]
  /\ job' = [w \in Workers |-> NoAction]
  /\ outcome' = [w \in Workers |-> NoOutcome]
  /\ submitted' = [w \in Workers |-> FALSE]
  /\ walletLine' = [k \in Wallets |-> <<>>]
  /\ positionLine' = [p \in Positions |-> <<>>]
  /\ UNCHANGED <<status, submissions, faults>>

\* Mutant: the recovery also runs while the workers do.
RecoverAnyRunning(a) ==
  /\ status[a] = "RUNNING"
  /\ status' = [status EXCEPT ![a] = "WAITING_CONFIRMATION"]
  /\ UNCHANGED <<booted, paused, stage, job, outcome, locks,
                 submitted, submissions, counters>>

\* Mutant: an interrupted action is run again.
RetryStale(a) ==
  /\ ~booted
  /\ status[a] = "RUNNING"
  /\ status' = [status EXCEPT ![a] = "RETRY_QUEUED"]
  /\ UNCHANGED <<booted, paused, stage, job, outcome, locks,
                 submitted, submissions, counters>>

\* recoverStaleRunningActions: a RUNNING action found at startup may have
\* been submitted, so it is handed to the reconciler.
RecoverStale(a) ==
  /\ ~booted
  /\ status[a] = "RUNNING"
  /\ CanTransitionAction("RUNNING", "WAITING_CONFIRMATION")
  /\ status' = [status EXCEPT ![a] = "WAITING_CONFIRMATION"]
  /\ UNCHANGED <<booted, paused, stage, job, outcome, locks,
                 submitted, submissions, counters>>

\* The checklist reports a failed write as an item that is not ok, and the
\* runtime starts nevertheless.
Boot ==
  /\ ~booted
  /\ \/ /\ \A a \in Actions : status[a] # "RUNNING"
        /\ UNCHANGED faults
     \/ /\ \E a \in Actions : status[a] = "RUNNING"
        /\ faults < MaxFaults
        /\ faults' = faults + 1
  /\ booted' = TRUE
  /\ UNCHANGED <<status, paused, stage, job, outcome, locks, submitted,
                 submissions, crashes>>

-----------------------------------------------------------------------------

WorkerStep(w) ==
  \/ Claim(w) \/ QueueForWallet(w) \/ HoldWallet(w) \/ HoldPosition(w)
  \/ Submit(w) \/ Return(w) \/ WriteOutcome(w) \/ WriteOutcomeFails(w)
  \/ Finish(w) \/ Unwind(w) \/ Requeue(w) \/ RequeueFails(w)

Next ==
  \/ \E a \in Actions : Enqueue(a) \/ Conclude(a) \/ RecoverStale(a)
  \/ \E w \in Workers : WorkerStep(w)
  \/ Pause \/ Resume \/ Crash \/ Boot

\* The timers call processAll again and again, handlers and I/O settle, and a
\* restarted process recovers and boots.  Nothing is assumed of Conclude: the
\* reconciler may stand still, or fail at the same action in every pass.
Fairness ==
  /\ \A w \in Workers : WF_vars(WorkerStep(w))
  /\ \A a \in Actions : WF_vars(RecoverStale(a))
  /\ WF_vars(Boot)

Spec == Init /\ [][Next]_vars
FairSpec == Spec /\ Fairness

-----------------------------------------------------------------------------
(* Properties *)

Holds(w, a) == stage[w] # "idle" /\ job[w] = a

TypeOK ==
  /\ status \in [Actions -> ActionStatuses \cup {"ABSENT"}]
  /\ booted \in BOOLEAN /\ paused \in BOOLEAN
  /\ stage \in [Workers -> Stages]
  /\ job \in [Workers -> Actions \cup {NoAction}]
  /\ \A w \in Workers : stage[w] = "idle" <=> job[w] = NoAction
  /\ outcome \in [Workers -> Outcomes \cup {NoOutcome}]
  /\ walletLine \in [Wallets -> Seq(Workers)]
  /\ positionLine \in [Positions -> Seq(Workers)]
  /\ submitted \in [Workers -> BOOLEAN]
  /\ submissions \in [Actions -> Nat]
  /\ faults \in 0..MaxFaults /\ crashes \in 0..MaxCrashes

\* A wallet never has two actions in RUNNING, WAITING_CONFIRMATION or
\* RECONCILING, however workers, the reconciler, failed writes, retries and
\* restarts interleave.  Only the claim looks at the other actions of the
\* wallet; every other write must keep an active action active or end it.
OneActiveWritePerWallet ==
  \A a, b \in Actions :
    /\ status[a] \in ActiveWriteStatuses
    /\ status[b] \in ActiveWriteStatuses
    /\ WalletOf[a] = WalletOf[b]
    => a = b

\* Two stored actions never share an idempotency key, so a repeated request
\* is one action.
OneActionPerKey ==
  \A a, b \in Actions : Stored(a) /\ Stored(b) /\ KeyOf[a] = KeyOf[b] => a = b

\* finalizeAction, failAction and requeueRunningAction write the record they
\* took at the claim without reading it again.  That is right only because
\* nobody else moves the action meanwhile: it stays RUNNING, in the hands of
\* one worker, until that worker's own write.
ClaimedActionIsUntouched ==
  /\ \A w \in Workers :
       stage[w] \notin {"idle", "written"} => status[job[w]] = "RUNNING"
  /\ \A v, w \in Workers :
       v # w /\ stage[v] \notin {"idle", "written"} /\ stage[w] \notin {"idle", "written"}
         => job[v] # job[w]

\* Handlers of one wallet never run together, nor do handlers of one
\* position, and a handler runs only at the head of its locks' queues.
HandlersAreExclusive ==
  \A w \in Workers : stage[w] \in {"handling", "returned"} =>
    /\ Head(walletLine[WalletOf[job[w]]]) = w
    /\ PositionOf[job[w]] # NoPosition => Head(positionLine[PositionOf[job[w]]]) = w

\* A RUNNING action that no worker of the running process holds: nobody will
\* move it, and its wallet is blocked until the next restart.
Orphaned(a) ==
  booted /\ status[a] = "RUNNING" /\ \A w \in Workers : ~Holds(w, a)

\* What a failed write costs.  An orphan takes two of them, the outcome's and
\* then the requeue's, or a restart whose recovery write fails.  And there is
\* one transaction per action but for those: only the requeue makes a handler
\* run twice, a restart never does.
FaultsAreContained ==
  /\ faults <= 1 /\ crashes = 0 => \A a \in Actions : ~Orphaned(a)
  /\ \A a \in Actions : submissions[a] <= 1 + faults

\* A terminal action is never written again, and every write follows the
\* table, the requeue being RUNNING -> FAILED -> RETRY_QUEUED at once.
StatusesFollowTheLifecycle ==
  [][\A a \in Actions : status'[a] # status[a] =>
       \/ status[a] = "ABSENT" /\ status'[a] = "QUEUED"
       \/ CanTransitionAction(status[a], status'[a]) /\ status[a] \notin TerminalStatuses
       \/ status[a] = "RUNNING" /\ status'[a] = "RETRY_QUEUED"]_vars

\* An action that the queue is not to move: submitted, so that its end is the
\* reconciler's, or orphaned.
LeftToOthers(a) ==
  status[a] \in {"WAITING_CONFIRMATION", "RECONCILING"} \/ Orphaned(a)

\* A stored action reaches a terminal status, across failed writes, retries
\* and a restart, provided the operator leaves the queue running in the end.
\* What stops it is an action of its own wallet, itself perhaps, that the
\* reconciler never concludes or that has lost its worker; no such action
\* holds up another wallet, though positions and their locks be shared.
EveryActionIsConcluded ==
  <>[]~paused => \A a \in Actions :
    \/ Stored(a) ~> status[a] \in TerminalStatuses
    \/ \E b \in Actions : WalletOf[b] = WalletOf[a] /\ <>[]LeftToOthers(b)

\* The queue as the rest of the runtime sees it.
PhaseOf(s) ==
  CASE s = "ABSENT" -> "unknown"
    [] s \in ProcessableStatuses -> "pending"
    [] s \in ActiveWriteStatuses -> "inFlight"
    [] OTHER -> "settled"

Ledger == INSTANCE WriteLedger WITH phase <- [a \in Actions |-> PhaseOf(status[a])]
ImplementsWriteLedger == Ledger!Spec
=============================================================================
