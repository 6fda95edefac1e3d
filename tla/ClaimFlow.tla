------------------------------ MODULE ClaimFlow ------------------------------
(***************************************************************************)
(* Claiming the fees of an open position: the handler the queue runs       *)
(* (processClaimFeesAction), the finalizer the reconciler runs             *)
(* (finalizeClaimFees) with what follows a claim - a swap of the proceeds, *)
(* or a swap and the redeploy of its output -, the recovery of interrupted *)
(* claims, the snapshot pass, and the crash and restart of the process.    *)
(*                                                                         *)
(* What module PositionFlow says of the locks, of the one active write per *)
(* wallet and of the management tick holds here too, with one exception:   *)
(* recoverReconcilingAction calls finalizeClaimFees while it holds the     *)
(* wallet's lock, and hands it that very lock.  KeyedLock is not           *)
(* reentrant, so the call waits for its own caller, and the reconciler     *)
(* stands still.  That is the runtime's wiring.  finalizeClaimFees resumes *)
(* a RECONCILING claim when it is called with locks of its own, as         *)
(* claimFlow.test.ts does; what it does then is the other wiring.  A swap  *)
(* gateway is configured.                                                  *)
(***************************************************************************)
EXTENDS Naturals, Lifecycle

CONSTANTS
  Claims,          \* CLAIM_FEES actions of the position
  NoClaim,
  Wirings,         \* the values of handsLocksDown to look at
  MaxFaults,       \* bound: calls of the stores and reads of the gateway that fail
  MaxCrashes,      \* bound: crashes of the process
  MaxPeaks,        \* bound: management ticks that find a new peak
  MaxEvents        \* bound: all of these together

ASSUME NoClaimIsNoClaim == NoClaim \notin Claims
ASSUME WiringsAreBoolean == Wirings \subseteq BOOLEAN
ASSUME BoundsAreNatural == MaxFaults \in Nat /\ MaxCrashes \in Nat /\ MaxPeaks \in Nat

\* What the request asks for after the claim.
Modes == {"none", "swap", "compound"}

\* The claimed amount in the result: "unavailable" goes with amount 0,
\* "stale" is the result that startup recovery makes up.
Results == {"none", "amount", "zero", "unavailable", "stale"}

Phases == {"NONE", "PENDING_SWAP", "SWAP_IN_PROGRESS", "SWAP_DONE",
           "DEPLOY_QUEUED", "FAILED", "MANUAL_REVIEW_REQUIRED"}

VARIABLES
  (* the stores *)
  action,     \* action[c]: its status, "ABSENT" before it is stored
  mode,       \* mode[c], from its request
  result,     \* result[c], of its submission
  phase,      \* phase[c]: the phase of autoSwap or autoCompound in the result
  local,      \* the stored position's status
  counted,    \* counted[c]: times c's amount was added to the position's fees
  redeploys,  \* redeploys[c]: DEPLOY actions stored for c
  (* the chain *)
  chain,      \* the position there: "open" or "closed"
  tx,         \* tx[c], the last sent: "none", "sent" or "landed"; "none" if it expires
  (* the process *)
  handsLocksDown,  \* the recovery hands its locks to finalizeClaimFees
  booted,
  known,      \* the gateway's recentDeploys has the position
  worker,     \* the queue's task
  tick,       \* the reconciler's task
  managed,    \* the management tick is to write back the record it has listed
  (* observers *)
  swaps,      \* swaps[c]: times a swap was sent for c
  unreported, \* claims that were submitted, but the queue could not store it
  peaks, faults, crashes

stores == <<action, mode, result, phase, local, counted, redeploys>>
chainVars == <<chain, tx>>
management == <<managed, peaks>>
vars == <<stores, chainVars, handsLocksDown, booted, known, worker, tick, management,
          swaps, unreported, faults, crashes>>

Idle == [step |-> "idle", job |-> NoClaim, outcome |-> "none", got |-> "none"]
Rest == [step |-> "idle", job |-> NoClaim, pass |-> "waiting", next |-> "NONE",
         shown |-> FALSE, write |-> "none"]

ClaimRequestable == {"OPEN", "MANAGEMENT_REVIEW", "HOLD", "PARTIAL_CLOSE_CONFIRMED"}

Init ==
  /\ action = [c \in Claims |-> "ABSENT"]
  /\ mode = [c \in Claims |-> "none"] /\ result = [c \in Claims |-> "none"]
  /\ phase = [c \in Claims |-> "NONE"]
  /\ local = "OPEN"
  /\ counted = [c \in Claims |-> 0] /\ redeploys = [c \in Claims |-> 0]
  /\ chain = "open" /\ tx = [c \in Claims |-> "none"]
  /\ handsLocksDown \in Wirings
  /\ booted = TRUE /\ known \in BOOLEAN
  /\ worker = Idle /\ tick = Rest
  /\ managed = FALSE /\ peaks = 0
  /\ swaps = [c \in Claims |-> 0] /\ unreported = {}
  /\ faults = 0 /\ crashes = 0

MoreMayHappen == peaks + faults + crashes < MaxEvents

Fault == MoreMayHappen /\ faults < MaxFaults /\ faults' = faults + 1
NoFault == UNCHANGED faults

-----------------------------------------------------------------------------
(* The queue: request, claim of the action, handler *)

QueueKeeps == UNCHANGED <<chainVars, handsLocksDown, booted, known, tick, management,
                          swaps, unreported, crashes>>

\* requestClaimFees
Request(c) ==
  /\ booted /\ action[c] = "ABSENT" /\ local \in ClaimRequestable
  /\ action' = [action EXCEPT ![c] = "QUEUED"]
  /\ \E m \in Modes : mode' = [mode EXCEPT ![c] = m]
  /\ UNCHANGED <<result, phase, local, counted, redeploys, worker, faults>>
  /\ QueueKeeps

Take(c) ==
  /\ booted /\ worker.step = "idle"
  /\ action[c] \in ProcessableStatuses
  /\ \A b \in Claims : action[b] \notin ActiveWriteStatuses
  /\ action' = [action EXCEPT ![c] = "RUNNING"]
  /\ worker' = [Idle EXCEPT !.step = "read", !.job = c]
  /\ UNCHANGED <<mode, result, phase, local, counted, redeploys, faults>>
  /\ QueueKeeps

HandlerKeeps == UNCHANGED <<action, mode, result, phase, counted, redeploys, chain,
                            handsLocksDown, booted, known, tick, management, swaps,
                            unreported, crashes>>

GoOn(step) == worker' = [worker EXCEPT !.step = step]
Throw == worker' = [worker EXCEPT !.step = "finish", !.outcome = "FAILED"]
Submitted(step, got) ==
  worker' = [worker EXCEPT !.step = step, !.outcome = "WAITING_CONFIRMATION", !.got = got]

Read ==
  /\ worker.step = "read"
  /\ IF local \in ClaimRequestable THEN GoOn("send") ELSE Throw
  /\ HandlerKeeps /\ UNCHANGED <<local, tx, faults>>

Send ==
  /\ worker.step = "send" /\ chain = "open"
  /\ tx' = [tx EXCEPT ![worker.job] = "sent"]
  /\ GoOn("answer")
  /\ HandlerKeeps /\ UNCHANGED <<local, faults>>

\* The gateway throws before it has sent anything, or after: a claim may take
\* several transactions, and some have landed when a later one is refused.
Refuse ==
  /\ worker.step \in {"send", "answer"}
  /\ Throw
  /\ HandlerKeeps /\ UNCHANGED <<local, tx, faults>>

Succeed ==
  /\ worker.step = "answer" /\ tx[worker.job] = "landed"
  /\ \E got \in {"amount", "zero", "unavailable"} : Submitted("store", got)
  /\ HandlerKeeps /\ UNCHANGED <<local, tx, faults>>

Ambiguous ==
  /\ worker.step = "answer"
  /\ Submitted("mark", "unavailable")
  /\ HandlerKeeps /\ UNCHANGED <<local, tx, faults>>

\* After an ambiguous submission a failing write of the position throws.
Mark ==
  /\ worker.step = "mark"
  /\ \/ NoFault /\ local' = "RECONCILIATION_REQUIRED" /\ GoOn("finish")
     \/ Fault /\ UNCHANGED local /\ Throw
  /\ HandlerKeeps /\ UNCHANGED tx

\* Mutant: the status stored is that of the request.
StoreRequested ==
  /\ worker.step = "store"
  /\ \/ NoFault /\ local' = "CLAIM_REQUESTED" /\ GoOn("finish")
     \/ Fault /\ local' \in {local, "CLAIM_REQUESTED"} /\ GoOn("undo")
  /\ HandlerKeeps /\ UNCHANGED tx

\* CLAIMING is stored after the submission, over whatever is there now; when
\* that write or the journal's fails the position is marked, if it can be.
Store ==
  /\ worker.step = "store"
  /\ \/ NoFault /\ local' = "CLAIMING" /\ GoOn("finish")
     \/ Fault /\ local' \in {local, "CLAIMING"} /\ GoOn("undo")
  /\ HandlerKeeps /\ UNCHANGED tx

Undo ==
  /\ worker.step = "undo"
  /\ \/ NoFault /\ local' = "RECONCILIATION_REQUIRED"
     \/ Fault /\ UNCHANGED local
  /\ GoOn("finish")
  /\ HandlerKeeps /\ UNCHANGED tx

\* The outcome is stored by finalizeAction or failAction.
Finish ==
  /\ worker.step = "finish"
  /\ LET c == worker.job
         waits == worker.outcome = "WAITING_CONFIRMATION"
     IN  /\ action' = [action EXCEPT ![c] = worker.outcome]
         /\ result' = IF waits THEN [result EXCEPT ![c] = worker.got] ELSE result
         /\ phase' = IF waits /\ mode[c] # "none"
                     THEN [phase EXCEPT ![c] = "PENDING_SWAP"] ELSE phase
  /\ worker' = Idle
  /\ UNCHANGED <<mode, local, counted, redeploys, faults>>
  /\ QueueKeeps

\* That write fails.
FinishFails ==
  /\ worker.step = "finish"
  /\ Fault
  /\ GoOn("requeue")
  /\ unreported' = IF worker.outcome = "WAITING_CONFIRMATION"
                   THEN unreported \cup {worker.job} ELSE unreported
  /\ UNCHANGED <<stores, chainVars, handsLocksDown, booted, known, tick, management,
                 swaps, crashes>>

\* requeueRunningAction: the handler will run again, from the beginning.  When
\* this fails too the action stays RUNNING, to be found at the next start.
Requeue ==
  /\ worker.step = "requeue"
  /\ \/ NoFault /\ action' = [action EXCEPT ![worker.job] = "RETRY_QUEUED"]
     \/ Fault /\ UNCHANGED action
  /\ worker' = Idle
  /\ UNCHANGED <<mode, result, phase, local, counted, redeploys>>
  /\ QueueKeeps

-----------------------------------------------------------------------------
(* The chain *)

ChainKeeps == UNCHANGED <<stores, handsLocksDown, booted, worker, tick, management,
                          swaps, unreported, faults, crashes>>

Land(c) ==
  /\ tx[c] = "sent" /\ chain = "open"
  /\ tx' = [tx EXCEPT ![c] = "landed"]
  /\ ChainKeeps /\ UNCHANGED <<chain, known>>

Drop(c) ==
  /\ tx[c] = "sent"
  /\ tx' = [tx EXCEPT ![c] = "none"]
  /\ ChainKeeps /\ UNCHANGED <<chain, known>>

\* The position is closed by other means than this process.
Leave ==
  /\ chain = "open" /\ chain' = "closed"
  /\ ChainKeeps /\ UNCHANGED <<tx, known>>

\* pruneEphemeralCaches
Forget ==
  /\ known /\ known' = FALSE
  /\ ChainKeeps /\ UNCHANGED chainVars

-----------------------------------------------------------------------------
(* The finalizer *)

TickKeeps == UNCHANGED <<mode, result, chainVars, handsLocksDown, booted, known, worker,
                         management, unreported, crashes>>
To(step) == tick' = [tick EXCEPT !.step = step]

\* An exception ends the action's turn: the waiting pass is followed by the
\* recovery of RECONCILING actions, that by the snapshot pass.
Out == To(IF tick.pass = "waiting" THEN "resume" ELSE "snapshot")

SetAction(s, next) ==
  \/ NoFault /\ action' = [action EXCEPT ![tick.job] = s] /\ next
  \/ Fault /\ UNCHANGED action /\ Out

SetPosition(s, next) ==
  \/ NoFault /\ local' = s /\ next
  \/ Fault /\ UNCHANGED local /\ Out

\* persistReconcilingAction; the write, or the journal's after it, may fail.
Persist(p, next) ==
  \/ NoFault /\ phase' = [phase EXCEPT ![tick.job] = p] /\ next
  \/ Fault /\ phase' \in {phase, [phase EXCEPT ![tick.job] = p]} /\ Out

Seen == chain = "open" \/ known

BeginTick ==
  /\ booted /\ tick.step = "idle"
  /\ \/ \E c \in Claims : /\ action[c] = "WAITING_CONFIRMATION"
                          /\ tick' = [Rest EXCEPT !.step = "finalize", !.job = c]
     \/ /\ \A c \in Claims : action[c] # "WAITING_CONFIRMATION"
        /\ tick' = [Rest EXCEPT !.step = "resume"]
  /\ TickKeeps /\ UNCHANGED <<action, phase, local, counted, redeploys, swaps, faults>>

\* The made-up result has no reason, and the schema demands one: it throws.
Unreadable ==
  /\ tick.step = "finalize" /\ result[tick.job] = "stale"
  /\ Out
  /\ TickKeeps /\ UNCHANGED <<action, phase, local, counted, redeploys, swaps, faults>>

Finalizes == tick.step = "finalize" /\ result[tick.job] # "stale"

\* The gateway fails to answer.
ReadFails ==
  /\ Finalizes
  /\ Fault /\ Out
  /\ TickKeeps /\ UNCHANGED <<action, phase, local, counted, redeploys, swaps>>

\* The position is OPEN here and there: there is nothing to confirm.
FinalizeOpen ==
  /\ Finalizes /\ Seen /\ local = "OPEN"
  /\ SetAction("RECONCILING", To("post"))
  /\ TickKeeps /\ UNCHANGED <<phase, local, counted, redeploys, swaps>>

FinalizeMarked ==
  /\ Finalizes /\ Seen /\ local = "RECONCILIATION_REQUIRED"
  /\ SetPosition("RECONCILING", To("reconciling"))
  /\ TickKeeps /\ UNCHANGED <<action, phase, counted, redeploys, swaps>>

\* Mutant: a position that is RECONCILING already is confirmed again.
ConfirmAgain ==
  /\ Finalizes /\ Seen /\ local \in {"CLAIMING", "RECONCILING"}
  /\ SetPosition("RECONCILING", To("reconciling"))
  /\ counted' = IF local' = "RECONCILING" /\ UNCHANGED faults
                THEN [counted EXCEPT ![tick.job] = @ + 1] ELSE counted
  /\ TickKeeps /\ UNCHANGED <<action, phase, redeploys, swaps>>

\* A CLAIMING position is confirmed, and the claimed amount added to its fees
\* in the same write.
FinalizeClaiming ==
  /\ Finalizes /\ Seen /\ local = "CLAIMING"
  /\ SetPosition("RECONCILING", To("reconciling"))
  /\ counted' = IF local' = "RECONCILING"
                THEN [counted EXCEPT ![tick.job] = @ + 1] ELSE counted
  /\ TickKeeps /\ UNCHANGED <<action, phase, redeploys, swaps>>

\* Mutant: the action is given up before the position is marked, and the
\* position is not marked at all.
GiveUpSilently ==
  /\ Finalizes
  /\ ~(Seen /\ local \in {"OPEN", "RECONCILIATION_REQUIRED", "CLAIMING"})
  /\ UNCHANGED local /\ NoFault /\ To("timeOut")
  /\ TickKeeps /\ UNCHANGED <<action, phase, counted, redeploys, swaps>>

\* Anything else cannot be confirmed.
FinalizeUnconfirmed ==
  /\ Finalizes
  /\ ~(Seen /\ local \in {"OPEN", "RECONCILIATION_REQUIRED", "CLAIMING"})
  /\ SetPosition("RECONCILIATION_REQUIRED", To("timeOut"))
  /\ TickKeeps /\ UNCHANGED <<action, phase, counted, redeploys, swaps>>

TimeOut ==
  /\ tick.step = "timeOut"
  /\ SetAction("TIMED_OUT", Out)
  /\ TickKeeps /\ UNCHANGED <<phase, local, counted, redeploys, swaps>>

Reconciling ==
  /\ tick.step = "reconciling"
  /\ SetAction("RECONCILING", To("post"))
  /\ TickKeeps /\ UNCHANGED <<phase, local, counted, redeploys, swaps>>

-----------------------------------------------------------------------------
(* After the claim: runClaimPostProcessing *)

PostKeeps == TickKeeps /\ UNCHANGED <<action, local, counted>>

\* A compound always begins with its swap; the simple swap only when there is
\* an amount (a result that is unavailable has none).
SwapIsDue(c) ==
  /\ phase[c] = "PENDING_SWAP"
  /\ mode[c] = "swap" => result[c] = "amount"

\* SWAP_IN_PROGRESS is stored before the swap is sent.
SwapMarker ==
  /\ tick.step = "post" /\ SwapIsDue(tick.job)
  /\ Persist("SWAP_IN_PROGRESS", To("swap"))
  /\ PostKeeps /\ UNCHANGED <<redeploys, swaps>>

\* Mutant: an interrupted swap is sent again.
SwapAgain ==
  /\ tick.step = "post" /\ phase[tick.job] = "SWAP_IN_PROGRESS"
  /\ Persist("SWAP_IN_PROGRESS", To("swap"))
  /\ PostKeeps /\ UNCHANGED <<redeploys, swaps>>

\* Found in progress, it was interrupted, and nobody knows whether it was sent.
SwapInterrupted ==
  /\ tick.step = "post" /\ phase[tick.job] = "SWAP_IN_PROGRESS"
  /\ Persist("MANUAL_REVIEW_REQUIRED", To("open"))
  /\ PostKeeps /\ UNCHANGED <<redeploys, swaps>>

RedeployIsDue(c) == mode[c] = "compound" /\ phase[c] = "SWAP_DONE"

PostDone ==
  /\ tick.step = "post"
  /\ ~SwapIsDue(tick.job) /\ phase[tick.job] # "SWAP_IN_PROGRESS"
  /\ To(IF RedeployIsDue(tick.job) THEN "redeploy" ELSE "open")
  /\ PostKeeps /\ UNCHANGED <<phase, redeploys, swaps, faults>>

Intend(p, step) == tick' = [tick EXCEPT !.step = step, !.next = p]

\* Mutant: the missing amount of a compound is not looked at.
SwapBlindly ==
  /\ tick.step = "swap"
  /\ swaps' = [swaps EXCEPT ![tick.job] = @ + 1]
  /\ Intend("SWAP_DONE", "swapped")
  /\ PostKeeps /\ UNCHANGED <<phase, redeploys, faults>>

\* The hook sends the swap and learns its outcome or not; or it throws before
\* it sends anything: the amount has no raw form, or the quote is refused.
Swap ==
  /\ tick.step = "swap" /\ result[tick.job] # "unavailable"
  /\ swaps' = [swaps EXCEPT ![tick.job] = @ + 1]
  /\ \E p \in {"SWAP_DONE", "FAILED"} : Intend(p, "swapped")
  /\ PostKeeps /\ UNCHANGED <<phase, redeploys, faults>>

SwapRefused ==
  /\ tick.step = "swap"
  /\ Intend("FAILED", "swapped")
  /\ PostKeeps /\ UNCHANGED <<phase, redeploys, swaps, faults>>

Swapped ==
  /\ tick.step = "swapped"
  /\ Persist(tick.next,
             To(IF tick.next = "SWAP_DONE" /\ mode[tick.job] = "compound"
                THEN "redeploy" ELSE "open"))
  /\ PostKeeps /\ UNCHANGED <<redeploys, swaps>>

\* Mutant: every attempt enqueues under a key of its own.
RedeployFreshKey ==
  /\ tick.step = "redeploy"
  /\ redeploys' = [redeploys EXCEPT ![tick.job] = @ + 1]
  /\ NoFault /\ Intend("DEPLOY_QUEUED", "enqueued")
  /\ PostKeeps /\ UNCHANGED <<phase, swaps>>

\* requestDeploy stores the action under <actionId>:AUTO_COMPOUND_DEPLOY,
\* unless one with this key is stored; the call may fail before or after that.
Redeploy ==
  /\ tick.step = "redeploy"
  /\ \/ /\ NoFault /\ Intend("DEPLOY_QUEUED", "enqueued")
        /\ redeploys' = [redeploys EXCEPT ![tick.job] = 1]
     \/ /\ Fault /\ To("lookUp")
        /\ redeploys' \in {redeploys, [redeploys EXCEPT ![tick.job] = 1]}
  /\ PostKeeps /\ UNCHANGED <<phase, swaps>>

\* Mutant: a redeploy that is not allowed now is left to the next tick.
RedeployPutOff ==
  /\ tick.step = "redeploy"
  /\ Out
  /\ PostKeeps /\ UNCHANGED <<phase, redeploys, swaps, faults>>

\* The breaker, the risk guard or the swap's result does not allow it (now).
RedeployBlocked ==
  /\ tick.step = "redeploy"
  /\ To("lookUp")
  /\ PostKeeps /\ UNCHANGED <<phase, redeploys, swaps, faults>>

\* Mutant: an error means that nothing was enqueued.
NoLookUp ==
  /\ tick.step = "lookUp"
  /\ NoFault /\ Intend("FAILED", "enqueued")
  /\ PostKeeps /\ UNCHANGED <<phase, redeploys, swaps>>

\* After an error the action is looked up by its key; when that fails as well
\* it counts as missing.
LookUp ==
  /\ tick.step = "lookUp"
  /\ \/ /\ NoFault
        /\ Intend(IF redeploys[tick.job] > 0 THEN "DEPLOY_QUEUED" ELSE "FAILED", "enqueued")
     \/ Fault /\ Intend("FAILED", "enqueued")
  /\ PostKeeps /\ UNCHANGED <<phase, redeploys, swaps>>

Enqueued ==
  /\ tick.step = "enqueued"
  /\ Persist(tick.next, To("open"))
  /\ PostKeeps /\ UNCHANGED <<redeploys, swaps>>

Open ==
  /\ tick.step = "open"
  /\ SetPosition("OPEN", To("done"))
  /\ TickKeeps /\ UNCHANGED <<action, phase, counted, redeploys, swaps>>

Done ==
  /\ tick.step = "done"
  /\ SetAction("DONE", Out)
  /\ TickKeeps /\ UNCHANGED <<phase, local, counted, redeploys, swaps>>

-----------------------------------------------------------------------------
(* The recovery of interrupted claims, and the snapshot pass *)

Resume ==
  /\ tick.step = "resume"
  /\ \/ \E c \in Claims :
          /\ action[c] = "RECONCILING"
          /\ tick' = [Rest EXCEPT !.step = "recover", !.job = c, !.pass = "recovery"]
     \/ /\ \A c \in Claims : action[c] # "RECONCILING"
        /\ tick' = [Rest EXCEPT !.step = "snapshot"]
  /\ TickKeeps /\ UNCHANGED <<action, phase, local, counted, redeploys, swaps, faults>>

\* recoverReconcilingAction has taken the wallet's lock when it calls
\* finalizeClaimFees, whose own call of withLock returns only if the lock is
\* another one.
Recover ==
  /\ tick.step = "recover" /\ ~handsLocksDown
  /\ IF local \in {"RECONCILING", "OPEN"} THEN To("post") ELSE Out
  /\ TickKeeps /\ UNCHANGED <<action, phase, local, counted, redeploys, swaps, faults>>

Snapshot ==
  /\ tick.step = "snapshot"
  /\ tick' = [Rest EXCEPT !.step = "look", !.shown = (chain = "open")]
  /\ TickKeeps /\ UNCHANGED <<action, phase, local, counted, redeploys, swaps, faults>>

\* Mutant: a missing position is marked only when it was being managed.
ComparedWhenManaged(shown) ==
  IF shown
  THEN IF local \in {"OPEN", "RECONCILIATION_REQUIRED"} THEN {"OPEN"} ELSE {}
  ELSE IF local = "OPEN" THEN {"RECONCILIATION_REQUIRED"} ELSE {}

\* What the snapshot makes of the stored status, if anything.
Compared(shown) ==
  IF shown
  THEN IF local \in {"OPEN", "RECONCILIATION_REQUIRED"} THEN {"OPEN"} ELSE {}
  ELSE {"RECONCILIATION_REQUIRED"} \ {local}

Look ==
  /\ tick.step = "look"
  /\ IF Compared(tick.shown) = {} THEN tick' = Rest
     ELSE \E s \in Compared(tick.shown) :
            tick' = [tick EXCEPT !.step = "sync", !.write = s]
  /\ TickKeeps /\ UNCHANGED <<action, phase, local, counted, redeploys, swaps, faults>>

Sync ==
  /\ tick.step = "sync"
  /\ \/ NoFault /\ local' = tick.write
     \/ Fault /\ UNCHANGED local
  /\ tick' = Rest
  /\ TickKeeps /\ UNCHANGED <<action, phase, counted, redeploys, swaps>>

-----------------------------------------------------------------------------
(* The management tick, as in PositionFlow *)

ManagementOnly ==
  UNCHANGED <<action, mode, result, phase, counted, redeploys, chainVars, handsLocksDown,
              booted, known, worker, tick, swaps, unreported, faults, crashes>>

ListManaged ==
  /\ booted /\ ~managed
  /\ MoreMayHappen /\ peaks < MaxPeaks
  /\ local = "OPEN"
  /\ managed' = TRUE /\ peaks' = peaks + 1
  /\ ManagementOnly /\ UNCHANGED local

RefreshPeak ==
  /\ managed /\ managed' = FALSE
  /\ local' = "OPEN"
  /\ ManagementOnly /\ UNCHANGED peaks

LetGo ==
  /\ managed /\ managed' = FALSE
  /\ ManagementOnly /\ UNCHANGED <<local, peaks>>

Manage == ListManaged \/ RefreshPeak \/ LetGo

-----------------------------------------------------------------------------
(* The crash and the restart *)

Crash ==
  /\ booted /\ booted' = FALSE
  /\ MoreMayHappen /\ crashes < MaxCrashes /\ crashes' = crashes + 1
  /\ known' = FALSE /\ worker' = Idle /\ tick' = Rest /\ managed' = FALSE
  /\ UNCHANGED <<stores, chainVars, handsLocksDown, peaks, swaps, unreported, faults>>

\* recoverStaleRunningActions
RecoverStale(c) ==
  /\ ~booted /\ action[c] = "RUNNING"
  /\ action' = [action EXCEPT ![c] = "WAITING_CONFIRMATION"]
  /\ result' = [result EXCEPT ![c] = "stale"]
  /\ UNCHANGED <<mode, phase, local, counted, redeploys, worker, faults>>
  /\ QueueKeeps

Boot ==
  /\ ~booted /\ \A c \in Claims : action[c] # "RUNNING"
  /\ booted' = TRUE
  /\ UNCHANGED <<stores, chainVars, handsLocksDown, known, worker, tick, management,
                 swaps, unreported, faults, crashes>>

-----------------------------------------------------------------------------

Handle ==
  \/ Read \/ Send \/ Refuse \/ Succeed \/ Ambiguous \/ Mark \/ Store \/ Undo
  \/ Finish \/ FinishFails \/ Requeue

PostProcess ==
  \/ SwapMarker \/ SwapInterrupted \/ PostDone \/ Swap \/ SwapRefused \/ Swapped
  \/ Redeploy \/ RedeployBlocked \/ LookUp \/ Enqueued \/ Open \/ Done

Reconcile ==
  \/ Unreadable \/ ReadFails \/ FinalizeOpen \/ FinalizeMarked \/ FinalizeClaiming
  \/ FinalizeUnconfirmed \/ TimeOut \/ Reconciling \/ PostProcess
  \/ Resume \/ Recover \/ Snapshot \/ Look \/ Sync

Next ==
  \/ \E c \in Claims : Request(c) \/ Take(c) \/ Land(c) \/ Drop(c) \/ RecoverStale(c)
  \/ Handle \/ Leave \/ Forget \/ BeginTick \/ Reconcile \/ Manage \/ Crash \/ Boot

\* I/O settles, the timers keep calling, transactions land or expire, the
\* gateway's cache expires, and a process that died is started again; nothing
\* is assumed of the management tick.
Fairness ==
  /\ WF_vars(Handle) /\ WF_vars(BeginTick) /\ WF_vars(Reconcile)
  /\ WF_vars(Boot) /\ WF_vars(Forget)
  /\ \A c \in Claims :
       WF_vars(Take(c)) /\ WF_vars(Land(c) \/ Drop(c)) /\ WF_vars(RecoverStale(c))

Spec == Init /\ [][Next]_vars
FairSpec == Spec /\ Fairness

-----------------------------------------------------------------------------
(* Properties *)

WorkerSteps == {"idle", "read", "send", "answer", "mark", "store", "undo", "finish",
                "requeue"}
TickSteps ==
  {"idle", "finalize", "timeOut", "reconciling", "post", "swap", "swapped",
   "redeploy", "lookUp", "enqueued", "open", "done", "resume", "recover",
   "snapshot", "look", "sync"}
Stored == {"OPEN", "CLAIMING", "RECONCILING", "RECONCILIATION_REQUIRED"}

WorkerTyped ==
  worker \in [step : WorkerSteps, job : Claims \cup {NoClaim},
              outcome : {"none", "WAITING_CONFIRMATION", "FAILED"}, got : Results]

TickTyped ==
  tick \in [step : TickSteps, job : Claims \cup {NoClaim},
            pass : {"waiting", "recovery"}, next : Phases, shown : BOOLEAN,
            write : Stored \cup {"none"}]

TypeOK ==
  /\ action \in [Claims -> ActionStatuses \cup {"ABSENT"}]
  /\ mode \in [Claims -> Modes] /\ result \in [Claims -> Results]
  /\ phase \in [Claims -> Phases]
  /\ local \in Stored
  /\ counted \in [Claims -> Nat] /\ redeploys \in [Claims -> Nat]
  /\ chain \in {"open", "closed"}
  /\ tx \in [Claims -> {"none", "sent", "landed"}]
  /\ handsLocksDown \in BOOLEAN /\ booted \in BOOLEAN /\ known \in BOOLEAN
  /\ WorkerTyped /\ TickTyped
  /\ managed \in BOOLEAN /\ peaks \in 0..MaxPeaks
  /\ swaps \in [Claims -> Nat] /\ unreported \subseteq Claims
  /\ faults \in 0..MaxFaults /\ crashes \in 0..MaxCrashes

\* The proceeds of a claim are swapped at most once, whatever fails, crashes
\* or is resumed.
SwapAtMostOnce == \A c \in Claims : swaps[c] <= 1

\* Only a claim that reached the chain is followed by a swap: what an
\* ambiguous submission may have claimed is never guessed at.
SwapNeedsClaim == \A c \in Claims : swaps[c] > 0 => tx[c] = "landed"

\* A claim is followed by at most one redeploy, and only after its swap.
RedeployFollowsSwap ==
  \A c \in Claims :
    redeploys[c] <= 1 /\ (redeploys[c] = 1 => mode[c] = "compound" /\ swaps[c] = 1)

\* The claimed amount is added to the position's fees at most once.
CountedAtMostOnce == \A c \in Claims : counted[c] <= 1

\* The effects of a claim come in their order and each at most once.
EffectsInOrder ==
  SwapAtMostOnce /\ SwapNeedsClaim /\ RedeployFollowsSwap /\ CountedAtMostOnce

\* A claim that is DONE tells truly whether its redeploy was enqueued, even
\* when enqueuing and recording it were separated by a failed call or a
\* crash.  Two of these in a row are beyond it: a look-up that fails counts
\* as "nothing enqueued".
DoneTellsRedeploy ==
  faults + crashes <= 1 =>
    \A c \in Claims :
      action[c] = "DONE" => (phase[c] = "DEPLOY_QUEUED" <=> redeploys[c] > 0)

\* In the runtime's wiring the first call that fails, or the first crash, while
\* a claim is being finalized stops the reconciler: its next tick waits for a
\* lock of its own.
StandsStill ==
  handsLocksDown /\ tick.step = "recover" /\ faults + crashes > 0

\* A claim submitted by a handler that lived to report it is concluded, and
\* does not block its wallet, as long as the position is open on the chain and
\* the reconciler does not stand still.
ReportedClaimIsConcluded ==
  \A c \in Claims :
    action[c] \in {"WAITING_CONFIRMATION", "RECONCILING"} ~>
      \/ action[c] \in TerminalStatuses
      \/ result[c] = "stale" \/ chain = "closed" \/ StandsStill

\* A position put aside for a claim comes back to management, while it is
\* open, no claim's handler was interrupted or unable to report what it had
\* submitted (it runs again, and refuses a CLAIMING position), and the
\* reconciler does not stand still; a position that is closed behind the
\* program's back does not stay there, nor come back, not even by a record
\* written back.
PositionFollowsTheChain ==
  /\ local # "OPEN" ~>
       \/ local = "OPEN" \/ chain = "closed" \/ StandsStill
       \/ unreported # {} \/ \E c \in Claims : result[c] = "stale"
  /\ chain = "closed" ~> ([](local = "RECONCILIATION_REQUIRED") \/ StandsStill)

\* A claim left RECONCILING by a failed or interrupted finalizer is resumed.
ReconcilingClaimIsResumed ==
  \A c \in Claims : action[c] = "RECONCILING" ~> action[c] # "RECONCILING"
=============================================================================
