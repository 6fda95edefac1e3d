--------------------------- MODULE ClaimFlowProofs ---------------------------
(***************************************************************************)
(* Proofs about ClaimFlow, for any number of claims, faults and crashes    *)
(* and for both wirings of the recovery: what follows a claim happens at   *)
(* most once, in order, and only to a claim that reached the chain.        *)
(*                                                                         *)
(* None of the properties is inductive by itself.  Inv adds who owns an    *)
(* action at each step of the two tasks, what a stored result and a stored *)
(* phase say of the past, and that a wallet has one active write.          *)
(***************************************************************************)
EXTENDS ClaimFlow, TLAPS

Early == {"ABSENT", "QUEUED", "RETRY_QUEUED", "RUNNING"}
Told == {"amount", "zero", "unavailable"}

\* Nothing has happened to a claim whose handler has not answered.
EarlyIsClean ==
  \A c \in Claims : action[c] \in Early =>
    /\ phase[c] = "NONE" /\ result[c] = "none"
    /\ swaps[c] = 0 /\ redeploys[c] = 0 /\ counted[c] = 0

OneActive ==
  \A a, b \in Claims :
    action[a] \in ActiveWriteStatuses /\ action[b] \in ActiveWriteStatuses => a = b

\* The queue's task owns a RUNNING claim, and knows an amount only of a claim
\* that landed.
WorkerOwns ==
  /\ worker.step # "idle" => worker.job \in Claims /\ action[worker.job] = "RUNNING"
  /\ worker.step \in {"read", "send", "answer"} => worker.got = "none"
  /\ worker.step # "idle" /\ worker.got \in {"amount", "zero"} => tx[worker.job] = "landed"
  /\ worker.step = "finish" =>
       \/ worker.outcome = "FAILED"
       \/ worker.outcome = "WAITING_CONFIRMATION" /\ worker.got \in Told
  /\ worker.step \in {"mark", "store", "undo"} =>
       worker.got \in Told /\ worker.outcome = "WAITING_CONFIRMATION"
  /\ ~booted => worker.step = "idle"

PostSteps == {"post", "swap", "swapped", "redeploy", "lookUp", "enqueued", "open", "done"}

\* The reconciler's task owns a waiting claim until it has stored RECONCILING.
TickOwns ==
  /\ tick.step \in {"finalize", "timeOut", "reconciling"} =>
       tick.job \in Claims /\ action[tick.job] = "WAITING_CONFIRMATION"
  /\ tick.step \in {"timeOut", "reconciling"} => result[tick.job] # "stale"
  /\ tick.step \in PostSteps \cup {"recover"} =>
       tick.job \in Claims /\ action[tick.job] = "RECONCILING"
  /\ tick.step = "sync" => tick.write \in {"OPEN", "RECONCILIATION_REQUIRED"}

\* A stored result tells what became of the submission.
ResultIsTrue ==
  \A c \in Claims :
    /\ action[c] = "WAITING_CONFIRMATION" => result[c] # "none"
    /\ action[c] = "RECONCILING" => result[c] \in Told
    /\ result[c] \in {"amount", "zero"} => tx[c] = "landed"

\* A stored phase tells whether a swap was sent; SWAP_IN_PROGRESS leaves it open.
PhaseIsTrue ==
  \A c \in Claims :
    /\ phase[c] \in {"NONE", "PENDING_SWAP"} => swaps[c] = 0
    /\ phase[c] = "SWAP_DONE" => swaps[c] = 1

\* Between the marker and the record of its outcome the swap is sent once.
SwapStep ==
  /\ tick.step = "swap" => phase[tick.job] = "SWAP_IN_PROGRESS" /\ swaps[tick.job] = 0
  /\ tick.step = "swapped" => tick.next \in {"SWAP_DONE", "FAILED"}
  /\ tick.step = "swapped" /\ tick.next = "SWAP_DONE" => swaps[tick.job] = 1

RedeployStep ==
  /\ tick.step \in {"redeploy", "lookUp", "enqueued"} =>
       mode[tick.job] = "compound" /\ swaps[tick.job] = 1
  /\ tick.step = "enqueued" => tick.next \in {"DEPLOY_QUEUED", "FAILED"}

\* An amount is added when the position leaves CLAIMING, and a claim that
\* waits after that does not find it CLAIMING again.
CountedOnce ==
  \A c \in Claims :
    counted[c] = 1 /\ action[c] = "WAITING_CONFIRMATION" => local # "CLAIMING"

Inv ==
  /\ TypeOK /\ EarlyIsClean /\ OneActive /\ WorkerOwns /\ TickOwns
  /\ ResultIsTrue /\ PhaseIsTrue /\ SwapStep /\ RedeployStep /\ CountedOnce
  /\ SwapAtMostOnce /\ SwapNeedsClaim /\ RedeployFollowsSwap /\ CountedAtMostOnce

-----------------------------------------------------------------------------
(* The types *)

\* Every step of the queue's handler keeps the types.
LEMMA HandlerKeepsTypes ==
  ASSUME Inv, Handle
  PROVE  TypeOK'
<1>1. TypeOK /\ WorkerTyped /\ TickTyped /\ WorkerOwns
  BY DEF Inv, TypeOK
<1>2. WorkerTyped'
  <2> USE <1>1 DEF WorkerTyped, WorkerOwns, WorkerSteps, Results, GoOn, Throw, Submitted
  <2>1. CASE Read
    BY <2>1 DEF Read
  <2>2. CASE Send
    BY <2>2 DEF Send
  <2>3. CASE Refuse
    BY <2>3 DEF Refuse
  <2>4. CASE Succeed
    BY <2>4 DEF Succeed
  <2>5. CASE Ambiguous
    BY <2>5 DEF Ambiguous
  <2>6. CASE Mark
    BY <2>6 DEF Mark
  <2>7. CASE Store
    BY <2>7 DEF Store
  <2>8. CASE Undo
    BY <2>8 DEF Undo
  <2>9. CASE Finish \/ Requeue
    BY <2>9 DEF Finish, Requeue, Idle
  <2>10. CASE FinishFails
    BY <2>10 DEF FinishFails
  <2> QED
    BY <2>1, <2>2, <2>3, <2>4, <2>5, <2>6, <2>7, <2>8, <2>9, <2>10 DEF Handle
<1>3. CASE Finish
  <2>1. worker.job \in Claims /\ worker.got \in Results
    BY <1>1, <1>3 DEF Finish, WorkerOwns, WorkerTyped
  <2>2. worker.outcome \in ActionStatuses
    BY <1>1, <1>3 DEF Finish, WorkerOwns, ActionStatuses
  <2>3. action' \in [Claims -> ActionStatuses \cup {"ABSENT"}]
    BY <1>1, <1>3, <2>1, <2>2 DEF Finish, TypeOK
  <2>4. result' \in [Claims -> Results] /\ phase' \in [Claims -> Phases]
    BY <1>1, <1>3, <2>1 DEF Finish, TypeOK, Phases
  <2> QED
    BY <1>1, <1>2, <1>3, <2>3, <2>4
    DEF Finish, QueueKeeps, TypeOK, TickTyped, chainVars, management
<1>4. CASE FinishFails
  <2>1. unreported' \subseteq Claims
    BY <1>1, <1>4 DEF FinishFails, TypeOK, WorkerOwns
  <2>2. faults' \in 0..MaxFaults
    BY <1>1, <1>4, BoundsAreNatural DEF FinishFails, TypeOK, Fault
  <2> QED
    BY <1>1, <1>2, <1>4, <2>1, <2>2
    DEF FinishFails, TypeOK, TickTyped, stores, chainVars, management
<1>5. CASE Requeue
  <2>1. action' \in [Claims -> ActionStatuses \cup {"ABSENT"}]
    BY <1>1, <1>5 DEF Requeue, TypeOK, ActionStatuses
  <2>2. faults' \in 0..MaxFaults
    BY <1>1, <1>5, BoundsAreNatural DEF Requeue, TypeOK, NoFault, Fault
  <2> QED
    BY <1>1, <1>2, <1>5, <2>1, <2>2
    DEF Requeue, QueueKeeps, TypeOK, TickTyped, chainVars, management
<1>6. CASE ~Finish /\ ~FinishFails /\ ~Requeue
  <2>1. HandlerKeeps
    BY <1>6 DEF Handle, Read, Send, Refuse, Succeed, Ambiguous, Mark, Store, Undo
  <2>2. tx' \in [Claims -> {"none", "sent", "landed"}]
    BY <1>1, <1>6 DEF Handle, Read, Send, Refuse, Succeed, Ambiguous, Mark, Store, Undo, TypeOK
  <2>3. local' \in Stored /\ faults' \in 0..MaxFaults
    BY <1>1, <1>6, BoundsAreNatural
    DEF Handle, Read, Send, Refuse, Succeed, Ambiguous, Mark, Store, Undo, TypeOK, Stored,
        NoFault, Fault
  <2> QED
    BY <1>1, <1>2, <2>1, <2>2, <2>3 DEF HandlerKeeps, TypeOK, TickTyped, management
<1> QED
  BY <1>3, <1>4, <1>5, <1>6

\* Every step of the reconciler's task keeps the types.
LEMMA TickKeepsTypes ==
  ASSUME Inv, BeginTick \/ Reconcile
  PROVE  TypeOK'
<1>1. TypeOK /\ WorkerTyped /\ TickTyped /\ TickOwns /\ SwapStep /\ RedeployStep
  BY DEF Inv, TypeOK
<1> USE <1>1
<1>2. TickTyped'
  <2> USE DEF TickTyped, TickSteps, Phases, Stored, Rest, To, Intend, Out, SetAction,
              SetPosition, Persist
  <2>1. CASE BeginTick
    BY <2>1 DEF BeginTick
  <2>2. CASE Unreadable \/ ReadFails \/ FinalizeOpen \/ FinalizeMarked \/ FinalizeClaiming
             \/ FinalizeUnconfirmed \/ TimeOut \/ Reconciling
    BY <2>2 DEF Unreadable, ReadFails, FinalizeOpen, FinalizeMarked, FinalizeClaiming,
                FinalizeUnconfirmed, TimeOut, Reconciling
  <2>3. CASE SwapMarker \/ SwapInterrupted \/ PostDone \/ Open \/ Done
    BY <2>3 DEF SwapMarker, SwapInterrupted, PostDone, Open, Done
  <2>4. CASE Swap \/ SwapRefused
    BY <2>4 DEF Swap, SwapRefused
  <2>5. CASE Redeploy \/ RedeployBlocked \/ LookUp \/ Swapped \/ Enqueued
    <3>1. CASE Redeploy \/ RedeployBlocked
      BY <3>1 DEF Redeploy, RedeployBlocked
    <3>2. CASE LookUp
      BY <3>2 DEF LookUp
    <3>3. CASE Swapped \/ Enqueued
      BY <3>3 DEF Swapped, Enqueued
    <3> QED
      BY <2>5, <3>1, <3>2, <3>3
  <2>6. CASE Resume
    <3>1. ASSUME NEW c \in Claims,
                 tick' = [Rest EXCEPT !.step = "recover", !.job = c, !.pass = "recovery"]
          PROVE  TickTyped'
      BY <3>1
    <3>2. CASE tick' = [Rest EXCEPT !.step = "snapshot"]
      BY <3>2
    <3> QED
      BY <2>6, <3>1, <3>2 DEF Resume
  <2>7. CASE Recover \/ Snapshot
    <3>1. CASE Recover
      BY <3>1 DEF Recover
    <3>2. CASE Snapshot
      <4>1. (chain = "open") \in BOOLEAN
        OBVIOUS
      <4>2. ASSUME NEW b \in BOOLEAN, tick' = [Rest EXCEPT !.step = "look", !.shown = b]
            PROVE  TickTyped'
        BY <4>2
      <4> QED
        BY <3>2, <4>1, <4>2 DEF Snapshot
    <3> QED
      BY <2>7, <3>1, <3>2
  <2>8. CASE Look
    <3>1. \A s \in Compared(tick.shown) : s \in Stored
      BY DEF Compared
    <3>2. CASE tick' = Rest
      BY <3>2
    <3>3. ASSUME NEW s \in Stored, tick' = [tick EXCEPT !.step = "sync", !.write = s]
          PROVE  TickTyped'
      BY <3>3
    <3> QED
      BY <2>8, <3>1, <3>2, <3>3 DEF Look
  <2>9. CASE Sync
    BY <2>9 DEF Sync
  <2> QED
    BY <2>1, <2>2, <2>3, <2>4, <2>5, <2>6, <2>7, <2>8, <2>9 DEF Reconcile, PostProcess
<1>3. TickKeeps
  BY DEF BeginTick, Reconcile, PostProcess, Unreadable, ReadFails, FinalizeOpen, FinalizeMarked,
         FinalizeClaiming, FinalizeUnconfirmed, TimeOut, Reconciling, SwapMarker,
         SwapInterrupted, PostDone, Swap, SwapRefused, Swapped, Redeploy, RedeployBlocked,
         LookUp, Enqueued, Open, Done, Resume, Recover, Snapshot, Look, Sync, PostKeeps
<1>4. /\ action' \in [Claims -> ActionStatuses \cup {"ABSENT"}]
      /\ phase' \in [Claims -> Phases] /\ local' \in Stored
      /\ counted' \in [Claims -> Nat] /\ redeploys' \in [Claims -> Nat]
      /\ swaps' \in [Claims -> Nat] /\ faults' \in 0..MaxFaults
  <2> USE BoundsAreNatural DEF TypeOK, ActionStatuses, Phases, Stored, SetAction, SetPosition,
              Persist, NoFault, Fault, PostKeeps
  <2>1. CASE BeginTick \/ Unreadable \/ Resume \/ Recover \/ Snapshot \/ Look
    BY <2>1 DEF BeginTick, Unreadable, Resume, Recover, Snapshot, Look
  <2>2. CASE FinalizeOpen \/ TimeOut \/ Reconciling \/ Done
    <3>1. action' = action \/ \E s \in ActionStatuses : action' = [action EXCEPT ![tick.job] = s]
      BY <2>2 DEF FinalizeOpen, TimeOut, Reconciling, Done
    <3> QED
      BY <2>2, <3>1 DEF FinalizeOpen, TimeOut, Reconciling, Done
  <2>3. CASE FinalizeMarked \/ FinalizeUnconfirmed \/ Open
    BY <2>3 DEF FinalizeMarked, FinalizeUnconfirmed, Open
  <2>4. CASE FinalizeClaiming
    <3>1. tick.job \in Claims => counted[tick.job] + 1 \in Nat
      OBVIOUS
    <3>2. counted' \in [Claims -> Nat]
      BY <2>4, <3>1 DEF FinalizeClaiming
    <3> QED
      BY <2>4, <3>2 DEF FinalizeClaiming
  <2>5. CASE SwapMarker \/ SwapInterrupted \/ PostDone \/ SwapRefused
    BY <2>5 DEF SwapMarker, SwapInterrupted, PostDone, SwapRefused
  <2>6. CASE Swap
    <3>1. tick.job \in Claims => swaps[tick.job] + 1 \in Nat
      OBVIOUS
    <3>2. swaps' \in [Claims -> Nat]
      BY <2>6, <3>1 DEF Swap
    <3> QED
      BY <2>6, <3>2 DEF Swap
  <2>7. CASE Redeploy
    BY <2>7 DEF Redeploy
  <2>8. CASE RedeployBlocked \/ LookUp
    BY <2>8 DEF RedeployBlocked, LookUp
  <2>9. CASE Swapped \/ Enqueued
    BY <2>9 DEF Swapped, Enqueued, TickTyped
  <2>10. CASE Sync
    <3>1. tick.write \in Stored
      BY <2>10 DEF Sync, TickOwns, TickTyped
    <3> QED
      BY <2>10, <3>1 DEF Sync
  <2>11. CASE ReadFails
    <3>1. faults' \in 0..MaxFaults
      BY <2>11 DEF ReadFails
    <3> QED
      BY <2>11, <3>1 DEF ReadFails
  <2> QED
    BY <2>1, <2>2, <2>3, <2>4, <2>5, <2>6, <2>7, <2>8, <2>9, <2>10, <2>11
    DEF Reconcile, PostProcess
<1> QED
  BY <1>2, <1>3, <1>4 DEF TickKeeps, TypeOK, WorkerTyped, chainVars, management

\* The requests, the chain, the management tick, the crash and the restart.
Surroundings ==
  \/ \E c \in Claims : Request(c) \/ Take(c) \/ Land(c) \/ Drop(c) \/ RecoverStale(c)
  \/ Leave \/ Forget \/ Manage \/ Crash \/ Boot

\* Every step around the two tasks keeps the types.
LEMMA SurroundingsKeepTypes ==
  ASSUME Inv, Surroundings
  PROVE  TypeOK'
<1>1. TypeOK /\ WorkerTyped /\ TickTyped
  BY DEF Inv, TypeOK
<1> USE <1>1 DEF TypeOK
<1>2. ASSUME NEW c \in Claims, Request(c)
      PROVE  TypeOK'
  BY <1>2 DEF Request, QueueKeeps, management, chainVars, WorkerTyped, TickTyped, ActionStatuses, Modes
<1>3. ASSUME NEW c \in Claims, Take(c)
      PROVE  TypeOK'
  <2>1. WorkerTyped'
    BY <1>3 DEF Take, Idle, WorkerTyped, WorkerSteps, Results
  <2> QED
    BY <1>3, <2>1 DEF Take, QueueKeeps, management, chainVars, TickTyped, ActionStatuses
<1>4. ASSUME NEW c \in Claims, RecoverStale(c)
      PROVE  TypeOK'
  BY <1>4
  DEF RecoverStale, QueueKeeps, management, chainVars, WorkerTyped, TickTyped, ActionStatuses,
      Results
<1>5. ASSUME NEW c \in Claims, Land(c) \/ Drop(c)
      PROVE  TypeOK'
  BY <1>5 DEF Land, Drop, ChainKeeps, stores, management, WorkerTyped, TickTyped
<1>6. CASE Leave \/ Forget
  BY <1>6
  DEF Leave, Forget, ChainKeeps, stores, chainVars, management, WorkerTyped, TickTyped
<1>7. CASE Crash
  <2>1. WorkerTyped' /\ TickTyped'
    BY <1>7 DEF Crash, Idle, Rest, WorkerTyped, WorkerSteps, Results, TickTyped, TickSteps,
                Phases
  <2>2. crashes' \in 0..MaxCrashes
    BY <1>7, BoundsAreNatural DEF Crash
  <2> QED
    BY <1>7, <2>1, <2>2 DEF Crash, stores, chainVars
<1>8. CASE Boot
  BY <1>8 DEF Boot, stores, chainVars, management, WorkerTyped, TickTyped
<1>9. CASE Manage
  <2>1. peaks' \in 0..MaxPeaks
    BY <1>9, BoundsAreNatural
    DEF Manage, ListManaged, RefreshPeak, LetGo
  <2>2. managed' \in BOOLEAN /\ local' \in Stored
    BY <1>9 DEF Manage, ListManaged, RefreshPeak, LetGo, Stored
  <2>3. ManagementOnly
    BY <1>9 DEF Manage, ListManaged, RefreshPeak, LetGo
  <2> QED
    BY <2>1, <2>2, <2>3 DEF ManagementOnly, chainVars, WorkerTyped, TickTyped
<1> QED
  BY <1>2, <1>3, <1>4, <1>5, <1>6, <1>7, <1>8, <1>9 DEF Surroundings

-----------------------------------------------------------------------------
(* The invariant *)

\* The steps of the queue's handler: only Finish and Requeue write an action,
\* and only the others know of the submission.
LEMMA HandlerKeepsInv ==
  ASSUME Inv, Handle
  PROVE  Inv'
<1> USE DEF Inv
<1>1. TypeOK'
  BY HandlerKeepsTypes
<1>2. CASE Finish
  <2>1. /\ worker.job \in Claims /\ action[worker.job] = "RUNNING"
        /\ worker' = Idle
        /\ UNCHANGED <<mode, local, counted, redeploys, tx, booted, tick, swaps>>
    BY <1>2 DEF Finish, QueueKeeps, WorkerOwns, chainVars
  <2>2. \A c \in Claims : c # worker.job =>
          action'[c] = action[c] /\ result'[c] = result[c] /\ phase'[c] = phase[c]
    BY <1>2 DEF Finish, TypeOK
  <2>3. /\ action'[worker.job] \in {"WAITING_CONFIRMATION", "FAILED"}
        /\ action'[worker.job] = "WAITING_CONFIRMATION" =>
             result'[worker.job] = worker.got /\ worker.got \in Told
        /\ result'[worker.job] \in {"none", worker.got}
        /\ phase'[worker.job] \in {"NONE", "PENDING_SWAP"}
    BY <1>2, <2>1 DEF Finish, TypeOK, WorkerOwns, EarlyIsClean, Early
  <2>4. EarlyIsClean'
    BY <2>1, <2>2, <2>3 DEF EarlyIsClean, Early
  <2>5. OneActive'
    BY <2>1, <2>2, <2>3 DEF OneActive, ActiveWriteStatuses
  <2>6. WorkerOwns'
    BY <2>1 DEF WorkerOwns, Idle
  <2>7. TickOwns'
    BY <2>1, <2>2 DEF TickOwns
  <2>8. ResultIsTrue'
    BY <2>1, <2>2, <2>3, <1>2 DEF ResultIsTrue, Told, WorkerOwns, Finish
  <2>9. PhaseIsTrue'
    BY <2>1, <2>2, <2>3 DEF PhaseIsTrue, EarlyIsClean, Early
  <2>10. SwapStep'
    BY <2>1, <2>2 DEF SwapStep, TickOwns, PostSteps
  <2>11. CountedOnce'
    BY <2>1, <2>2 DEF CountedOnce, EarlyIsClean, Early
  <2> QED
    BY <1>1, <2>1, <2>4, <2>5, <2>6, <2>7, <2>8, <2>9, <2>10, <2>11
    DEF RedeployStep, SwapAtMostOnce, SwapNeedsClaim, RedeployFollowsSwap, CountedAtMostOnce
<1>3. CASE FinishFails
  <2>1. /\ UNCHANGED <<stores, tx, booted, tick, swaps>>
        /\ worker' = [worker EXCEPT !.step = "requeue"]
        /\ worker.step = "finish"
    BY <1>3 DEF FinishFails, GoOn, chainVars
  <2>2. WorkerOwns'
    BY <2>1 DEF WorkerOwns, WorkerTyped, TypeOK, stores
  <2> QED
    BY <1>1, <2>1, <2>2
    DEF stores, EarlyIsClean, OneActive, TickOwns, ResultIsTrue, PhaseIsTrue, SwapStep,
        RedeployStep, CountedOnce, SwapAtMostOnce, SwapNeedsClaim, RedeployFollowsSwap,
        CountedAtMostOnce
<1>4. CASE Requeue
  <2>1. /\ worker.job \in Claims /\ action[worker.job] = "RUNNING"
        /\ worker' = Idle
        /\ UNCHANGED <<mode, result, phase, local, counted, redeploys, tx, booted, tick, swaps>>
    BY <1>4 DEF Requeue, QueueKeeps, WorkerOwns, chainVars
  <2>2. /\ \A c \in Claims : c # worker.job => action'[c] = action[c]
        /\ action'[worker.job] \in {"RUNNING", "RETRY_QUEUED"}
    BY <1>4, <2>1 DEF Requeue, TypeOK
  <2>3. EarlyIsClean' /\ OneActive' /\ WorkerOwns' /\ TickOwns' /\ ResultIsTrue' /\ CountedOnce'
    <3>1. EarlyIsClean' /\ OneActive'
      BY <2>1, <2>2 DEF EarlyIsClean, Early, OneActive, ActiveWriteStatuses
    <3>2. WorkerOwns'
      BY <2>1 DEF WorkerOwns, Idle
    <3>3. TickOwns' /\ ResultIsTrue' /\ CountedOnce'
      BY <2>1, <2>2 DEF TickOwns, PostSteps, ResultIsTrue, CountedOnce
    <3> QED
      BY <3>1, <3>2, <3>3
  <2> QED
    BY <1>1, <2>1, <2>3
    DEF PhaseIsTrue, SwapStep, RedeployStep, SwapAtMostOnce, SwapNeedsClaim,
        RedeployFollowsSwap, CountedAtMostOnce
<1>5. CASE ~Finish /\ ~FinishFails /\ ~Requeue
  <2>1. HandlerKeeps
    BY <1>5 DEF Handle, Read, Send, Refuse, Succeed, Ambiguous, Mark, Store, Undo
  <2>2. worker.job \in Claims /\ action[worker.job] = "RUNNING"
    BY <1>5 DEF Handle, Read, Send, Refuse, Succeed, Ambiguous, Mark, Store, Undo, WorkerOwns
  <2>3. \A c \in Claims : c # worker.job => tx'[c] = tx[c]
    BY <1>5 DEF Handle, Read, Send, Refuse, Succeed, Ambiguous, Mark, Store, Undo, TypeOK
  <2>4. swaps[worker.job] = 0 /\ result[worker.job] = "none"
    BY <2>2 DEF EarlyIsClean, Early
  <2>5. WorkerOwns'
    <3>1. WorkerTyped /\ WorkerOwns /\ booted' = booted /\ action' = action
      BY <2>1 DEF HandlerKeeps, TypeOK
    <3> HIDE DEF Inv
    <3> USE <2>2, <3>1 DEF WorkerOwns, WorkerTyped, GoOn, Throw, Submitted, Told
    <3>2. CASE Read
      BY <3>2 DEF Read
    <3>3. CASE Send
      BY <3>3 DEF Send
    <3>4. CASE Refuse
      BY <3>4 DEF Refuse
    <3>5. CASE Succeed
      BY <3>5 DEF Succeed
    <3>6. CASE Ambiguous
      BY <3>6 DEF Ambiguous
    <3>7. CASE Mark
      BY <3>7 DEF Mark
    <3>8. CASE Store \/ Undo
      BY <3>8 DEF Store, Undo
    <3> QED
      BY <1>5, <3>2, <3>3, <3>4, <3>5, <3>6, <3>7, <3>8 DEF Handle
  <2>6. ResultIsTrue' /\ SwapNeedsClaim'
    BY <2>1, <2>3, <2>4 DEF HandlerKeeps, ResultIsTrue, SwapNeedsClaim
  <2>7. local' # local /\ local' = "CLAIMING" =>
          \A c \in Claims : action[c] # "WAITING_CONFIRMATION"
    BY <2>2 DEF OneActive, ActiveWriteStatuses
  <2>8. CountedOnce'
    BY <2>1, <2>7 DEF HandlerKeeps, CountedOnce
  <2> QED
    BY <1>1, <2>1, <2>5, <2>6, <2>8
    DEF HandlerKeeps, EarlyIsClean, OneActive, TickOwns, PhaseIsTrue, SwapStep,
        RedeployStep, SwapAtMostOnce, RedeployFollowsSwap, CountedAtMostOnce
<1> QED
  BY <1>2, <1>3, <1>4, <1>5

\* The steps around the two tasks: a claim they touch is one nothing has
\* happened to yet, except that the chain settles what was sent.
LEMMA SurroundingsKeepInv ==
  ASSUME Inv, Surroundings
  PROVE  Inv'
<1> USE DEF Inv
<1>1. TypeOK'
  BY SurroundingsKeepTypes
<1>2. ASSUME NEW c \in Claims, action[c] \in Early, action'[c] \in Early \/ result'[c] = "stale",
             action'[c] \in {"QUEUED", "RUNNING", "WAITING_CONFIRMATION"},
             action'[c] \in Early => result'[c] = result[c],
             \A b \in Claims \ {c} : /\ action'[b] = action[b] /\ mode'[b] = mode[b]
                                     /\ result'[b] = result[b],
             worker.step # "idle" => worker.job # c,
             UNCHANGED <<phase, local, counted, redeploys, tx, tick, swaps>>
      PROVE  /\ EarlyIsClean' /\ TickOwns' /\ ResultIsTrue' /\ PhaseIsTrue' /\ SwapStep'
             /\ RedeployStep' /\ CountedOnce' /\ SwapAtMostOnce' /\ SwapNeedsClaim'
             /\ RedeployFollowsSwap' /\ CountedAtMostOnce'
  <2> USE <1>2
  <2>1. /\ phase[c] = "NONE" /\ result[c] = "none" /\ swaps[c] = 0
        /\ redeploys[c] = 0 /\ counted[c] = 0
    BY DEF EarlyIsClean
  <2>2. EarlyIsClean' /\ ResultIsTrue' /\ PhaseIsTrue'
    BY <2>1 DEF EarlyIsClean, ResultIsTrue, PhaseIsTrue, Early, Told
  <2>3. TickOwns'
    BY DEF TickOwns, PostSteps, Early
  <2>4. SwapStep' /\ RedeployStep'
    BY DEF SwapStep, RedeployStep, TickOwns, PostSteps, Early
  <2>5. CountedOnce'
    BY <2>1 DEF CountedOnce
  <2> QED
    BY <2>1, <2>2, <2>3, <2>4, <2>5
    DEF SwapAtMostOnce, SwapNeedsClaim, RedeployFollowsSwap, CountedAtMostOnce
<1>3. ASSUME NEW c \in Claims, Request(c)
      PROVE  Inv'
  <2>1. /\ action[c] = "ABSENT" /\ action'[c] = "QUEUED"
        /\ \A b \in Claims \ {c} : action'[b] = action[b] /\ mode'[b] = mode[b]
        /\ UNCHANGED <<result, phase, local, counted, redeploys, tx, booted, worker, tick, swaps>>
    BY <1>3 DEF Request, QueueKeeps, TypeOK, chainVars
  <2>2. OneActive' /\ WorkerOwns'
    BY <2>1 DEF OneActive, WorkerOwns, ActiveWriteStatuses
  <2>3. worker.step # "idle" => worker.job # c
    BY <2>1 DEF WorkerOwns
  <2> QED
    BY <1>1, <1>2, <2>1, <2>2, <2>3 DEF Early
<1>4. ASSUME NEW c \in Claims, Take(c)
      PROVE  Inv'
  <2>1. /\ action[c] \in {"QUEUED", "RETRY_QUEUED"} /\ action'[c] = "RUNNING" /\ worker.step = "idle"
        /\ \A b \in Claims \ {c} : action'[b] = action[b]
        /\ \A b \in Claims : action[b] \notin ActiveWriteStatuses
        /\ UNCHANGED <<mode, result, phase, local, counted, redeploys, tx, tick, swaps>>
    BY <1>4 DEF Take, ProcessableStatuses, QueueKeeps, TypeOK, chainVars
  <2>2. /\ worker'.step = "read" /\ worker'.job = c /\ worker'.got = "none"
        /\ worker'.outcome = "none" /\ booted'
    BY <1>4 DEF Take, QueueKeeps, Idle
  <2>3. OneActive' /\ WorkerOwns'
    BY <2>1, <2>2 DEF OneActive, WorkerOwns
  <2> QED
    BY <1>1, <1>2, <2>1, <2>3 DEF Early
<1>5. ASSUME NEW c \in Claims, RecoverStale(c)
      PROVE  Inv'
  <2>1. /\ action[c] = "RUNNING" /\ action'[c] = "WAITING_CONFIRMATION"
        /\ result'[c] = "stale" /\ ~booted /\ worker.step = "idle"
        /\ \A b \in Claims \ {c} : action'[b] = action[b] /\ result'[b] = result[b]
        /\ UNCHANGED <<mode, phase, local, counted, redeploys, tx, booted, worker, tick, swaps>>
    BY <1>5 DEF RecoverStale, QueueKeeps, TypeOK, WorkerOwns, chainVars
  <2>2. OneActive' /\ WorkerOwns'
    BY <2>1 DEF OneActive, WorkerOwns, ActiveWriteStatuses
  <2> QED
    BY <1>1, <1>2, <2>1, <2>2 DEF Early
<1>6. ASSUME NEW c \in Claims, Land(c) \/ Drop(c)
      PROVE  Inv'
  <2>1. /\ tx[c] = "sent" /\ \A b \in Claims \ {c} : tx'[b] = tx[b]
        /\ UNCHANGED <<stores, booted, worker, tick, swaps>>
    BY <1>6 DEF Land, Drop, ChainKeeps, TypeOK
  <2>2. WorkerOwns' /\ ResultIsTrue' /\ SwapNeedsClaim'
    BY <2>1 DEF stores, WorkerOwns, ResultIsTrue, SwapNeedsClaim
  <2> QED
    BY <1>1, <2>1, <2>2
    DEF stores, EarlyIsClean, OneActive, TickOwns, PhaseIsTrue, SwapStep, RedeployStep,
        CountedOnce, SwapAtMostOnce, RedeployFollowsSwap, CountedAtMostOnce
<1>7. CASE Leave \/ Forget
  BY <1>1, <1>7
  DEF Leave, Forget, ChainKeeps, stores, chainVars, EarlyIsClean, OneActive, WorkerOwns,
      TickOwns, ResultIsTrue, PhaseIsTrue, SwapStep, RedeployStep, CountedOnce,
      SwapAtMostOnce, SwapNeedsClaim, RedeployFollowsSwap, CountedAtMostOnce
<1>8. CASE Crash \/ Boot
  <2>1. /\ UNCHANGED <<stores, tx, swaps>>
        /\ worker' = worker \/ worker' = Idle
        /\ tick' = tick \/ tick' = Rest
        /\ ~booted' => worker' = Idle
    BY <1>8 DEF Crash, Boot, chainVars
  <2>2. WorkerOwns'
    BY <1>8, <2>1 DEF stores, WorkerOwns, Idle, Boot, Crash
  <2>3. TickOwns' /\ SwapStep' /\ RedeployStep'
    BY <2>1 DEF stores, TickOwns, SwapStep, RedeployStep, PostSteps, Rest
  <2> QED
    BY <1>1, <2>1, <2>2, <2>3
    DEF stores, EarlyIsClean, OneActive, ResultIsTrue, PhaseIsTrue, CountedOnce,
        SwapAtMostOnce, SwapNeedsClaim, RedeployFollowsSwap, CountedAtMostOnce
<1>9. CASE Manage
  <2>1. /\ UNCHANGED <<action, mode, result, phase, counted, redeploys, tx, booted, worker, tick,
                       swaps>>
        /\ local' = local \/ local' = "OPEN"
    BY <1>9 DEF Manage, ListManaged, RefreshPeak, LetGo, ManagementOnly, chainVars
  <2>2. CountedOnce'
    BY <2>1 DEF CountedOnce
  <2> QED
    BY <1>1, <2>1, <2>2
    DEF EarlyIsClean, OneActive, WorkerOwns, TickOwns, ResultIsTrue, PhaseIsTrue, SwapStep,
        RedeployStep, SwapAtMostOnce, SwapNeedsClaim, RedeployFollowsSwap, CountedAtMostOnce
<1> QED
  BY <1>3, <1>4, <1>5, <1>6, <1>7, <1>8, <1>9 DEF Surroundings

\* The reconciler's steps that write neither an action nor what follows a
\* claim: they look, or they store the position.
LEMMA LooksKeepInv ==
  ASSUME Inv,
         \/ BeginTick \/ Unreadable \/ ReadFails \/ Resume \/ Recover \/ Snapshot \/ Look \/ Sync
         \/ FinalizeMarked \/ FinalizeClaiming \/ FinalizeUnconfirmed \/ Open
  PROVE  Inv'
<1> USE DEF Inv
<1>1. TypeOK' /\ TickTyped
  BY TickKeepsTypes DEF Reconcile, PostProcess, TypeOK
<1>2. UNCHANGED <<action, mode, result, phase, redeploys, tx, booted, worker, swaps>>
  BY DEF BeginTick, Unreadable, ReadFails, Resume, Recover, Snapshot, Look, Sync,
         FinalizeMarked, FinalizeClaiming, FinalizeUnconfirmed, Open, TickKeeps, chainVars
<1>3. /\ EarlyIsClean' <=> \A c \in Claims : action[c] \in Early =>
           /\ phase[c] = "NONE" /\ result[c] = "none"
           /\ swaps[c] = 0 /\ redeploys[c] = 0 /\ counted'[c] = 0
      /\ OneActive' /\ WorkerOwns' /\ ResultIsTrue' /\ PhaseIsTrue'
      /\ SwapAtMostOnce' /\ SwapNeedsClaim' /\ RedeployFollowsSwap'
  BY <1>2 DEF EarlyIsClean, OneActive, WorkerOwns, ResultIsTrue, PhaseIsTrue, SwapAtMostOnce,
              SwapNeedsClaim, RedeployFollowsSwap
<1>4. TickOwns'
  <2> USE <1>1, <1>2 DEF TickOwns, TickTyped, PostSteps, To, Out, Rest
  <2>1. CASE BeginTick
    BY <2>1 DEF BeginTick
  <2>2. CASE Resume
    BY <2>2 DEF Resume
  <2>3. CASE Unreadable \/ ReadFails \/ Snapshot
    <3>1. tick'.step \in {"resume", "snapshot", "look"}
      <4>1. CASE Unreadable \/ ReadFails
        BY <4>1 DEF Unreadable, ReadFails
      <4>2. CASE Snapshot
        BY <4>2 DEF Snapshot
      <4> QED
        BY <2>3, <4>1, <4>2
    <3> QED
      BY <3>1
  <2>4. CASE Recover
    BY <2>4 DEF Recover
  <2>5. CASE Look
    <3>1. \A s \in Compared(tick.shown) : s \in {"OPEN", "RECONCILIATION_REQUIRED"}
      BY DEF Compared
    <3>2. CASE tick' = Rest
      BY <3>2
    <3>3. ASSUME NEW s \in {"OPEN", "RECONCILIATION_REQUIRED"},
                 tick' = [tick EXCEPT !.step = "sync", !.write = s]
          PROVE  TickOwns'
      BY <3>3
    <3> QED
      BY <2>5, <3>1, <3>2, <3>3 DEF Look
  <2>6. CASE Sync
    BY <2>6 DEF Sync
  <2>7. CASE FinalizeMarked \/ FinalizeClaiming \/ FinalizeUnconfirmed
    BY <2>7 DEF FinalizeMarked, FinalizeClaiming, FinalizeUnconfirmed, Finalizes, SetPosition
  <2>8. CASE Open
    BY <2>8 DEF Open, SetPosition
  <2> QED
    BY <2>1, <2>2, <2>3, <2>4, <2>5, <2>6, <2>7, <2>8
<1>5. tick'.step \notin PostSteps \/ tick'.step \in {"post", "done", "open"}
  <2> HIDE DEF Inv
  <2> USE <1>1 DEF TickTyped, PostSteps, To, Out, Rest
  <2>1. CASE BeginTick \/ Resume
    BY <2>1 DEF BeginTick, Resume
  <2>2. CASE Unreadable \/ ReadFails \/ Recover \/ Snapshot \/ Sync
    <3>1. CASE Unreadable \/ ReadFails \/ Recover
      BY <3>1 DEF Unreadable, ReadFails, Recover
    <3>2. CASE Snapshot
      <4>1. tick'.step = "look"
        BY <3>2 DEF Snapshot
      <4> QED
        BY <4>1
    <3>3. CASE Sync
      BY <3>3 DEF Sync
    <3> QED
      BY <2>2, <3>1, <3>2, <3>3
  <2>3. CASE Look
    <3>1. CASE tick' = Rest
      BY <3>1
    <3>2. ASSUME NEW s, tick' = [tick EXCEPT !.step = "sync", !.write = s]
          PROVE  tick'.step \notin PostSteps
      BY <3>2
    <3> QED
      BY <2>3, <3>1, <3>2 DEF Look
  <2>4. CASE FinalizeMarked \/ FinalizeClaiming \/ FinalizeUnconfirmed \/ Open
    BY <2>4 DEF FinalizeMarked, FinalizeClaiming, FinalizeUnconfirmed, Open, SetPosition
  <2> QED
    BY <2>1, <2>2, <2>3, <2>4
<1>6. SwapStep' /\ RedeployStep'
  BY <1>5 DEF SwapStep, RedeployStep, PostSteps
<1>7. CASE FinalizeClaiming
  <2>1. /\ tick.job \in Claims /\ action[tick.job] = "WAITING_CONFIRMATION"
        /\ local = "CLAIMING" /\ counted[tick.job] = 0
    BY <1>7 DEF FinalizeClaiming, Finalizes, TickOwns, CountedOnce, CountedAtMostOnce, TypeOK
  <2>2. /\ \A c \in Claims : c # tick.job => counted'[c] = counted[c]
        /\ \/ counted'[tick.job] = 0
           \/ counted'[tick.job] = 1 /\ local' = "RECONCILING"
        /\ \/ local' = "RECONCILING"
           \/ local' = local /\ counted' = counted
    BY <1>7, <2>1 DEF FinalizeClaiming, SetPosition, TypeOK
  <2>3. EarlyIsClean'
    BY <1>3, <2>1, <2>2 DEF EarlyIsClean, Early
  <2>4. CountedOnce' /\ CountedAtMostOnce'
    BY <1>2, <2>1, <2>2 DEF CountedOnce, CountedAtMostOnce
  <2> QED
    BY <1>1, <1>3, <1>4, <1>6, <2>3, <2>4
<1>8. CASE ~FinalizeClaiming
  <2>1. counted' = counted /\ (local' = local \/ local' # "CLAIMING")
    BY <1>8
    DEF BeginTick, Unreadable, ReadFails, Resume, Recover, Snapshot, Look, Sync, TickOwns,
        FinalizeMarked, FinalizeUnconfirmed, Open, SetPosition
  <2> QED
    BY <1>1, <1>2, <1>3, <1>4, <1>6, <2>1 DEF EarlyIsClean, CountedOnce, CountedAtMostOnce
<1> QED
  BY <1>7, <1>8

\* The reconciler's steps that store the action.
LEMMA VerdictsKeepInv ==
  ASSUME Inv, FinalizeOpen \/ TimeOut \/ Reconciling \/ Done
  PROVE  Inv'
<1> USE DEF Inv
<1>1. TypeOK' /\ TickTyped
  BY TickKeepsTypes DEF Reconcile, PostProcess, TypeOK
<1>2. UNCHANGED <<mode, result, phase, local, counted, redeploys, tx, booted, worker, swaps>>
  BY DEF FinalizeOpen, TimeOut, Reconciling, Done, TickKeeps, chainVars
<1>3. /\ tick.job \in Claims
      /\ \/ action[tick.job] = "WAITING_CONFIRMATION" /\ result[tick.job] # "stale"
         \/ action[tick.job] = "RECONCILING" /\ Done
  BY DEF FinalizeOpen, TimeOut, Reconciling, Done, Finalizes, TickOwns, PostSteps
<1>4. /\ \A c \in Claims : c # tick.job => action'[c] = action[c]
      /\ \/ action'[tick.job] = action[tick.job]
         \/ action'[tick.job] \in {"TIMED_OUT", "DONE"}
         \/ action'[tick.job] = "RECONCILING" /\ action[tick.job] = "WAITING_CONFIRMATION"
  BY <1>3 DEF FinalizeOpen, TimeOut, Reconciling, Done, SetAction, TypeOK, Finalizes, TickOwns
<1>5. EarlyIsClean'
  BY <1>2, <1>3, <1>4 DEF EarlyIsClean, Early
<1>6. OneActive'
  BY <1>3, <1>4 DEF OneActive, ActiveWriteStatuses
<1>7. WorkerOwns'
  BY <1>2, <1>3, <1>4 DEF WorkerOwns
<1>8. ResultIsTrue'
  BY <1>1, <1>2, <1>3, <1>4 DEF ResultIsTrue, Told, TypeOK, Results
<1>9. /\ tick'.job = tick.job
      /\ \/ tick'.step \in {"resume", "snapshot"}
         \/ tick'.step = "post" /\ action'[tick.job] = "RECONCILING"
  BY <1>1, <1>3
  DEF FinalizeOpen, TimeOut, Reconciling, Done, SetAction, To, Out, TickTyped, TypeOK
<1>10. TickOwns' /\ SwapStep' /\ RedeployStep'
  BY <1>3, <1>9 DEF TickOwns, SwapStep, RedeployStep, PostSteps
<1>11. CountedOnce'
  BY <1>2, <1>3, <1>4 DEF CountedOnce
<1> QED
  BY <1>1, <1>2, <1>5, <1>6, <1>7, <1>8, <1>10, <1>11
  DEF PhaseIsTrue, SwapAtMostOnce, SwapNeedsClaim, RedeployFollowsSwap, CountedAtMostOnce

\* The steps that follow a claim: the marker before the swap, the record after
\* it, and the key of the redeploy keep each to one.
LEMMA PostProcessingKeepsInv ==
  ASSUME Inv, PostProcess, ~Open, ~Done
  PROVE  Inv'
<1> USE DEF Inv
<1>1. TypeOK' /\ TypeOK /\ TickTyped
  BY TickKeepsTypes DEF Reconcile, TypeOK
<1>2. UNCHANGED <<action, mode, result, local, counted, tx, booted, worker>>
  BY DEF PostProcess, SwapMarker, SwapInterrupted, PostDone, Swap, SwapRefused, Swapped,
         Redeploy, RedeployBlocked, LookUp, Enqueued, PostKeeps, TickKeeps, chainVars
<1>3. tick.job \in Claims /\ action[tick.job] = "RECONCILING" /\ result[tick.job] \in Told
  BY DEF PostProcess, SwapMarker, SwapInterrupted, PostDone, Swap, SwapRefused, Swapped,
         Redeploy, RedeployBlocked, LookUp, Enqueued, TickOwns, PostSteps, ResultIsTrue
<1>4. \A c \in Claims : c # tick.job =>
        phase'[c] = phase[c] /\ swaps'[c] = swaps[c] /\ redeploys'[c] = redeploys[c]
  BY <1>1, <1>3
  DEF PostProcess, SwapMarker, SwapInterrupted, PostDone, Swap, SwapRefused, Swapped,
      Redeploy, RedeployBlocked, LookUp, Enqueued, Persist, TypeOK
<1>5. EarlyIsClean'
  BY <1>2, <1>3, <1>4 DEF EarlyIsClean, Early
<1>6. /\ tick'.job = tick.job
      /\ tick'.step \in PostSteps \cup {"resume", "snapshot"}
  <2> HIDE DEF Inv
  <2> USE <1>1 DEF TickTyped, PostSteps, Persist, To, Out, Intend
  <2>1. CASE SwapMarker \/ SwapInterrupted \/ PostDone
    BY <2>1 DEF SwapMarker, SwapInterrupted, PostDone
  <2>2. CASE Swap \/ SwapRefused
    BY <2>2 DEF Swap, SwapRefused
  <2>3. CASE Redeploy \/ RedeployBlocked \/ LookUp
    BY <2>3 DEF Redeploy, RedeployBlocked, LookUp
  <2>4. CASE Swapped \/ Enqueued
    BY <2>4 DEF Swapped, Enqueued
  <2> QED
    BY <2>1, <2>2, <2>3, <2>4 DEF PostProcess
<1>7. TickOwns'
  BY <1>2, <1>3, <1>6 DEF TickOwns, PostSteps
<1>8. /\ phase'[tick.job] \in {"NONE", "PENDING_SWAP"} => swaps'[tick.job] = 0
      /\ phase'[tick.job] = "SWAP_DONE" => swaps'[tick.job] = 1
      /\ swaps'[tick.job] <= 1
      /\ swaps'[tick.job] > 0 => tx[tick.job] = "landed"
      /\ redeploys'[tick.job] <= 1
      /\ redeploys'[tick.job] = 1 => mode[tick.job] = "compound" /\ swaps'[tick.job] = 1
      /\ tick'.step = "swap" => phase'[tick.job] = "SWAP_IN_PROGRESS" /\ swaps'[tick.job] = 0
      /\ tick'.step = "swapped" => tick'.next \in {"SWAP_DONE", "FAILED"}
      /\ tick'.step = "swapped" /\ tick'.next = "SWAP_DONE" => swaps'[tick.job] = 1
      /\ tick'.step \in {"redeploy", "lookUp", "enqueued"} =>
           mode[tick.job] = "compound" /\ swaps'[tick.job] = 1
      /\ tick'.step = "enqueued" => tick'.next \in {"DEPLOY_QUEUED", "FAILED"}
  <2>1. /\ phase[tick.job] \in {"NONE", "PENDING_SWAP"} => swaps[tick.job] = 0
        /\ phase[tick.job] = "SWAP_DONE" => swaps[tick.job] = 1
        /\ swaps[tick.job] \in Nat /\ redeploys[tick.job] \in Nat
        /\ swaps[tick.job] <= 1 /\ (swaps[tick.job] > 0 => tx[tick.job] = "landed")
        /\ redeploys[tick.job] <= 1
        /\ redeploys[tick.job] = 1 => mode[tick.job] = "compound" /\ swaps[tick.job] = 1
        /\ result[tick.job] # "unavailable" => tx[tick.job] = "landed"
    BY <1>1, <1>3 DEF PhaseIsTrue, SwapAtMostOnce, SwapNeedsClaim, RedeployFollowsSwap, TypeOK,
                      ResultIsTrue, Told
  <2>2. SwapStep /\ RedeployStep
    OBVIOUS
  <2>3. /\ \A p : tick.job \in Claims => [phase EXCEPT ![tick.job] = p][tick.job] = p
        /\ [swaps EXCEPT ![tick.job] = @ + 1][tick.job] = swaps[tick.job] + 1
        /\ [redeploys EXCEPT ![tick.job] = 1][tick.job] = 1
    BY <1>1, <1>3 DEF TypeOK
  <2> HIDE DEF Inv
  <2> USE <1>1, <1>3, <2>1, <2>2, <2>3
      DEF TickTyped, SwapStep, RedeployStep, PostKeeps, Persist, To, Out, Intend
  <2>4. CASE SwapMarker
    <3>1. /\ phase[tick.job] = "PENDING_SWAP" /\ swaps' = swaps /\ redeploys' = redeploys
          /\ phase'[tick.job] \in {"PENDING_SWAP", "SWAP_IN_PROGRESS"}
      <4>1. phase[tick.job] = "PENDING_SWAP"
        BY <2>4 DEF SwapMarker, SwapIsDue
      <4>2. phase'[tick.job] \in {phase[tick.job], "SWAP_IN_PROGRESS"}
        BY <2>4 DEF SwapMarker
      <4> QED
        BY <2>4, <4>1, <4>2 DEF SwapMarker
    <3>2. \/ tick'.step \in {"resume", "snapshot"}
          \/ tick'.step = "swap" /\ phase'[tick.job] = "SWAP_IN_PROGRESS"
      BY <2>4 DEF SwapMarker
    <3> QED
      BY <3>1, <3>2
  <2>5. CASE SwapInterrupted
    <3>1. /\ swaps' = swaps /\ redeploys' = redeploys
          /\ phase'[tick.job] \in {"SWAP_IN_PROGRESS", "MANUAL_REVIEW_REQUIRED"}
      BY <2>5 DEF SwapInterrupted
    <3>2. tick'.step \in {"resume", "snapshot", "open"}
      BY <2>5 DEF SwapInterrupted
    <3> QED
      BY <3>1, <3>2
  <2>6. CASE PostDone
    BY <2>6 DEF PostDone, RedeployIsDue
  <2>7. CASE Swap
    BY <2>7 DEF Swap
  <2>8. CASE SwapRefused
    BY <2>8 DEF SwapRefused
  <2>9. CASE Swapped
    BY <2>9 DEF Swapped
  <2>10. CASE Redeploy
    BY <2>10 DEF Redeploy
  <2>11. CASE RedeployBlocked
    BY <2>11 DEF RedeployBlocked
  <2>12. CASE LookUp
    BY <2>12 DEF LookUp
  <2>13. CASE Enqueued
    BY <2>13 DEF Enqueued
  <2> QED
    BY <2>4, <2>5, <2>6, <2>7, <2>8, <2>9, <2>10, <2>11, <2>12, <2>13 DEF PostProcess
<1>9. PhaseIsTrue' /\ SwapAtMostOnce' /\ SwapNeedsClaim' /\ RedeployFollowsSwap'
  BY <1>2, <1>3, <1>4, <1>8
  DEF PhaseIsTrue, SwapAtMostOnce, SwapNeedsClaim, RedeployFollowsSwap
<1>10. SwapStep' /\ RedeployStep'
  BY <1>2, <1>6, <1>8 DEF SwapStep, RedeployStep
<1> QED
  BY <1>1, <1>2, <1>5, <1>7, <1>9, <1>10
  DEF OneActive, WorkerOwns, ResultIsTrue, CountedOnce, CountedAtMostOnce

\* Inv is inductive.
LEMMA NextKeepsInv ==
  ASSUME Inv, [Next]_vars
  PROVE  Inv'
<1>1. CASE Handle
  BY <1>1, HandlerKeepsInv
<1>2. CASE Surroundings
  BY <1>2, SurroundingsKeepInv
<1>3. CASE BeginTick \/ Reconcile
  <2>1. CASE PostProcess /\ ~Open /\ ~Done
    BY <2>1, PostProcessingKeepsInv
  <2> QED
    BY <1>3, <2>1, LooksKeepInv, VerdictsKeepInv DEF Reconcile
<1>4. CASE UNCHANGED vars
  BY <1>4
  DEF Inv, TypeOK, WorkerTyped, TickTyped, vars, stores, chainVars, management, EarlyIsClean,
      OneActive, WorkerOwns, TickOwns, ResultIsTrue, PhaseIsTrue, SwapStep, RedeployStep, CountedOnce,
      SwapAtMostOnce, SwapNeedsClaim, RedeployFollowsSwap, CountedAtMostOnce
<1> QED
  BY <1>1, <1>2, <1>3, <1>4 DEF Next, Surroundings

\* The stores start empty, and both tasks idle.
LEMMA InitHasInv ==
  ASSUME Init
  PROVE  Inv
<1> USE DEF Init
<1>1. WorkerTyped /\ TickTyped
  BY DEF WorkerTyped, Idle, WorkerSteps, Results, TickTyped, Rest, TickSteps, Phases
<1>2. TypeOK
  <2>1. handsLocksDown \in BOOLEAN
    BY WiringsAreBoolean
  <2>2. peaks \in 0..MaxPeaks /\ faults \in 0..MaxFaults /\ crashes \in 0..MaxCrashes
    BY BoundsAreNatural
  <2> QED
    BY <1>1, <2>1, <2>2 DEF TypeOK, ActionStatuses, Modes, Results, Phases, Stored
<1>3. EarlyIsClean /\ OneActive /\ WorkerOwns /\ TickOwns
  BY DEF EarlyIsClean, OneActive, ActiveWriteStatuses, WorkerOwns, TickOwns, PostSteps, Idle,
         Rest
<1>4. ResultIsTrue /\ PhaseIsTrue /\ SwapStep /\ RedeployStep /\ CountedOnce
  BY DEF ResultIsTrue, PhaseIsTrue, SwapStep, RedeployStep, CountedOnce, Rest
<1> QED
  BY <1>2, <1>3, <1>4
  DEF Inv, SwapAtMostOnce, SwapNeedsClaim, RedeployFollowsSwap, CountedAtMostOnce

\* Every reachable state satisfies the inductive invariant.
THEOREM ClaimInvariant == Spec => []Inv
  BY InitHasInv, NextKeepsInv, PTL DEF Spec

\* Every variable keeps its type.
THEOREM ClaimTypes == Spec => []TypeOK
<1>1. Inv => TypeOK
  BY DEF Inv
<1> QED
  BY <1>1, ClaimInvariant, PTL

\* runClaimPostProcessing sends the swap of a claim's proceeds at most once,
\* over any number of ticks, failing stores and restarts.
THEOREM OneSwapPerClaim == Spec => []SwapAtMostOnce
<1>1. Inv => SwapAtMostOnce
  BY DEF Inv
<1> QED
  BY <1>1, ClaimInvariant, PTL

\* A swap is sent only for a claim whose transaction landed.
THEOREM SwapsFollowLandedClaims == Spec => []SwapNeedsClaim
<1>1. Inv => SwapNeedsClaim
  BY DEF Inv
<1> QED
  BY <1>1, ClaimInvariant, PTL

\* At most one redeploy is enqueued for a claim: for a compound one, after its
\* swap was sent.
THEOREM OneRedeployAfterSwap == Spec => []RedeployFollowsSwap
<1>1. Inv => RedeployFollowsSwap
  BY DEF Inv
<1> QED
  BY <1>1, ClaimInvariant, PTL

\* The claimed amount is added to the position's fees at most once.
THEOREM AmountCountedOnce == Spec => []CountedAtMostOnce
<1>1. Inv => CountedAtMostOnce
  BY DEF Inv
<1> QED
  BY <1>1, ClaimInvariant, PTL

\* The swap, the redeploy and the amount together: each at most once and in
\* their order, for any number of claims, failing calls and crashes.
THEOREM ClaimEffectsInOrder == Spec => []EffectsInOrder
<1>1. Inv => EffectsInOrder
  BY DEF Inv, EffectsInOrder
<1> QED
  BY <1>1, ClaimInvariant, PTL

-----------------------------------------------------------------------------
(* What a finished claim says of its redeploy *)

\* The failed calls and the crashes so far.
Troubles == faults + crashes

\* A redeploy that is stored but not recorded is going to be recorded: the
\* claim is still RECONCILING after its swap, and its turn does not end before
\* the key has been asked for again.
Pending(c) ==
  /\ phase[c] = "SWAP_DONE" /\ action[c] = "RECONCILING"
  /\ tick.job = c => tick.step \notin {"open", "done"}
  /\ tick.job = c /\ tick.step = "enqueued" => tick.next = "DEPLOY_QUEUED"
  /\ Troubles = 0 => tick.job = c /\ tick.step = "enqueued"

\* What the stored phases and the reconciler's task know of the redeploys.
RedeployKnown ==
  /\ \A c \in Claims : phase[c] = "DEPLOY_QUEUED" => redeploys[c] > 0
  /\ tick.step = "swapped" => phase[tick.job] = "SWAP_IN_PROGRESS"
  /\ tick.step \in {"redeploy", "lookUp", "enqueued"} => phase[tick.job] = "SWAP_DONE"
  /\ tick.step = "enqueued" /\ tick.next = "DEPLOY_QUEUED" => redeploys[tick.job] > 0
  /\ \A c \in Claims :
       redeploys[c] > 0 => phase[c] = "DEPLOY_QUEUED" \/ Troubles > 1 \/ Pending(c)

\* No step takes back a failed call or a crash.
LEMMA TroublesGrow ==
  ASSUME Inv, [Next]_vars
  PROVE  Troubles \in Nat /\ Troubles' \in Nat /\ Troubles <= Troubles'
<1>1. TypeOK /\ TypeOK'
  BY NextKeepsInv DEF Inv
<1>2. faults \in Nat /\ crashes \in Nat /\ faults' \in Nat /\ crashes' \in Nat
  BY <1>1, BoundsAreNatural DEF TypeOK
<1>3. faults <= faults'
  <2>1. faults' = faults \/ faults' = faults + 1
    BY DEF Next, vars, Request, Take, Land, Drop, RecoverStale, Handle, Read, Send, Refuse,
           Succeed, Ambiguous, Mark, Store, Undo, Finish, FinishFails, Requeue, Manage,
           ListManaged, RefreshPeak, LetGo, ManagementOnly, Leave, Forget, ChainKeeps, BeginTick,
           Reconcile, PostProcess, Unreadable, ReadFails, FinalizeOpen, FinalizeMarked, FinalizeClaiming,
           FinalizeUnconfirmed, TimeOut, Reconciling, SwapMarker, SwapInterrupted, PostDone,
           Swap, SwapRefused, Swapped, Redeploy, RedeployBlocked, LookUp, Enqueued, Open, Done,
           Resume, Recover, Snapshot, Look, Sync, Crash, Boot, SetAction, SetPosition, Persist,
           NoFault, Fault
  <2> QED
    BY <1>2, <2>1
<1>4. crashes <= crashes'
  <2>1. crashes' = crashes \/ crashes' = crashes + 1
    BY DEF Next, vars, Request, Take, Land, Drop, RecoverStale, Handle, Read, Send, Refuse,
           Succeed, Ambiguous, Mark, Store, Undo, Finish, FinishFails, Requeue, Manage,
           ListManaged, RefreshPeak, LetGo, ManagementOnly, QueueKeeps, HandlerKeeps, Leave, Forget,
           ChainKeeps, BeginTick, Reconcile, PostProcess, Unreadable, ReadFails, FinalizeOpen,
           FinalizeMarked, FinalizeClaiming, FinalizeUnconfirmed, TimeOut, Reconciling,
           SwapMarker, SwapInterrupted, PostDone, Swap, SwapRefused, Swapped, Redeploy,
           RedeployBlocked, LookUp, Enqueued, Open, Done, Resume, Recover, Snapshot, Look,
           Sync, Crash, Boot, TickKeeps, PostKeeps
  <2> QED
    BY <1>2, <2>1
<1> HIDE DEF Inv
<1>5. PICK f \in Nat, c \in Nat, g \in Nat, d \in Nat :
        f = faults /\ c = crashes /\ g = faults' /\ d = crashes'
  BY <1>2
<1>6. f + c \in Nat /\ g + d \in Nat /\ f + c <= g + d
  <2>1. f <= g /\ c <= d
    BY <1>3, <1>4, <1>5
  <2> QED
    BY <2>1
<1> QED
  BY <1>5, <1>6 DEF Troubles

\* A step that leaves the tick's task alone, and of the stores at most those of
\* a claim without a redeploy.
LEMMA OutsideKeepsRedeployKnown ==
  ASSUME Inv, RedeployKnown, [Next]_vars, Handle \/ Surroundings \/ UNCHANGED vars
  PROVE  RedeployKnown'
<1> USE DEF Inv
<1>1. Troubles \in Nat /\ Troubles' \in Nat /\ Troubles <= Troubles'
  BY TroublesGrow
<1>2. TypeOK /\ TickOwns
  OBVIOUS
<1>3. redeploys' = redeploys
  BY DEF Handle, Read, Send, Refuse, Succeed, Ambiguous, Mark, Store, Undo, Finish, FinishFails, Requeue, QueueKeeps,
         Manage, ListManaged, RefreshPeak, LetGo, ManagementOnly,
         HandlerKeeps, Surroundings, Request, Take, Land, Drop, RecoverStale, Leave, Forget,
         ChainKeeps, Crash, Boot, stores, vars
<1>4. \A c \in Claims : action[c] \notin Early => action'[c] = action[c] /\ phase'[c] = phase[c]
  <2>1. CASE Finish
    <3>1. worker.job \in Claims /\ action[worker.job] \in Early
      BY <2>1 DEF Finish, WorkerOwns, Early
    <3> QED
      BY <1>2, <2>1, <3>1 DEF Finish, TypeOK
  <2>2. CASE Requeue
    <3>1. worker.job \in Claims /\ action[worker.job] \in Early
      BY <2>2 DEF Requeue, WorkerOwns, Early
    <3> QED
      BY <1>2, <2>2, <3>1 DEF Requeue, TypeOK
  <2>3. CASE FinishFails
    BY <2>3 DEF FinishFails, stores
  <2>4. CASE Handle /\ ~Finish /\ ~FinishFails /\ ~Requeue
    BY <2>4 DEF Handle, Read, Send, Refuse, Succeed, Ambiguous, Mark, Store, Undo, HandlerKeeps
  <2>5. CASE Surroundings \/ UNCHANGED vars
    BY <1>2, <2>5
    DEF Surroundings, Request, Take, ProcessableStatuses, Land, Drop, RecoverStale, Leave,
        Forget, ChainKeeps, Manage, ListManaged, RefreshPeak, LetGo, ManagementOnly, Crash,
        Boot, stores, vars, TypeOK, Early
  <2> QED
    BY <2>1, <2>2, <2>3, <2>4, <2>5
<1>5. tick' = tick \/ (tick' = Rest /\ Troubles' > 0)
  <2>1. CASE Crash
    BY <1>2, <2>1, BoundsAreNatural DEF Crash, Troubles, TypeOK
  <2>2. CASE ~Crash
    BY <2>2 DEF Handle, Read, Send, Refuse, Succeed, Ambiguous, Mark, Store, Undo,
         Finish, FinishFails, Requeue, QueueKeeps,
         Manage, ListManaged, RefreshPeak, LetGo, ManagementOnly,
         HandlerKeeps, Surroundings, Request, Take, Land, Drop, RecoverStale, Leave, Forget,
         ChainKeeps, Boot, vars
  <2> QED
    BY <2>1, <2>2
<1>6. \A c \in Claims : phase'[c] = "DEPLOY_QUEUED" => phase[c] = "DEPLOY_QUEUED"
  <2>1. \A c \in Claims : action[c] \in Early => phase'[c] \in {"NONE", "PENDING_SWAP"}
    <3>1. CASE Finish
      BY <1>2, <3>1 DEF Finish, TypeOK, EarlyIsClean
    <3>2. CASE ~Finish
      BY <3>2 DEF Handle, Read, Send, Refuse, Succeed, Ambiguous, Mark, Store, Undo,
         FinishFails, Requeue, Manage, ListManaged, RefreshPeak, LetGo, ManagementOnly,
         HandlerKeeps, Surroundings, Request, Take, Land, Drop, RecoverStale, Leave, Forget,
         ChainKeeps, Crash, Boot, stores, vars, EarlyIsClean
    <3> QED
      BY <3>1, <3>2
  <2> QED
    BY <1>4, <2>1
<1>7. \A c \in Claims : redeploys[c] > 0 => action[c] \notin Early
  BY DEF EarlyIsClean
<1>8. \A c \in Claims : redeploys[c] > 0 =>
        phase'[c] = "DEPLOY_QUEUED" \/ Troubles' > 1 \/ Pending(c)'
  BY <1>1, <1>4, <1>5, <1>7 DEF RedeployKnown, Pending, Rest
<1>9. tick.step \in PostSteps => tick.job \in Claims /\ action[tick.job] \notin Early
  BY <1>2 DEF TickOwns, Early
<1> QED
  BY <1>2, <1>3, <1>4, <1>5, <1>6, <1>8, <1>9 DEF RedeployKnown, PostSteps, Rest

\* The steps of the tick that look, store the position, or store the action:
\* none of them ends the turn of a claim whose redeploy is not recorded.
LEMMA TurnsKeepRedeployKnown ==
  ASSUME Inv, RedeployKnown, BeginTick \/ (Reconcile /\ ~(PostProcess /\ ~Open /\ ~Done))
  PROVE  RedeployKnown'
<1> USE DEF Inv
<1>1. Troubles \in Nat /\ Troubles' \in Nat /\ Troubles <= Troubles'
  BY TroublesGrow DEF Next
<1>2. TypeOK /\ TickTyped /\ TickOwns
  BY DEF TypeOK
<1>3. phase' = phase /\ redeploys' = redeploys
  BY DEF BeginTick, Reconcile, PostProcess, Unreadable, ReadFails, FinalizeOpen, FinalizeMarked,
         FinalizeClaiming, FinalizeUnconfirmed, TimeOut, Reconciling, Open, Done, Resume,
         Recover, Snapshot, Look, Sync
<1>4. tick.step \notin {"swap", "swapped", "redeploy", "lookUp", "enqueued"}
  BY DEF BeginTick, Reconcile, PostProcess, Unreadable, ReadFails, FinalizeOpen, FinalizeMarked,
         FinalizeClaiming, FinalizeUnconfirmed, TimeOut, Reconciling, Open, Done, Resume,
         Recover, Snapshot, Look, Sync, Finalizes
<1>5. /\ tick'.step \notin {"swapped", "redeploy", "lookUp", "enqueued", "open"}
      /\ tick'.step = "done" => Open /\ tick'.job = tick.job
  <2> HIDE DEF Inv
  <2> USE <1>2 DEF TickTyped, To, Out, Rest, SetAction, SetPosition
  <2>1. CASE BeginTick
    BY <2>1 DEF BeginTick
  <2>2. CASE Resume
    BY <2>2 DEF Resume
  <2>3. CASE Unreadable \/ ReadFails \/ Recover
    BY <2>3 DEF Unreadable, ReadFails, Recover
  <2>4. CASE Snapshot
    <3>1. tick'.step = "look"
      BY <2>4 DEF Snapshot
    <3> QED
      BY <3>1
  <2>5. CASE Look
    <3>1. CASE tick' = Rest
      BY <3>1
    <3>2. ASSUME NEW s, tick' = [tick EXCEPT !.step = "sync", !.write = s]
          PROVE  tick'.step = "sync"
      BY <3>2
    <3> QED
      BY <2>5, <3>1, <3>2 DEF Look
  <2>6. CASE Sync
    BY <2>6 DEF Sync
  <2>7. CASE FinalizeMarked \/ FinalizeClaiming \/ FinalizeUnconfirmed
    BY <2>7 DEF FinalizeMarked, FinalizeClaiming, FinalizeUnconfirmed
  <2>8. CASE FinalizeOpen \/ TimeOut \/ Reconciling
    BY <2>8 DEF FinalizeOpen, TimeOut, Reconciling
  <2>9. CASE Open
    BY <2>9 DEF Open
  <2>10. CASE Done
    BY <2>10 DEF Done
  <2> QED
    BY <2>1, <2>2, <2>3, <2>4, <2>5, <2>6, <2>7, <2>8, <2>9, <2>10 DEF Reconcile
<1>6. ASSUME NEW c \in Claims, Pending(c)
      PROVE  action'[c] = "RECONCILING"
  <2>1. CASE FinalizeOpen \/ TimeOut \/ Reconciling
    <3>1. tick.job \in Claims /\ action[tick.job] = "WAITING_CONFIRMATION"
      BY <1>2, <2>1 DEF FinalizeOpen, TimeOut, Reconciling, Finalizes, TickOwns
    <3> QED
      BY <1>2, <1>6, <2>1, <3>1
      DEF FinalizeOpen, TimeOut, Reconciling, SetAction, Pending, TypeOK
  <2>2. CASE Done
    <3>1. tick.job \in Claims /\ tick.job # c
      BY <1>2, <1>6, <2>2 DEF Done, TickOwns, PostSteps, Pending
    <3> QED
      BY <1>2, <1>6, <2>2, <3>1 DEF Done, SetAction, Pending, TypeOK
  <2>3. CASE ~(FinalizeOpen \/ TimeOut \/ Reconciling \/ Done)
    BY <1>6, <2>3
    DEF BeginTick, Reconcile, PostProcess, Unreadable, ReadFails, FinalizeMarked,
        FinalizeClaiming, FinalizeUnconfirmed, Open, Resume, Recover, Snapshot, Look, Sync,
        Pending
  <2> QED
    BY <2>1, <2>2, <2>3
<1>7. ASSUME NEW c \in Claims, Pending(c)
      PROVE  Pending(c)'
  <2>1. Troubles' # 0
    BY <1>1, <1>4, <1>7 DEF Pending
  <2>2. tick'.job = c => tick'.step # "done"
    BY <1>5, <1>7 DEF Pending, Open
  <2> QED
    BY <1>3, <1>5, <1>6, <1>7, <2>1, <2>2 DEF Pending
<1>8. \A c \in Claims : redeploys'[c] > 0 =>
        phase'[c] = "DEPLOY_QUEUED" \/ Troubles' > 1 \/ Pending(c)'
  BY <1>1, <1>3, <1>7 DEF RedeployKnown
<1> QED
  BY <1>3, <1>5, <1>8 DEF RedeployKnown

\* The steps between the end of a claim and the record of its redeploy.
LEMMA PostProcessingKeepsRedeployKnown ==
  ASSUME Inv, RedeployKnown, PostProcess, ~Open, ~Done
  PROVE  RedeployKnown'
<1> USE DEF Inv
<1>1. Troubles \in Nat /\ Troubles' \in Nat /\ Troubles <= Troubles'
  BY TroublesGrow DEF Next, Reconcile
<1>2. TypeOK /\ TypeOK' /\ TickTyped /\ TickOwns
  BY TickKeepsTypes DEF TypeOK, Reconcile
<1>3. /\ tick.job \in Claims /\ action[tick.job] = "RECONCILING"
      /\ action' = action
  BY DEF PostProcess, SwapMarker, SwapInterrupted, PostDone, Swap, SwapRefused, Swapped,
         Redeploy, RedeployBlocked, LookUp, Enqueued, TickOwns, PostSteps, PostKeeps
<1>4. \A c \in Claims : c # tick.job =>
        phase'[c] = phase[c] /\ redeploys'[c] = redeploys[c]
  BY <1>2, <1>3
  DEF PostProcess, SwapMarker, SwapInterrupted, PostDone, Swap, SwapRefused, Swapped,
      Redeploy, RedeployBlocked, LookUp, Enqueued, Persist, TypeOK
<1>5. Troubles' = Troubles \/ Troubles' > Troubles
  BY <1>1
<1>6. UNCHANGED faults => Troubles' = Troubles
  BY DEF PostProcess, SwapMarker, SwapInterrupted, PostDone, Swap, SwapRefused, Swapped,
         Redeploy, RedeployBlocked, LookUp, Enqueued, PostKeeps, TickKeeps, Troubles
<1>7. Fault => Troubles' > Troubles
  <2>1. PICK f \in Nat, c \in Nat : f = faults /\ c = crashes
    BY <1>2, BoundsAreNatural DEF TypeOK
  <2>2. crashes' = crashes
    BY DEF PostProcess, SwapMarker, SwapInterrupted, PostDone, Swap, SwapRefused, Swapped,
         Redeploy, RedeployBlocked, LookUp, Enqueued, PostKeeps, TickKeeps
  <2>3. Fault => Troubles' = (f + 1) + c /\ Troubles = f + c
    BY <2>1, <2>2 DEF Fault, Troubles
  <2> QED
    BY <2>1, <2>3
<1>8. tick'.job = tick.job
  <2> HIDE DEF Inv
  <2> USE <1>2 DEF TickTyped, Persist, To, Out, Intend
  <2>1. CASE SwapMarker \/ SwapInterrupted \/ PostDone
    BY <2>1 DEF SwapMarker, SwapInterrupted, PostDone
  <2>2. CASE Swap \/ SwapRefused
    BY <2>2 DEF Swap, SwapRefused
  <2>3. CASE Redeploy \/ RedeployBlocked \/ LookUp
    BY <2>3 DEF Redeploy, RedeployBlocked, LookUp
  <2>4. CASE Swapped \/ Enqueued
    BY <2>4 DEF Swapped, Enqueued
  <2> QED
    BY <2>1, <2>2, <2>3, <2>4 DEF PostProcess
<1> DEFINE j == tick.job
<1>9. /\ phase'[j] = "DEPLOY_QUEUED" => redeploys'[j] > 0
      /\ tick'.step = "swapped" => phase'[j] = "SWAP_IN_PROGRESS"
      /\ tick'.step \in {"redeploy", "lookUp", "enqueued"} => phase'[j] = "SWAP_DONE"
      /\ tick'.step = "enqueued" /\ tick'.next = "DEPLOY_QUEUED" => redeploys'[j] > 0
      /\ redeploys'[j] > 0 =>
           \/ phase'[j] = "DEPLOY_QUEUED" \/ Troubles' > 1
           \/ /\ phase'[j] = "SWAP_DONE" /\ tick'.step \notin {"open", "done"}
              /\ tick'.step = "enqueued" => tick'.next = "DEPLOY_QUEUED"
              /\ Troubles' = 0 => tick'.step = "enqueued"
  <2>1. /\ phase[j] = "DEPLOY_QUEUED" => redeploys[j] > 0
        /\ redeploys[j] > 0 =>
             \/ phase[j] = "DEPLOY_QUEUED" \/ Troubles > 1
             \/ /\ phase[j] = "SWAP_DONE" /\ tick.step \notin {"open", "done"}
                /\ tick.step = "enqueued" => tick.next = "DEPLOY_QUEUED"
                /\ Troubles = 0 => tick.step = "enqueued"
        /\ tick.step = "swapped" => phase[j] = "SWAP_IN_PROGRESS"
        /\ tick.step \in {"redeploy", "lookUp", "enqueued"} => phase[j] = "SWAP_DONE"
        /\ tick.step = "enqueued" /\ tick.next = "DEPLOY_QUEUED" => redeploys[j] > 0
        /\ redeploys[j] \in Nat
    BY <1>2, <1>3 DEF RedeployKnown, Pending, TypeOK
  <2>2. /\ tick.step = "swap" => phase[j] = "SWAP_IN_PROGRESS"
        /\ tick.step = "swapped" => tick.next \in {"SWAP_DONE", "FAILED"}
        /\ tick.step = "enqueued" => tick.next \in {"DEPLOY_QUEUED", "FAILED"}
        /\ redeploys[j] > 0 => mode[j] = "compound"
    BY <1>2, <1>3 DEF SwapStep, RedeployStep, RedeployFollowsSwap, TypeOK
  <2>3. /\ \A p : [phase EXCEPT ![j] = p][j] = p
        /\ [redeploys EXCEPT ![j] = 1][j] = 1
    BY <1>2, <1>3 DEF TypeOK
  <2>4. PICK t \in Nat, u \in Nat : t = Troubles /\ u = Troubles'
    BY <1>1
  <2>5. /\ t <= u /\ (UNCHANGED faults => u = t) /\ (Fault => u > t)
    BY <1>1, <1>6, <1>7, <2>4
  <2> HIDE DEF Inv
  <2> USE <2>1, <2>2, <2>3, <2>4, <2>5, <1>2 DEF TickTyped, PostKeeps, Persist, To, Out, Intend,
          NoFault
  <2>6. CASE SwapMarker
    BY <2>6 DEF SwapMarker, SwapIsDue
  <2>7. CASE SwapInterrupted
    BY <2>7 DEF SwapInterrupted
  <2>8. CASE PostDone
    BY <2>8 DEF PostDone, RedeployIsDue
  <2>9. CASE Swap \/ SwapRefused
    <3>1. CASE Swap
      BY <3>1 DEF Swap
    <3>2. CASE SwapRefused
      BY <3>2 DEF SwapRefused
    <3> QED
      BY <2>9, <3>1, <3>2
  <2>10. CASE Swapped
    BY <2>10 DEF Swapped
  <2>11. CASE Redeploy
    <3> phase'[j] = "SWAP_DONE"
      BY <2>11 DEF Redeploy
    <3>1. CASE Intend("DEPLOY_QUEUED", "enqueued") /\ redeploys' = [redeploys EXCEPT ![j] = 1]
      <4>1. tick'.step = "enqueued" /\ tick'.next = "DEPLOY_QUEUED" /\ redeploys'[j] = 1
        BY <3>1
      <4> QED
        BY <4>1
    <3>2. CASE Fault /\ To("lookUp")
      <4>1. tick'.step = "lookUp" /\ u # 0
        BY <3>2
      <4> QED
        BY <4>1
    <3> QED
      BY <2>11, <3>1, <3>2 DEF Redeploy
  <2>12. CASE RedeployBlocked
    BY <2>12 DEF RedeployBlocked
  <2>13. CASE LookUp
    <3>1. phase'[j] = "SWAP_DONE" /\ redeploys'[j] = redeploys[j] /\ tick'.step = "enqueued"
      BY <2>13 DEF LookUp
    <3>2. CASE Intend(IF redeploys[j] > 0 THEN "DEPLOY_QUEUED" ELSE "FAILED", "enqueued")
      <4>1. \/ redeploys[j] > 0 /\ tick'.next = "DEPLOY_QUEUED"
            \/ ~(redeploys[j] > 0) /\ tick'.next = "FAILED"
        BY <3>2
      <4> QED
        BY <3>1, <4>1
    <3>3. CASE Fault /\ Intend("FAILED", "enqueued")
      <4>1. tick'.next = "FAILED"
        BY <3>3
      <4>2. redeploys[j] > 0 => t # 0
        BY <2>13 DEF LookUp
      <4>3. redeploys[j] > 0 => u > 1
        BY <3>3, <4>2
      <4> QED
        BY <3>1, <4>1, <4>3
    <3> QED
      BY <2>13, <3>2, <3>3 DEF LookUp
  <2>14. CASE Enqueued
    BY <2>14 DEF Enqueued
  <2> QED
    BY <2>6, <2>7, <2>8, <2>9, <2>10, <2>11, <2>12, <2>13, <2>14 DEF PostProcess
<1>10. \A c \in Claims : redeploys'[c] > 0 =>
         phase'[c] = "DEPLOY_QUEUED" \/ Troubles' > 1 \/ Pending(c)'
  <2>1. ASSUME NEW c \in Claims, c # j, redeploys'[c] > 0
        PROVE  phase'[c] = "DEPLOY_QUEUED" \/ Troubles' > 1 \/ Pending(c)'
    <3>1. phase[c] = "DEPLOY_QUEUED" \/ Troubles > 1 \/ Pending(c)
      BY <1>4, <2>1 DEF RedeployKnown
    <3>2. Pending(c) => Pending(c)'
      BY <1>1, <1>3, <1>4, <1>8, <2>1 DEF Pending
    <3> QED
      BY <1>1, <1>4, <2>1, <3>1, <3>2
  <2> TAKE c \in Claims
  <2>2. CASE c = j
    BY <1>3, <1>8, <1>9, <2>2 DEF Pending
  <2>3. CASE c # j
    BY <2>1, <2>3
  <2> QED
    BY <2>2, <2>3
<1> QED
  BY <1>3, <1>4, <1>8, <1>9, <1>10 DEF RedeployKnown

\* A claim that is DONE tells truly whether its redeploy was enqueued, unless
\* two calls failed, or two runs, or one of each.
THEOREM DoneTellsTheRedeploy == Spec => []DoneTellsRedeploy
<1>1. Init => RedeployKnown
  BY DEF Init, RedeployKnown, Rest
<1>2. Inv /\ RedeployKnown /\ [Next]_vars => RedeployKnown'
  <2>1. [Next]_vars =>
          \/ Handle \/ Surroundings \/ UNCHANGED vars
          \/ BeginTick \/ (Reconcile /\ ~(PostProcess /\ ~Open /\ ~Done))
          \/ PostProcess /\ ~Open /\ ~Done
    BY DEF Next, Surroundings, Reconcile
  <2> QED
    BY <2>1, OutsideKeepsRedeployKnown, TurnsKeepRedeployKnown,
       PostProcessingKeepsRedeployKnown
<1>3. Inv /\ RedeployKnown => DoneTellsRedeploy
  <2> SUFFICES ASSUME Inv, RedeployKnown, faults + crashes <= 1,
                      NEW c \in Claims, action[c] = "DONE"
               PROVE  phase[c] = "DEPLOY_QUEUED" <=> redeploys[c] > 0
    BY DEF DoneTellsRedeploy
  <2>1. ~(Troubles > 1)
    <3>1. PICK t \in Nat : t = faults + crashes
      BY BoundsAreNatural DEF Inv, TypeOK
    <3> QED
      BY <3>1 DEF Troubles
  <2> QED
    BY <2>1 DEF RedeployKnown, Pending
<1> QED
  BY <1>1, <1>2, <1>3, ClaimInvariant, PTL DEF Spec
=============================================================================
