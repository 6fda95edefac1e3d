------------------------- MODULE PositionFlowProofs -------------------------
(***************************************************************************)
(* Proofs about PositionFlow, for any set of closes and any number of      *)
(* failing calls and of crashes: what DONE and CLOSED tell of the chain,   *)
(* that the proceeds of a close are swapped once, and that CLOSED is final *)
(* while no call fails.                                                    *)
(*                                                                         *)
(* The queue's task and the reconciler's write the same stores without a   *)
(* lock between them.  The argument is that only one action is active at a *)
(* time (OneActive): a handler holds it while it is RUNNING (Working), the *)
(* reconciler acts on it when it is not (Ticking), so neither moves what   *)
(* the other has read, but for two writers: the snapshot pass, which never *)
(* looks at a CLOSED position, and the management tick, which writes the   *)
(* position OPEN whatever it has become.  What is said of the store allows *)
(* for that one write (reopened); what is said of the chain does not need  *)
(* to.                                                                     *)
(***************************************************************************)
EXTENDS PositionFlow, TLAPS

\* At most one action is active.
OneActive ==
  \A a, b \in Actions :
    action[a] \in ActiveWriteStatuses /\ action[b] \in ActiveWriteStatuses => a = b

\* The worker holds the running action.  It writes the position only while
\* that is not CLOSED.
Working ==
  worker.step # "idle" =>
    /\ booted /\ worker.job \in Actions /\ action[worker.job] = "RUNNING"
    /\ worker.step \in {"read", "start"} => worker.job \in Closes
    /\ worker.step \in {"start", "send", "answer", "store", "mark"} => local["pos"] # "CLOSED"
    /\ worker.step \in {"store", "mark", "finish"} =>
         worker.outcome \in {"WAITING_CONFIRMATION", "FAILED", "ABORTED"}

\* What the reconciler has found and done when it is at a step.
Waiting == {"confirmDeploy", "finalizeClose", "reconciling", "timeOut", "swapMarker"}
Marked == {"done", "swap", "close", "closeDone", "recover", "recoverEnd"}
Finalizing == {"swapMarker", "swap", "close", "closeDone", "undoPosition"}

Ticking ==
  /\ tick.step # "idle" => booted
  /\ tick.step \in Waiting => action[tick.job] = "WAITING_CONFIRMATION"
  /\ tick.step \in Marked => action[tick.job] = "RECONCILING"
  /\ tick.step \in Waiting \cup Marked => tick.job \in Actions
  /\ tick.step = "confirmDeploy" => tick.job = Deploy
  /\ tick.step \in {"undoPosition", "undoAction"} =>
       action[tick.job] \in {"WAITING_CONFIRMATION", "RECONCILING"} /\ faults > 0
  /\ tick.step \in Finalizing \cup {"finalizeClose", "undoAction"} => tick.job \in Closes
  /\ tick.step = "sync" =>
       /\ tick.at \in tick.tracked
       /\ tick.write \in {"OPEN", "RECONCILIATION_REQUIRED"}
       /\ tick.at = "pos" => local["pos"] # "CLOSED"

\* A close was asked for, or CLOSED or the like was stored, only once the
\* position was there, and it is closed there where the reconciler says so.
Existed ==
  /\ chain = "absent" =>
       /\ local["pos"] # "OPEN" /\ \A c \in Closes : action[c] = "ABSENT"
       /\ ~known /\ tx[Deploy] # "landed" /\ ~tick.shown /\ tick.write # "OPEN"
       /\ ~managed
  /\ local["pos"] = "CLOSED" \/ tick.step \in Finalizing => chain = "closed"

\* What is not asked for yet has left no trace.
Fresh ==
  action[Deploy] \in {"ABSENT", "QUEUED"} =>
    /\ local = [i \in Ids |-> "none"] /\ tick.tracked = {} /\ ~managed
    /\ \A c \in Closes : action[c] = "ABSENT"

Addressed == action[Deploy] \in {"WAITING_CONFIRMATION", "RECONCILING"} => deployedAs \in Ids

\* The position of a close that has succeeded.
Ended == chain = "closed" /\ (local["pos"] = "CLOSED" \/ reopened)

\* The actions that are done, and those about to be.
Concluded ==
  /\ \A c \in Closes : action[c] = "DONE" => Ended
  /\ action[Deploy] = "DONE" => deployedAs = "pos" /\ chain # "absent"
  /\ tick.step \in {"reconciling", "done"} =>
       IF tick.job = Deploy THEN deployedAs = "pos" /\ chain # "absent" ELSE Ended
  /\ tick.step = "closeDone" => Ended
  /\ tick.step \in Finalizing => reopened \/ \A c \in Closes : action[c] # "DONE"

Swapping ==
  \A c \in Closes :
    /\ swaps[c] <= 1
    /\ action[c] \in {"ABSENT", "QUEUED", "RUNNING", "WAITING_CONFIRMATION"} => swaps[c] = 0
    /\ tick.step = "swap" /\ tick.job = c => swaps[c] = 0

Inv ==
  /\ TypeOK /\ OneActive /\ Working /\ Ticking /\ Existed /\ Fresh /\ Addressed
  /\ Concluded /\ Swapping
-----------------------------------------------------------------------------
(* The steps, in groups *)

Outside ==
  \/ \E a \in Actions : Request(a) \/ Claim(a) \/ Land(a) \/ Drop(a) \/ RecoverStale(a)
  \/ Crash \/ Boot

\* The reconciler's steps that write nothing.
Looking ==
  \/ BeginTick \/ Resume \/ List \/ Snapshot \/ EndTick
  \/ \E i \in Ids : Look(i)

\* Those that conclude an action, and write.
Concluding ==
  \/ ConfirmDeploy \/ Reconciling \/ Done \/ TimeOut
  \/ FinalizeClose \/ SwapMarker \/ Swap \/ Close \/ CloseDone
  \/ UndoPosition \/ UndoAction \/ Recover \/ RecoverEnd

LEMMA NextIsGrouped ==
  Next => Outside \/ Handle \/ Looking \/ Concluding \/ Sync \/ Manage
BY DEF Next, Reconcile, Outside, Looking, Concluding

WorkerType ==
  [step : WorkerSteps, job : Actions \cup {NoAction},
   outcome : ActionStatuses \cup {"none"}, unsure : BOOLEAN]

TickType ==
  [step : TickSteps, job : Actions \cup {NoAction}, tracked : SUBSET Ids, shown : BOOLEAN,
   at : Ids \cup {"none"}, write : Stored]

\* The names of the actions are different, and so are the addresses.
LEMMA NamesDiffer ==
  /\ Deploy \in Actions /\ Closes \subseteq Actions /\ Deploy \notin Closes
  /\ NoAction \notin Actions
  /\ \A a \in Actions : a = Deploy \/ a \in Closes
  /\ "pos" \in Ids
BY DeployIsNoClose, NoActionIsNoAction DEF Actions, Ids

-----------------------------------------------------------------------------
(* The helpers of the reconciler *)

\* An action is written, or the write fails.
LEMMA ActionWrites ==
  ASSUME TypeOK, NEW a \in Actions, NEW s \in ActionStatuses,
         NEW next \in TickSteps, NEW caught \in TickSteps, UpdateAction(a, s, next, caught)
  PROVE  /\ local' = local
         /\ action' \in [Actions -> ActionStatuses \cup {"ABSENT"}]
         /\ tick' \in TickType /\ tick' = [tick EXCEPT !.step = tick'.step]
         /\ faults' \in 0..MaxFaults
         /\ \/ /\ faults' = faults /\ tick'.step = next /\ action'[a] = s
               /\ \A b \in Actions \ {a} : action'[b] = action[b]
            \/ faults' = faults + 1 /\ faults' > 0 /\ tick'.step = caught /\ action' = action
<1> USE DEF TypeOK, TickType
<1>1. local' = local
  BY DEF UpdateAction
<1>2. CASE NoFault /\ SetAction(a, s) /\ To(next)
  <2>1. tick' \in TickType /\ tick' = [tick EXCEPT !.step = tick'.step] /\ tick'.step = next
    BY <1>2 DEF To
  <2>2. /\ action' \in [Actions -> ActionStatuses \cup {"ABSENT"}] /\ action'[a] = s
        /\ \A b \in Actions \ {a} : action'[b] = action[b]
    BY <1>2 DEF SetAction
  <2> QED
    BY <1>1, <1>2, <2>1, <2>2 DEF NoFault
<1>3. CASE Fault /\ UNCHANGED action /\ To(caught)
  <2>1. tick' \in TickType /\ tick' = [tick EXCEPT !.step = tick'.step] /\ tick'.step = caught
    BY <1>3 DEF To
  <2>2. faults' = faults + 1 /\ faults' \in 0..MaxFaults /\ faults' > 0
    BY <1>3, BoundsAreNatural DEF Fault
  <2> QED
    BY <1>1, <1>3, <2>1, <2>2
<1> QED
  BY <1>2, <1>3 DEF UpdateAction

\* A position is written, or the write fails.
LEMMA PositionWrites ==
  ASSUME TypeOK, NEW i \in Ids, NEW s \in Stored,
         NEW next \in TickSteps, NEW caught \in TickSteps, UpdatePosition(i, s, next, caught)
  PROVE  /\ action' = action
         /\ local' \in [Ids -> Stored]
         /\ tick' \in TickType /\ tick' = [tick EXCEPT !.step = tick'.step]
         /\ faults' \in 0..MaxFaults
         /\ \/ /\ faults' = faults /\ tick'.step = next /\ local'[i] = s
               /\ \A j \in Ids \ {i} : local'[j] = local[j]
            \/ faults' = faults + 1 /\ faults' > 0 /\ tick'.step = caught /\ local' = local
<1> USE DEF TypeOK, TickType
<1>1. action' = action
  BY DEF UpdatePosition
<1>2. CASE NoFault /\ Put(i, s) /\ To(next)
  <2>1. tick' \in TickType /\ tick' = [tick EXCEPT !.step = tick'.step] /\ tick'.step = next
    BY <1>2 DEF To
  <2>2. /\ local' \in [Ids -> Stored] /\ local'[i] = s
        /\ \A j \in Ids \ {i} : local'[j] = local[j]
    BY <1>2 DEF Put
  <2> QED
    BY <1>1, <1>2, <2>1, <2>2 DEF NoFault
<1>3. CASE Fault /\ UNCHANGED local /\ To(caught)
  <2>1. tick' \in TickType /\ tick' = [tick EXCEPT !.step = tick'.step] /\ tick'.step = caught
    BY <1>3 DEF To
  <2>2. faults' = faults + 1 /\ faults' \in 0..MaxFaults /\ faults' > 0
    BY <1>3, BoundsAreNatural DEF Fault
  <2> QED
    BY <1>1, <1>3, <2>1, <2>2
<1> QED
  BY <1>2, <1>3 DEF UpdatePosition

\* A step writes nothing.
LEMMA Skips ==
  ASSUME TypeOK, NEW next \in TickSteps, Skip(next)
  PROVE  /\ UNCHANGED <<action, local, faults>>
         /\ tick' \in TickType /\ tick' = [tick EXCEPT !.step = next] /\ tick'.step = next
BY DEF Skip, To, TypeOK, TickType

\* While a handler runs the reconciler holds no action.
LEMMA Apart ==
  ASSUME TypeOK, OneActive, Working, Ticking, worker.step # "idle"
  PROVE  tick.step \notin Waiting \cup Marked \cup {"undoPosition", "undoAction"}
<1>1. SUFFICES ASSUME tick.step \in Waiting \cup Marked \cup {"undoPosition", "undoAction"}
      PROVE  FALSE
  OBVIOUS
<1>2. /\ tick.job \in Actions
      /\ action[tick.job] \in {"WAITING_CONFIRMATION", "RECONCILING"}
  BY <1>1, NamesDiffer DEF Ticking, Waiting, Marked, Finalizing
<1>3. worker.job \in Actions /\ action[worker.job] = "RUNNING"
  BY DEF Working
<1>4. worker.job = tick.job
  BY <1>2, <1>3 DEF OneActive, ActiveWriteStatuses
<1> QED
  BY <1>2, <1>3, <1>4
-----------------------------------------------------------------------------
(* What the steps that conclude an action write *)

\* Such a step has the active action to itself, and changes no other.
Kept == /\ deployedAs' = deployedAs /\ ambiguous' = ambiguous
        /\ chain' = chain /\ tx' = tx /\ booted' = booted /\ known' = known
        /\ worker' = worker /\ confirmed' = confirmed /\ crashes' = crashes
        /\ managed' = managed /\ reopened' = reopened /\ peaks' = peaks

Concludes ==
  /\ Kept
  /\ action' \in [Actions -> ActionStatuses \cup {"ABSENT"}] /\ local' \in [Ids -> Stored]
  /\ swaps' \in [Closes -> Nat]
  /\ tick' \in TickType /\ tick'.job = tick.job
  /\ tick'.shown = tick.shown /\ tick'.write = tick.write
  /\ faults' \in 0..MaxFaults /\ faults' >= faults
  /\ \A a \in Actions : action'[a] # action[a] =>
       a = tick.job /\ action'[a] \in {"RECONCILING", "DONE", "FAILED", "TIMED_OUT"}

LEMMA ConcludingAlone ==
  ASSUME Inv, Concluding
  PROVE  /\ tick.job \in Actions /\ worker.step = "idle"
         /\ action[tick.job] \in {"WAITING_CONFIRMATION", "RECONCILING"}
         /\ Kept
<1> USE DEF Inv
<1>1. tick.step \in Waiting \cup Marked \cup {"undoPosition", "undoAction"}
  BY DEF Concluding, ConfirmDeploy, Reconciling, Done, TimeOut, FinalizeClose, SwapMarker, Swap,
         Close, CloseDone, UndoPosition, UndoAction, Recover, RecoverEnd, Waiting, Marked
<1>2. worker.step = "idle"
  BY <1>1, Apart
<1>3. /\ tick.job \in Actions
      /\ action[tick.job] \in {"WAITING_CONFIRMATION", "RECONCILING"}
  BY <1>1, NamesDiffer DEF Ticking, Waiting, Marked, Finalizing
<1>4. TickKeeps
  BY DEF Concluding, ConfirmDeploy, Reconciling, Done, TimeOut, FinalizeClose, SwapMarker, Swap,
         Close, CloseDone, UndoPosition, UndoAction, Recover, RecoverEnd
<1> QED
  BY <1>2, <1>3, <1>4 DEF TickKeeps, chainVars, management, Kept

\* The parts of the invariant that such a step keeps whatever it is.
LEMMA ConcludesKeeps ==
  ASSUME Inv, Concluding, Concludes
  PROVE  TypeOK' /\ OneActive' /\ Working' /\ Fresh' /\ Addressed'
<1> USE DEF Inv
<1>1. /\ tick.job \in Actions /\ worker.step = "idle"
      /\ action[tick.job] \in {"WAITING_CONFIRMATION", "RECONCILING"}
  BY ConcludingAlone
<1>2. TypeOK'
  BY DEF Concludes, Kept, TypeOK, TickType
<1>3. OneActive'
  BY <1>1 DEF Concludes, OneActive, ActiveWriteStatuses
<1>4. Working'
  BY <1>1 DEF Concludes, Kept, Working
<1>5. Fresh'
  <2>1. action[Deploy] \notin {"ABSENT", "QUEUED"}
    BY <1>1, NamesDiffer DEF Fresh
  <2>2. action'[Deploy] \notin {"ABSENT", "QUEUED"}
    BY <2>1, NamesDiffer DEF Concludes
  <2> QED
    BY <2>2 DEF Fresh
<1>6. Addressed'
  BY <1>1, NamesDiffer DEF Concludes, Kept, Addressed
<1> QED
  BY <1>2, <1>3, <1>4, <1>5, <1>6

\* The steps that write the action only.
LEMMA ActionSteps ==
  ASSUME Inv, NEW s \in {"RECONCILING", "DONE", "FAILED", "TIMED_OUT"},
         NEW next \in TickSteps, NEW caught \in TickSteps,
         Concluding, UpdateAction(tick.job, s, next, caught), UNCHANGED swaps
  PROVE  /\ Concludes /\ local' = local
         /\ \/ faults' = faults /\ tick'.step = next /\ action'[tick.job] = s
            \/ faults' > 0 /\ tick'.step = caught /\ action' = action
<1>1. tick.job \in Actions /\ Kept
  BY ConcludingAlone
<1>2. s \in ActionStatuses
  BY DEF ActionStatuses
<1>3. /\ local' = local
      /\ action' \in [Actions -> ActionStatuses \cup {"ABSENT"}]
      /\ tick' \in TickType /\ tick' = [tick EXCEPT !.step = tick'.step]
      /\ faults' \in 0..MaxFaults
      /\ \/ /\ faults' = faults /\ tick'.step = next /\ action'[tick.job] = s
            /\ \A b \in Actions \ {tick.job} : action'[b] = action[b]
         \/ faults' = faults + 1 /\ faults' > 0 /\ tick'.step = caught /\ action' = action
  BY <1>1, <1>2, ActionWrites DEF Inv
<1> QED
  BY <1>1, <1>3 DEF Concludes, Inv, TypeOK, TickType

\* Those that write a position only.
LEMMA PositionSteps ==
  ASSUME Inv, NEW i \in Ids, NEW s \in Stored,
         NEW next \in TickSteps, NEW caught \in TickSteps,
         Concluding, UpdatePosition(i, s, next, caught), UNCHANGED swaps
  PROVE  /\ Concludes /\ action' = action
         /\ \/ /\ faults' = faults /\ tick'.step = next /\ local'[i] = s
               /\ \A j \in Ids \ {i} : local'[j] = local[j]
            \/ faults' > 0 /\ tick'.step = caught /\ local' = local
<1>1. tick.job \in Actions /\ Kept
  BY ConcludingAlone
<1>2. /\ action' = action
      /\ local' \in [Ids -> Stored]
      /\ tick' \in TickType /\ tick' = [tick EXCEPT !.step = tick'.step]
      /\ faults' \in 0..MaxFaults
      /\ \/ /\ faults' = faults /\ tick'.step = next /\ local'[i] = s
            /\ \A j \in Ids \ {i} : local'[j] = local[j]
         \/ faults' = faults + 1 /\ faults' > 0 /\ tick'.step = caught /\ local' = local
  BY PositionWrites DEF Inv
<1> QED
  BY <1>1, <1>2 DEF Concludes, Inv, TypeOK, TickType

\* Those that write nothing.
LEMMA SkippedSteps ==
  ASSUME Inv, NEW next \in TickSteps, Concluding, Skip(next), UNCHANGED swaps
  PROVE  /\ Concludes /\ UNCHANGED <<action, local, faults>>
         /\ tick'.step = next
<1>1. tick.job \in Actions /\ Kept
  BY ConcludingAlone
<1>2. /\ UNCHANGED <<action, local, faults>>
      /\ tick' \in TickType /\ tick' = [tick EXCEPT !.step = next] /\ tick'.step = next
  BY Skips DEF Inv
<1> QED
  BY <1>1, <1>2 DEF Concludes, Inv, TypeOK, TickType

-----------------------------------------------------------------------------
(* The deploy's confirmation, and the ends common to it and the close *)

\* CLOSED is written over only after a call has failed.
SparesClosed == local["pos"] = "CLOSED" /\ faults' = 0 => local'["pos"] = "CLOSED"

Steady == Ticking' /\ Existed' /\ Concluded' /\ Swapping' /\ SparesClosed

\* The position is OPEN, or marked, unless it is CLOSED.
LEMMA ConfirmDeployKeeps ==
  ASSUME Inv, ConfirmDeploy
  PROVE  Concludes /\ Steady
<1> USE DEF Inv
<1>1. deployedAs \in Ids /\ tick.job = Deploy /\ action[Deploy] = "WAITING_CONFIRMATION"
  BY NamesDiffer DEF ConfirmDeploy, Ticking, Waiting, Addressed
<1>2. {"reconciling", "timeOut", "resume"} \subseteq TickSteps
  BY DEF TickSteps
<1>3. {"OPEN", "RECONCILIATION_REQUIRED"} \subseteq Stored
  BY DEF Stored
<1>4. Concluding /\ UNCHANGED swaps
  BY DEF Concluding, ConfirmDeploy
<1> DEFINE Found == Seen(deployedAs)
                    /\ local[deployedAs] \in {"none", "DEPLOYING", "RECONCILIATION_REQUIRED",
                                              "OPEN"}
<1>5. /\ Concludes /\ action' = action
      /\ tick'.step \in {"reconciling", "timeOut", "resume"}
      /\ tick'.step = "reconciling" => deployedAs = "pos" /\ chain # "absent"
      /\ \/ local'["pos"] = local["pos"]
         \/ /\ local["pos"] # "CLOSED"
            /\ \/ local'["pos"] = "RECONCILIATION_REQUIRED"
               \/ local'["pos"] = "OPEN" /\ chain # "absent"
  <2>1. CASE Found
    <3>1. deployedAs = "pos" /\ chain # "absent" /\ local["pos"] # "CLOSED"
      BY <2>1 DEF Seen, Existed
    <3>2. UpdatePosition("pos", "OPEN", "reconciling", "resume")
      BY <2>1, <3>1 DEF ConfirmDeploy
    <3> QED
      BY <1>2, <1>3, <1>4, <3>1, <3>2, PositionSteps, NamesDiffer
  <2>2. CASE ~Found /\ local[deployedAs] \notin {"CLOSED", "ABORTED"}
    <3>1. UpdatePosition(deployedAs, "RECONCILIATION_REQUIRED", "timeOut", "resume")
      BY <2>2 DEF ConfirmDeploy
    <3> QED
      BY <1>1, <1>2, <1>3, <1>4, <2>2, <3>1, PositionSteps, NamesDiffer
  <2>3. CASE ~Found /\ local[deployedAs] \in {"CLOSED", "ABORTED"}
    <3>1. Skip("resume")
      BY <2>3 DEF ConfirmDeploy
    <3> QED
      BY <1>2, <1>4, <3>1, SkippedSteps
  <2> QED
    BY <2>1, <2>2, <2>3
<1>6. tick.step = "confirmDeploy" /\ tick'.job = Deploy /\ swaps' = swaps /\ booted' = booted
  BY <1>1, <1>5 DEF ConfirmDeploy, Concludes, TypeOK, Kept
<1>7. Ticking'
  BY <1>1, <1>5, <1>6 DEF Concludes, Kept, Ticking, Waiting, Marked, Finalizing
<1>8. Existed'
  BY <1>5, <1>6 DEF Concludes, Kept, Existed, Finalizing
<1>9. Concluded'
  BY <1>5, <1>6 DEF Concludes, Kept, Concluded, Ended, Finalizing
<1>10. Swapping'
  BY <1>5, <1>6 DEF Swapping
<1>11. SparesClosed
  BY <1>5 DEF SparesClosed
<1> QED
  BY <1>5, <1>7, <1>8, <1>9, <1>10, <1>11 DEF Steady

\* The action is marked as being reconciled, and is DONE afterwards.
LEMMA ReconcilingKeeps ==
  ASSUME Inv, Reconciling
  PROVE  Concludes /\ Steady
<1> USE DEF Inv
<1>1. tick.job \in Actions /\ action[tick.job] = "WAITING_CONFIRMATION"
  BY DEF Reconciling, Ticking, Waiting
<1>2. "done" \in TickSteps /\ "resume" \in TickSteps
  BY DEF TickSteps
<1>3. Concluding /\ UNCHANGED swaps
  BY DEF Concluding, Reconciling
<1>4. /\ Concludes /\ local' = local
      /\ \/ tick'.step = "done" /\ action'[tick.job] = "RECONCILING"
         \/ tick'.step = "resume" /\ action' = action
  BY <1>2, <1>3, ActionSteps DEF Reconciling
<1>5. tick.step = "reconciling" /\ tick'.job = tick.job /\ swaps' = swaps
  BY <1>3, <1>4 DEF Reconciling, Concludes, TypeOK
<1>6. Ticking'
  BY <1>1, <1>4, <1>5 DEF Concludes, Kept, Ticking, Waiting, Marked, Finalizing
<1>7. Existed'
  BY <1>1, <1>4, <1>5, NamesDiffer DEF Concludes, Kept, Existed, Finalizing
<1>8. Concluded'
  BY <1>1, <1>4, <1>5, NamesDiffer DEF Concludes, Kept, Concluded, Ended, Finalizing
<1>9. Swapping'
  BY <1>1, <1>4, <1>5, NamesDiffer DEF Concludes, Swapping
<1>10. SparesClosed
  BY <1>4 DEF SparesClosed
<1> QED
  BY <1>4, <1>6, <1>7, <1>8, <1>9, <1>10 DEF Steady
\* The action ends.
LEMMA EndsKeep ==
  ASSUME Inv, Done \/ TimeOut \/ UndoAction \/ RecoverEnd
  PROVE  Concludes /\ Steady
<1> USE DEF Inv
<1>1. tick.job \in Actions /\ action[tick.job] \in {"WAITING_CONFIRMATION", "RECONCILING"}
  BY ConcludingAlone DEF Concluding
<1>2. "resume" \in TickSteps /\ "list" \in TickSteps
  BY DEF TickSteps
<1>3. Concluding /\ UNCHANGED swaps
  BY DEF Concluding, Done, TimeOut, UndoAction, RecoverEnd
<1>4. /\ Concludes /\ local' = local /\ tick'.step \in {"resume", "list"}
      /\ \/ action' = action
         \/ action'[tick.job] \in {"TIMED_OUT", "FAILED"}
         \/ action'[tick.job] = "DONE" /\ tick.step = "done"
  BY <1>2, <1>3, ActionSteps DEF Done, TimeOut, UndoAction, RecoverEnd
<1>5. tick'.job = tick.job /\ swaps' = swaps /\ tick.step # "idle"
  BY <1>3, <1>4 DEF Done, TimeOut, UndoAction, RecoverEnd, Concludes
<1>6. Ticking'
  BY <1>4, <1>5 DEF Concludes, Kept, Ticking, Waiting, Marked, Finalizing
<1>7. Existed'
  BY <1>1, <1>4, <1>5, NamesDiffer DEF Concludes, Kept, Existed, Finalizing
<1>8. Concluded'
  BY <1>1, <1>4, <1>5, NamesDiffer DEF Concludes, Kept, Concluded, Ended, Finalizing
<1>9. Swapping'
  BY <1>1, <1>4, <1>5, NamesDiffer DEF Concludes, Swapping
<1>10. SparesClosed
  BY <1>4 DEF SparesClosed
<1> QED
  BY <1>4, <1>6, <1>7, <1>8, <1>9, <1>10 DEF Steady

-----------------------------------------------------------------------------
(* The close *)

\* The position is on its way to CLOSED, or marked, unless it is CLOSED.
LEMMA FinalizeCloseKeeps ==
  ASSUME Inv, FinalizeClose
  PROVE  Concludes /\ Steady
<1> USE DEF Inv
<1>1. tick.job \in Closes /\ action[tick.job] = "WAITING_CONFIRMATION"
  BY DEF FinalizeClose, Ticking, Waiting
<1>2. {"reconciling", "swapMarker", "undoPosition", "resume", "timeOut"} \subseteq TickSteps
  BY DEF TickSteps
<1>3. {"RECONCILING", "RECONCILIATION_REQUIRED"} \subseteq Stored
  BY DEF Stored
<1>4. Concluding /\ UNCHANGED swaps
  BY DEF Concluding, FinalizeClose
<1>5. /\ Concludes /\ action' = action
      /\ \/ /\ local' = local
            /\ \/ tick'.step = "reconciling" /\ local["pos"] = "CLOSED"
               \/ tick'.step = "resume"
         \/ /\ local["pos"] # "CLOSED" /\ chain = "closed"
            /\ \/ tick'.step = "swapMarker" /\ local'["pos"] = "RECONCILING"
               \/ tick'.step = "undoPosition" /\ local' = local /\ faults' > 0
         \/ /\ local["pos"] # "CLOSED"
            /\ local'["pos"] \in {"RECONCILIATION_REQUIRED", local["pos"]}
            /\ tick'.step \in {"timeOut", "resume"}
  <2>1. CASE local["pos"] = "CLOSED" /\ Skip("reconciling")
    BY <1>2, <1>4, <2>1, SkippedSteps
  <2>2. CASE /\ CloseIsConfirmed(tick.job)
             /\ UpdatePosition("pos", "RECONCILING", "swapMarker", "undoPosition")
    <3>1. chain # "absent"
      BY <1>1 DEF Existed
    <3>2. local["pos"] # "CLOSED" /\ chain = "closed"
      BY <2>2, <3>1 DEF CloseIsConfirmed, Seen, TypeOK
    <3> QED
      BY <1>2, <1>3, <1>4, <2>2, <3>2, PositionSteps, NamesDiffer
  <2>3. CASE Skip("resume")
    BY <1>2, <1>4, <2>3, SkippedSteps
  <2>4. CASE /\ MayEscalate(local["pos"])
             /\ UpdatePosition("pos", "RECONCILIATION_REQUIRED", "timeOut", "resume")
    <3>1. local["pos"] # "CLOSED"
      BY <2>4 DEF MayEscalate, CanTransitionPosition
    <3> QED
      BY <1>2, <1>3, <1>4, <2>4, <3>1, PositionSteps, NamesDiffer
  <2>5. CASE Fault /\ UNCHANGED <<action, local>> /\ To("resume")
    <3>1. UpdateAction(tick.job, "FAILED", "resume", "resume")
      BY <2>5 DEF UpdateAction
    <3> QED
      BY <1>2, <1>4, <2>5, <3>1, ActionSteps
  <2> QED
    BY <2>1, <2>2, <2>3, <2>4, <2>5 DEF FinalizeClose
<1>6. /\ tick.step = "finalizeClose" /\ tick'.job = tick.job /\ swaps' = swaps
      /\ tick.job # Deploy /\ tick.job \in Actions
  BY <1>1, <1>4, <1>5, NamesDiffer DEF FinalizeClose, Concludes
<1>7. Ticking'
  BY <1>1, <1>5, <1>6 DEF Concludes, Kept, Ticking, Waiting, Marked, Finalizing
<1>8. Existed'
  BY <1>5, <1>6 DEF Concludes, Kept, Existed, Finalizing
<1>9. Concluded'
  <2>1. \/ \A c \in Closes : action[c] # "DONE"
        \/ chain = "closed" /\ (local["pos"] = "CLOSED" \/ reopened)
    BY DEF Concluded, Ended
  <2>2. local["pos"] = "CLOSED" => chain = "closed"
    BY DEF Existed
  <2>3. \A c \in Closes : action'[c] = "DONE" => Ended'
    BY <1>5, <2>1, <2>2 DEF Concludes, Kept, Ended
  <2>4. action'[Deploy] = "DONE" => deployedAs' = "pos" /\ chain' # "absent"
    BY <1>5, NamesDiffer DEF Concludes, Kept, Concluded
  <2>5. tick'.step = "reconciling" => Ended'
    BY <1>5, <2>2 DEF Concludes, Kept, Ended
  <2>6. tick'.step \in {"swapMarker", "undoPosition"} =>
          reopened' \/ \A c \in Closes : action'[c] # "DONE"
    BY <1>5, <2>1 DEF Concludes, Kept
  <2> QED
    BY <1>5, <1>6, <2>3, <2>4, <2>5, <2>6 DEF Concluded, Finalizing
<1>10. Swapping'
  BY <1>1, <1>5, <1>6 DEF Swapping
<1>11. SparesClosed
  BY <1>5 DEF SparesClosed
<1> QED
  BY <1>5, <1>7, <1>8, <1>9, <1>10, <1>11 DEF Steady

\* The marker is stored, and the position DONE.
LEMMA MarkersKeep ==
  ASSUME Inv, SwapMarker \/ CloseDone
  PROVE  Concludes /\ Steady
<1> USE DEF Inv
<1>1. /\ tick.job \in Closes /\ tick.job \in Actions
      /\ action[tick.job] = IF tick.step = "swapMarker" THEN "WAITING_CONFIRMATION"
                            ELSE "RECONCILING"
  BY NamesDiffer DEF SwapMarker, CloseDone, Ticking, Waiting, Marked, Finalizing
<1>2. {"swap", "resume", "undoPosition"} \subseteq TickSteps
  BY DEF TickSteps
<1>3. Concluding /\ UNCHANGED swaps
  BY DEF Concluding, SwapMarker, CloseDone
<1>4. /\ Concludes /\ local' = local
      /\ \/ /\ tick.step = "swapMarker" /\ tick'.step = "swap"
            /\ action'[tick.job] = "RECONCILING"
         \/ /\ tick.step = "closeDone" /\ tick'.step = "resume" /\ action'[tick.job] = "DONE"
         \/ tick'.step = "undoPosition" /\ action' = action /\ faults' > 0
  BY <1>2, <1>3, ActionSteps DEF SwapMarker, CloseDone
<1>5. tick.step \in {"swapMarker", "closeDone"} /\ tick'.job = tick.job /\ swaps' = swaps
  BY <1>3, <1>4 DEF SwapMarker, CloseDone, Concludes
<1>6. Ticking'
  BY <1>1, <1>4, <1>5 DEF Concludes, Kept, Ticking, Waiting, Marked, Finalizing
<1>7. Existed'
  BY <1>4, <1>5 DEF Concludes, Kept, Existed, Finalizing
<1>8. Concluded'
  BY <1>1, <1>4, <1>5, NamesDiffer DEF Concludes, Kept, Concluded, Ended, Finalizing
<1>9. Swapping'
  BY <1>1, <1>4, <1>5, NamesDiffer DEF Concludes, Swapping
<1>10. SparesClosed
  BY <1>4 DEF SparesClosed
<1> QED
  BY <1>4, <1>6, <1>7, <1>8, <1>9, <1>10 DEF Steady

\* The swap is run when it was not run before.
LEMMA SwapKeeps ==
  ASSUME Inv, Swap
  PROVE  Concludes /\ Steady
<1> USE DEF Inv
<1>1. /\ tick.step = "swap" /\ tick.job \in Closes /\ tick.job \in Actions
      /\ action[tick.job] = "RECONCILING" /\ swaps[tick.job] = 0
  BY NamesDiffer DEF Swap, Ticking, Marked, Finalizing, Swapping
<1>2. Concluding
  BY DEF Concluding
<1>3. /\ swaps' \in [Closes -> Nat] /\ swaps'[tick.job] = 1
      /\ \A c \in Closes \ {tick.job} : swaps'[c] = swaps[c]
  BY <1>1 DEF Swap, TypeOK
<1>4. /\ action' = action /\ local' = local
      /\ tick' \in TickType /\ tick'.job = tick.job
      /\ tick'.shown = tick.shown /\ tick'.write = tick.write
      /\ faults' \in 0..MaxFaults /\ faults' >= faults
      /\ tick'.step \in {"close", "undoPosition"}
      /\ tick'.step = "undoPosition" => faults' > 0
  <2>1. action' = action /\ local' = local
    BY DEF Swap
  <2>2. \A step \in {"close", "undoPosition"} : To(step) =>
          /\ tick' \in TickType /\ tick'.job = tick.job /\ tick'.step = step
          /\ tick'.shown = tick.shown /\ tick'.write = tick.write
    BY DEF To, TypeOK, TickType, TickSteps
  <2>3. NoFault => faults' \in 0..MaxFaults /\ faults' >= faults
    BY BoundsAreNatural DEF NoFault, TypeOK
  <2>4. Fault => faults' \in 0..MaxFaults /\ faults' >= faults /\ faults' > 0
    BY BoundsAreNatural DEF Fault, TypeOK
  <2>5. \/ NoFault /\ To("close")
        \/ Fault /\ To("undoPosition")
    BY DEF Swap
  <2> QED
    BY <2>1, <2>2, <2>3, <2>4, <2>5
<1>5. Kept
  BY <1>2, ConcludingAlone
<1>6. Concludes
  BY <1>3, <1>4, <1>5 DEF Concludes, TypeOK
<1>7. Ticking'
  BY <1>1, <1>4, <1>5 DEF Kept, Ticking, Waiting, Marked, Finalizing
<1>8. Existed'
  BY <1>1, <1>4, <1>5 DEF Kept, Existed, Finalizing
<1>9. Concluded'
  BY <1>1, <1>4, <1>5 DEF Kept, Concluded, Ended, Finalizing
<1>10. Swapping'
  BY <1>1, <1>3, <1>4 DEF Swapping
<1>11. SparesClosed
  BY <1>4 DEF SparesClosed
<1> QED
  BY <1>6, <1>7, <1>8, <1>9, <1>10, <1>11 DEF Steady

\* The position is CLOSED; or the catch block marks it.
LEMMA CloseOrUndoKeeps ==
  ASSUME Inv, Close \/ UndoPosition
  PROVE  Concludes /\ Steady
<1> USE DEF Inv
<1>1. /\ tick.job \in Closes /\ tick.job \in Actions
      /\ action[tick.job] \in {"WAITING_CONFIRMATION", "RECONCILING"}
      /\ tick.step = "close" => action[tick.job] = "RECONCILING"
      /\ tick.step = "undoPosition" => faults > 0
  BY NamesDiffer DEF Close, UndoPosition, Ticking, Marked, Finalizing
<1>2. {"closeDone", "undoPosition", "undoAction", "resume"} \subseteq TickSteps
  BY DEF TickSteps
<1>3. {"CLOSED", "RECONCILIATION_REQUIRED"} \subseteq Stored
  BY DEF Stored
<1>4. Concluding /\ UNCHANGED swaps
  BY DEF Concluding, Close, UndoPosition
<1>5. tick.step \in {"close", "undoPosition"}
  BY DEF Close, UndoPosition
<1>6. /\ Concludes /\ action' = action
      /\ \/ /\ tick.step = "close" /\ tick'.step = "closeDone" /\ local'["pos"] = "CLOSED"
         \/ tick.step = "close" /\ tick'.step = "undoPosition" /\ local' = local /\ faults' > 0
         \/ /\ tick.step = "undoPosition" /\ tick'.step = "undoAction"
            /\ local'["pos"] = "RECONCILIATION_REQUIRED" /\ faults' > 0
         \/ tick'.step = "resume" /\ local' = local
  <2>1. CASE Close
    BY <1>2, <1>3, <1>4, <2>1, PositionSteps, NamesDiffer DEF Close
  <2>2. CASE UndoPosition
    BY <1>1, <1>2, <1>3, <1>4, <2>2, PositionSteps, NamesDiffer DEF UndoPosition
  <2> QED
    BY <2>1, <2>2
<1>7. tick'.job = tick.job /\ swaps' = swaps
  BY <1>4, <1>6 DEF Concludes
<1>8. Ticking'
  BY <1>1, <1>5, <1>6, <1>7 DEF Concludes, Kept, Ticking, Waiting, Marked, Finalizing
<1>9. Existed'
  BY <1>5, <1>6, <1>7 DEF Concludes, Kept, Existed, Finalizing
<1>10. Concluded'
  <2>1. chain = "closed" /\ chain' = chain /\ reopened' = reopened /\ deployedAs' = deployedAs
    BY <1>5, <1>6 DEF Existed, Finalizing, Concludes, Kept
  <2>2. reopened \/ \A c \in Closes : action[c] # "DONE"
    BY <1>5 DEF Concluded, Finalizing
  <2>3. \A c \in Closes : action'[c] = "DONE" => Ended'
    BY <1>6, <2>1, <2>2 DEF Ended
  <2>4. action'[Deploy] = "DONE" => deployedAs' = "pos" /\ chain' # "absent"
    BY <1>6, <2>1 DEF Concluded
  <2>5. tick'.step = "closeDone" => Ended'
    BY <1>6, <2>1 DEF Ended
  <2> QED
    BY <1>6, <2>1, <2>2, <2>3, <2>4, <2>5 DEF Concluded, Finalizing
<1>11. Swapping'
  BY <1>1, <1>6, <1>7 DEF Swapping
<1>12. SparesClosed
  BY <1>6, <1>1, <1>5 DEF SparesClosed
<1> QED
  BY <1>6, <1>8, <1>9, <1>10, <1>11, <1>12 DEF Steady

\* An interrupted close whose position is CLOSED is DONE, or the position is
\* marked.
LEMMA RecoverKeeps ==
  ASSUME Inv, Recover
  PROVE  Concludes /\ Steady
<1> USE DEF Inv
<1>1. /\ tick.job \in Actions /\ action[tick.job] = "RECONCILING" /\ tick.step = "recover"
      /\ Target(tick.job) \in Ids
  BY NamesDiffer DEF Recover, Ticking, Marked, Target, Addressed
<1>2. "list" \in TickSteps /\ "recoverEnd" \in TickSteps
  BY DEF TickSteps
<1>3. "RECONCILIATION_REQUIRED" \in Stored
  BY DEF Stored
<1>4. Concluding /\ UNCHANGED swaps
  BY DEF Concluding, Recover
<1>5. /\ Concludes /\ tick'.step \in {"list", "recoverEnd"}
      /\ \/ action' = action /\ local'["pos"] = local["pos"]
         \/ /\ action' = action /\ local["pos"] # "CLOSED"
            /\ local'["pos"] = "RECONCILIATION_REQUIRED"
         \/ /\ action'[tick.job] = "DONE" /\ local["pos"] = "CLOSED" /\ tick.job \in Closes
            /\ local' = local /\ tick'.step = "list"
  <2> DEFINE s == local[Target(tick.job)]
  <2>1. CASE s = "CLOSED" /\ tick.job \in Closes
    <3>1. UpdateAction(tick.job, "DONE", "list", "list")
      BY <2>1 DEF Recover
    <3>2. local["pos"] = "CLOSED"
      BY <2>1, NamesDiffer DEF Target
    <3> QED
      BY <1>2, <1>4, <2>1, <3>1, <3>2, ActionSteps
  <2>2. CASE ~(s = "CLOSED" /\ tick.job \in Closes) /\ s \in {"none", "CLOSED", "ABORTED"}
    <3>1. Skip("recoverEnd")
      BY <2>2 DEF Recover
    <3> QED
      BY <1>2, <1>4, <3>1, SkippedSteps
  <2>3. CASE s \notin {"none", "CLOSED", "ABORTED"}
    <3>1. UpdatePosition(Target(tick.job), "RECONCILIATION_REQUIRED", "recoverEnd", "list")
      BY <2>3 DEF Recover
    <3> QED
      BY <1>1, <1>2, <1>3, <1>4, <2>3, <3>1, PositionSteps, NamesDiffer
  <2> QED
    BY <2>1, <2>2, <2>3
<1>6. tick'.job = tick.job /\ swaps' = swaps
  BY <1>4, <1>5 DEF Concludes
<1>7. Ticking'
  <2>1. tick'.step = "recoverEnd" => action' = action
    BY <1>5
  <2> QED
    BY <1>1, <1>5, <1>6, <2>1 DEF Concludes, Kept, Ticking, Waiting, Marked, Finalizing
<1>8. Existed'
  BY <1>1, <1>5, <1>6 DEF Concludes, Kept, Existed, Finalizing
<1>9. Concluded'
  <2>1. /\ chain' = chain /\ reopened' = reopened /\ deployedAs' = deployedAs
        /\ local["pos"] = "CLOSED" => chain = "closed"
    BY <1>5 DEF Existed, Concludes, Kept
  <2>2. \A c \in Closes : action'[c] = "DONE" => Ended'
    <3>1. \A c \in Closes : action'[c] = "DONE" => Ended
      BY <1>1, <1>5, <2>1, NamesDiffer DEF Concludes, Concluded, Ended
    <3>2. Ended => Ended'
      BY <1>5, <2>1 DEF Ended
    <3> QED
      BY <3>1, <3>2
  <2>3. action'[Deploy] = "DONE" => deployedAs' = "pos" /\ chain' # "absent"
    BY <1>1, <1>5, <2>1, NamesDiffer DEF Concludes, Concluded
  <2> QED
    BY <1>5, <2>2, <2>3 DEF Concluded, Finalizing
<1>10. Swapping'
  BY <1>1, <1>5, <1>6, NamesDiffer DEF Concludes, Swapping
<1>11. SparesClosed
  BY <1>5 DEF SparesClosed
<1> QED
  BY <1>5, <1>7, <1>8, <1>9, <1>10, <1>11 DEF Steady

LEMMA ConcludingKeepsInv ==
  ASSUME Inv, Concluding
  PROVE  Inv' /\ SparesClosed
<1>1. Concludes /\ Steady
  BY ConfirmDeployKeeps, ReconcilingKeeps, EndsKeep, FinalizeCloseKeeps, MarkersKeep, SwapKeeps,
     CloseOrUndoKeeps, RecoverKeeps DEF Concluding
<1> QED
  BY <1>1, ConcludesKeeps DEF Steady, Inv
-----------------------------------------------------------------------------
(* The reconciler's other steps *)

\* They choose what to act on, and leave the stores alone.
LEMMA LookingKeepsStores ==
  ASSUME Inv, Looking
  PROVE  action' = action /\ local' = local /\ swaps' = swaps /\ faults' = faults /\ Kept
BY DEF Looking, BeginTick, Resume, List, Snapshot, EndTick, Look, TickKeeps, chainVars, management,
       Kept

\* The action that is taken is in the status its step asks for.
LEMMA ChoosingTicks ==
  ASSUME Inv, BeginTick \/ Resume
  PROVE  /\ tick' \in TickType /\ tick'.tracked = {} /\ ~tick'.shown /\ tick'.write # "OPEN"
         /\ booted
         /\ \/ /\ tick'.step = "confirmDeploy" /\ tick'.job = Deploy
               /\ action[tick'.job] = "WAITING_CONFIRMATION"
            \/ /\ tick'.step = "finalizeClose" /\ tick'.job \in Closes
               /\ action[tick'.job] = "WAITING_CONFIRMATION"
            \/ /\ tick'.step = "recover" /\ tick'.job \in Actions
               /\ action[tick'.job] = "RECONCILING"
            \/ tick'.step \in {"resume", "list"}
<1>1. booted
  BY DEF BeginTick, Resume, Inv, Ticking
<1>2. ASSUME NEW step \in TickSteps, NEW a \in Actions \cup {NoAction},
             tick' = [Rest EXCEPT !.step = step, !.job = a]
      PROVE  /\ tick' \in TickType /\ tick'.tracked = {} /\ ~tick'.shown
             /\ tick'.write # "OPEN" /\ tick'.step = step /\ tick'.job = a
  BY <1>2 DEF Rest, TickType, Stored
<1>3. {"confirmDeploy", "finalizeClose", "recover", "resume", "list"} \subseteq TickSteps
  BY DEF TickSteps
<1>4. CASE BeginTick
  <2>1. CASE \E a \in Actions :
               /\ action[a] = "WAITING_CONFIRMATION"
               /\ tick' = [Rest EXCEPT !.job = a,
                            !.step = IF a = Deploy THEN "confirmDeploy" ELSE "finalizeClose"]
    <3>1. PICK a \in Actions :
            /\ action[a] = "WAITING_CONFIRMATION"
            /\ tick' = [Rest EXCEPT !.job = a,
                         !.step = IF a = Deploy THEN "confirmDeploy" ELSE "finalizeClose"]
      BY <2>1
    <3>2. CASE a = Deploy
      BY <1>1, <1>2, <1>3, <3>1, <3>2 DEF Rest
    <3>3. CASE a # Deploy
      <4>1. tick' = [Rest EXCEPT !.step = "finalizeClose", !.job = a]
        BY <3>1, <3>3 DEF Rest
      <4>2. a \in Closes
        BY <3>3, NamesDiffer
      <4> QED
        BY <1>1, <1>2, <1>3, <3>1, <4>1, <4>2
    <3> QED
      BY <3>2, <3>3
  <2>2. CASE tick' = [Rest EXCEPT !.step = "resume"]
    BY <1>1, <2>2 DEF Rest, TickType, TickSteps, Stored
  <2> QED
    BY <1>4, <2>1, <2>2 DEF BeginTick
<1>5. CASE Resume
  <2>1. CASE \E a \in Actions : /\ action[a] = "RECONCILING"
                                /\ tick' = [Rest EXCEPT !.step = "recover", !.job = a]
    BY <1>1, <1>2, <1>3, <2>1
  <2>2. CASE tick' = [Rest EXCEPT !.step = "list"]
    BY <1>1, <2>2 DEF Rest, TickType, TickSteps, Stored
  <2> QED
    BY <1>5, <2>1, <2>2 DEF Resume
<1> QED
  BY <1>4, <1>5

\* What a look finds is to be OPEN only if the snapshot shows it, and is not
\* CLOSED.
LEMMA LookFacts ==
  ASSUME Inv, NEW i \in Ids, Look(i)
  PROVE  /\ tick' \in TickType /\ tick'.tracked \subseteq tick.tracked
         /\ tick'.shown = tick.shown
         /\ \/ tick'.step = "look" /\ tick'.write = tick.write
            \/ /\ tick'.step = "sync" /\ tick'.at = i /\ i \in tick'.tracked
               /\ local[i] # "CLOSED"
               /\ \/ tick'.write = "OPEN" /\ tick.shown
                  \/ tick'.write = "RECONCILIATION_REQUIRED"
<1> USE DEF Inv, TypeOK
<1>1. tick \in TickType /\ tick.step = "look" /\ i \in tick.tracked
  BY DEF Look, TickType
<1>2. CASE tick' = [tick EXCEPT !.tracked = @ \ {i}]
  BY <1>1, <1>2 DEF TickType
<1>3. CASE \E s \in Compared(i, tick.shown) :
             tick' = [tick EXCEPT !.step = "sync", !.at = i, !.write = s]
  <2>1. PICK s \in Compared(i, tick.shown) :
          tick' = [tick EXCEPT !.step = "sync", !.at = i, !.write = s]
    BY <1>3
  <2>2. /\ local[i] # "CLOSED"
        /\ \/ s = "OPEN" /\ tick.shown
           \/ s = "RECONCILIATION_REQUIRED"
    <3>1. local[i] \in Stored
      OBVIOUS
    <3> QED
      BY <3>1 DEF Compared, Syncable, Stored
  <2> QED
    BY <1>1, <2>1, <2>2 DEF TickType, TickSteps, Stored
<1> QED
  BY <1>2, <1>3 DEF Look

\* So do the three steps of the pass that only read.
LEMMA PassFacts ==
  ASSUME Inv, List \/ Snapshot \/ EndTick
  PROVE  /\ tick' \in TickType
         /\ tick'.step \in {"snapshot", "look", "idle"} /\ booted
         /\ local = [i \in Ids |-> "none"] /\ tick.tracked = {} => tick'.tracked = {}
         /\ chain = "absent" => ~tick'.shown /\ tick'.write # "OPEN"
<1> USE DEF Inv, TypeOK, TickType, TickSteps
<1>1. booted
  BY DEF List, Snapshot, EndTick, Ticking
<1>2. CASE List
  <2>1. tick' = [Rest EXCEPT !.step = "snapshot",
                   !.tracked = {i \in Ids : local[i] \notin Untracked}]
    BY <1>2 DEF List
  <2>2. local = [i \in Ids |-> "none"] => {i \in Ids : local[i] \notin Untracked} = {}
    BY DEF Untracked
  <2> QED
    BY <1>1, <2>1, <2>2 DEF Rest, Stored
<1>3. CASE Snapshot
  <2>1. tick' = [tick EXCEPT !.step = "look", !.shown = (chain = "open")]
    BY <1>3 DEF Snapshot
  <2>2. (chain = "open") \in BOOLEAN
    OBVIOUS
  <2>3. chain = "absent" => tick.write # "OPEN"
    BY DEF Existed
  <2>4. /\ tick' \in TickType /\ tick'.step = "look" /\ tick'.tracked = tick.tracked
        /\ tick'.write = tick.write /\ tick'.shown = (chain = "open")
    BY <2>1, <2>2
  <2> QED
    BY <1>1, <2>3, <2>4
<1>4. CASE EndTick
  BY <1>1, <1>4 DEF EndTick, Rest, Stored
<1> QED
  BY <1>2, <1>3, <1>4

LEMMA LookingKeepsInv ==
  ASSUME Inv, Looking
  PROVE  Inv'
<1> USE DEF Inv
<1>1. action' = action /\ local' = local /\ swaps' = swaps /\ faults' = faults /\ Kept
  BY LookingKeepsStores
<1>2. /\ tick' \in TickType /\ booted
      /\ tick'.step \notin Finalizing \cup {"reconciling", "done", "swap", "closeDone"}
      /\ local = [i \in Ids |-> "none"] /\ tick.tracked = {} => tick'.tracked = {}
      /\ chain = "absent" => ~tick'.shown /\ tick'.write # "OPEN"
  <2>1. CASE BeginTick \/ Resume
    BY <2>1, ChoosingTicks DEF Finalizing
  <2>2. CASE List \/ Snapshot \/ EndTick
    BY <2>2, PassFacts DEF Finalizing
  <2>3. CASE \E i \in Ids : Look(i)
    BY <2>3, LookFacts DEF Finalizing, Existed, Look, Ticking
  <2> QED
    BY <2>1, <2>2, <2>3 DEF Looking
<1>3. Ticking'
  <2>1. CASE BeginTick \/ Resume
    BY <1>1, <2>1, ChoosingTicks, NamesDiffer DEF Kept, Ticking, Waiting, Marked, Finalizing
  <2>2. CASE List \/ Snapshot \/ EndTick
    BY <1>1, <2>2, PassFacts DEF Kept, Ticking, Waiting, Marked, Finalizing
  <2>3. CASE \E i \in Ids : Look(i)
    BY <1>1, <1>2, <2>3, LookFacts DEF Kept, Ticking, Waiting, Marked, Finalizing
  <2> QED
    BY <2>1, <2>2, <2>3 DEF Looking
<1>4. TypeOK'
  BY <1>1, <1>2 DEF Kept, TypeOK, TickType
<1>5. OneActive' /\ Working' /\ Addressed'
  BY <1>1 DEF Kept, OneActive, Working, Addressed
<1>6. Existed'
  BY <1>1, <1>2 DEF Kept, Existed
<1>7. Fresh'
  BY <1>1, <1>2 DEF Kept, Fresh
<1>8. Concluded'
  BY <1>1, <1>2 DEF Kept, Concluded, Ended
<1>9. Swapping'
  BY <1>1, <1>2 DEF Swapping
<1> QED
  BY <1>3, <1>4, <1>5, <1>6, <1>7, <1>8, <1>9

\* The snapshot pass writes no CLOSED, and not over one.
LEMMA SyncKeepsInv ==
  ASSUME Inv, Sync
  PROVE  Inv'
<1> USE DEF Inv
<1>1. /\ tick.step = "sync" /\ booted /\ tick.at \in tick.tracked /\ tick.at \in Ids
      /\ tick.write \in {"OPEN", "RECONCILIATION_REQUIRED"}
      /\ tick.at = "pos" => local["pos"] # "CLOSED"
  BY DEF Sync, Ticking, TypeOK
<1>2. action' = action /\ swaps' = swaps /\ Kept
  BY DEF Sync, TickKeeps, chainVars, management, Kept
<1>3. /\ local' \in [Ids -> Stored] /\ tick' \in TickType /\ faults' \in 0..MaxFaults
      /\ tick'.step \in {"look", "idle"}
      /\ chain = "absent" => ~tick'.shown /\ tick'.write # "OPEN"
      /\ \/ local'["pos"] = local["pos"]
         \/ local["pos"] # "CLOSED" /\ local'["pos"] = tick.write
  <2>1. CASE /\ NoFault /\ Put(tick.at, tick.write)
             /\ tick' = [tick EXCEPT !.step = "look", !.tracked = @ \ {tick.at},
                                     !.at = "none", !.write = "none"]
    <3>1. /\ tick' \in TickType /\ tick'.step = "look" /\ tick'.shown = tick.shown
          /\ tick'.write = "none"
      BY <2>1 DEF TypeOK, TickType, TickSteps, Stored
    <3>2. /\ local' \in [Ids -> Stored]
          /\ \/ local'["pos"] = local["pos"]
             \/ local["pos"] # "CLOSED" /\ local'["pos"] = tick.write
      BY <1>1, <2>1, NamesDiffer DEF Put, TypeOK, Stored
    <3>3. faults' \in 0..MaxFaults
      BY <2>1 DEF NoFault, TypeOK
    <3> QED
      BY <3>1, <3>2, <3>3 DEF Existed
  <2>2. CASE Fault /\ UNCHANGED local /\ tick' = Rest
    <3>1. faults' \in 0..MaxFaults
      BY <2>2, BoundsAreNatural DEF Fault, TypeOK
    <3>2. /\ tick' \in TickType /\ tick'.step = "idle" /\ ~tick'.shown
          /\ tick'.write = "none"
      BY <2>2 DEF Rest, TickType, TickSteps, Stored
    <3> QED
      BY <2>2, <3>1, <3>2 DEF TypeOK
  <2> QED
    BY <2>1, <2>2 DEF Sync
<1>4. TypeOK' /\ OneActive' /\ Addressed'
  BY <1>2, <1>3 DEF Kept, TypeOK, TickType, OneActive, Addressed
<1>5. Working'
  BY <1>1, <1>2, <1>3 DEF Kept, Working
<1>6. Ticking'
  BY <1>1, <1>2, <1>3 DEF Kept, Ticking, Waiting, Marked, Finalizing
<1>7. Existed'
  BY <1>1, <1>2, <1>3 DEF Kept, Existed, Finalizing
<1>8. Fresh'
  BY <1>1, <1>2 DEF Fresh
<1>9. Concluded'
  BY <1>2, <1>3 DEF Kept, Concluded, Ended, Finalizing
<1>10. Swapping'
  BY <1>2, <1>3 DEF Swapping
<1> QED
  BY <1>4, <1>5, <1>6, <1>7, <1>8, <1>9, <1>10
-----------------------------------------------------------------------------
(* The handlers *)

\* What the worker carries from step to step.
LEMMA WorkerGoesOn ==
  ASSUME Inv, Handle
  PROVE  /\ worker.step # "idle" /\ worker' \in WorkerType
         /\ \/ worker'.step = "idle"
            \/ /\ worker'.job = worker.job /\ action' = action
               /\ worker'.step # "read"
               /\ worker'.step = "start" => worker.job \in Closes
               /\ worker'.step \in {"start", "send", "answer", "store", "mark"} =>
                    local'["pos"] # "CLOSED"
               /\ worker'.step \in {"store", "mark", "finish"} =>
                    worker'.outcome \in {"WAITING_CONFIRMATION", "FAILED", "ABORTED"}
<1> USE DEF Inv
<1>1. worker \in WorkerType /\ local \in [Ids -> Stored] /\ "pos" \in Ids
  BY NamesDiffer DEF TypeOK, WorkerType
<1>2. worker.step # "idle"
  BY DEF Handle, Blocked, CloseRead, CloseStart, Send, Refuse, Succeed, Ambiguous, Fail, Store,
         Mark, Finish
<1>3. \A s \in WorkerSteps : GoOn(s) =>
        /\ worker' \in WorkerType /\ worker'.step = s /\ worker'.job = worker.job
        /\ worker'.outcome = worker.outcome
  BY <1>1 DEF GoOn, WorkerType
<1>4. \A s \in WorkerSteps, o \in ActionStatuses, d \in BOOLEAN : Report(s, o, d) =>
        /\ worker' \in WorkerType /\ worker'.step = s /\ worker'.job = worker.job
        /\ worker'.outcome = o
  BY <1>1 DEF Report, WorkerType
<1>5. /\ {"start", "send", "answer", "store", "mark", "finish"} \subseteq WorkerSteps
      /\ {"WAITING_CONFIRMATION", "FAILED", "ABORTED"} \subseteq ActionStatuses
  BY DEF WorkerSteps, ActionStatuses
<1>6. \A s \in Stored : Put("pos", s) => local'["pos"] = s
  BY <1>1 DEF Put
<1>7. {"CLOSING", "DEPLOYING", "RECONCILIATION_REQUIRED"} \subseteq Stored
  BY DEF Stored
<1>8. CASE Blocked \/ CloseRead
  BY <1>2, <1>3, <1>4, <1>5, <1>8
     DEF Blocked, CloseRead, WorkerKeeps, Working, CloseRequestable
<1>9. CASE CloseStart
  BY <1>2, <1>3, <1>4, <1>5, <1>6, <1>7, <1>9 DEF CloseStart, WorkerKeeps, Working
<1>10. CASE Send \/ Refuse
  BY <1>2, <1>3, <1>4, <1>5, <1>10 DEF Send, Refuse, WorkerKeeps, Working
<1>11. CASE Succeed
  BY <1>2, <1>3, <1>4, <1>5, <1>11 DEF Succeed, WorkerKeeps, Working
<1>12. CASE Ambiguous \/ Fail
  BY <1>2, <1>3, <1>4, <1>5, <1>12 DEF Ambiguous, Fail, WorkerKeeps, Working
<1>13. CASE Store
  BY <1>2, <1>3, <1>5, <1>6, <1>7, <1>13 DEF Store, WorkerKeeps, Working
<1>14. CASE Mark
  BY <1>2, <1>3, <1>5, <1>6, <1>7, <1>14 DEF Mark, WorkerKeeps, Working
<1>15. CASE Finish
  BY <1>2, <1>15 DEF Finish, Idle, WorkerType, WorkerSteps
<1> QED
  BY <1>8, <1>9, <1>10, <1>11, <1>12, <1>13, <1>14, <1>15 DEF Handle

\* What a handler writes.
LEMMA HandlerWrites ==
  ASSUME Inv, Handle
  PROVE  /\ tick' = tick /\ swaps' = swaps /\ booted' = booted /\ crashes' = crashes
         /\ managed' = managed /\ reopened' = reopened /\ peaks' = peaks
         /\ chain' = chain /\ faults' \in 0..MaxFaults /\ faults' >= faults
         /\ local' \in [Ids -> Stored]
         /\ \/ local' = local
            \/ /\ local["pos"] # "CLOSED"
               /\ local'["pos"] \in {"CLOSING", "DEPLOYING", "RECONCILIATION_REQUIRED"}
         /\ tx' \in [Actions -> {"none", "sent", "landed"}]
         /\ \A a \in Actions : tx'[a] = "landed" => tx[a] = "landed"
         /\ known' \in BOOLEAN /\ (known' => known \/ tx[Deploy] = "landed")
         /\ confirmed' \subseteq Closes
<1> USE DEF Inv
<1>1. /\ local \in [Ids -> Stored] /\ "pos" \in Ids /\ faults \in 0..MaxFaults
      /\ tx \in [Actions -> {"none", "sent", "landed"}] /\ known \in BOOLEAN
      /\ confirmed \subseteq Closes
  BY NamesDiffer DEF TypeOK
<1>2. managed' = managed /\ reopened' = reopened /\ peaks' = peaks
  BY DEF Handle, Blocked, CloseRead, CloseStart, Send, Refuse, Succeed, Ambiguous, Fail, Store,
         Mark, Finish, WorkerKeeps, management
<1>3. \A s \in {"CLOSING", "DEPLOYING", "RECONCILIATION_REQUIRED"} : Put("pos", s) =>
        local' \in [Ids -> Stored] /\ local'["pos"] = s
  BY <1>1 DEF Put, Stored
<1>4. /\ NoFault => faults' \in 0..MaxFaults /\ faults' >= faults
      /\ Fault => faults' \in 0..MaxFaults /\ faults' >= faults
      /\ faults' = faults => faults' \in 0..MaxFaults /\ faults' >= faults
  BY <1>1, BoundsAreNatural DEF NoFault, Fault
<1>5. CASE Blocked \/ CloseRead \/ Refuse \/ Ambiguous \/ Fail \/ Finish
  <2>1. /\ tick' = tick /\ swaps' = swaps /\ booted' = booted /\ crashes' = crashes
        /\ chain' = chain /\ local' = local /\ tx' = tx /\ known' = known
        /\ confirmed' = confirmed /\ faults' = faults
    BY <1>5 DEF Blocked, CloseRead, Refuse, Ambiguous, Fail, Finish, WorkerKeeps, chainVars,
                observers
  <2> QED
    BY <1>1, <1>2, <1>4, <2>1
<1>6. CASE CloseStart \/ Store \/ Mark
  <2>1. local["pos"] # "CLOSED"
    BY <1>6 DEF CloseStart, Store, Mark, Working
  <2>2. /\ tick' = tick /\ swaps' = swaps /\ booted' = booted /\ crashes' = crashes
        /\ chain' = chain /\ tx' = tx /\ known' = known /\ confirmed' = confirmed
    BY <1>6 DEF CloseStart, Store, Mark, WorkerKeeps, chainVars
  <2>3. NoFault \/ Fault
    BY <1>6 DEF CloseStart, Store, Mark
  <2>4. \/ local' = local
        \/ \E s \in {"CLOSING", "DEPLOYING", "RECONCILIATION_REQUIRED"} : Put("pos", s)
    BY <1>6 DEF CloseStart, Store, Mark
  <2> QED
    BY <1>1, <1>2, <1>3, <1>4, <2>1, <2>2, <2>3, <2>4
<1>7. CASE Send
  BY <1>1, <1>2, <1>4, <1>7 DEF Send, WorkerKeeps
<1>8. CASE Succeed
  <2>1. /\ tick' = tick /\ swaps' = swaps /\ booted' = booted /\ crashes' = crashes
        /\ chain' = chain /\ local' = local /\ tx' = tx
    BY <1>8 DEF Succeed, WorkerKeeps, chainVars
  <2>2. worker.job \in Actions /\ known' = (worker.job = Deploy) /\ tx[worker.job] = "landed"
    BY <1>8 DEF Succeed, Working
  <2>3. faults' \in 0..MaxFaults /\ faults' >= faults /\ confirmed' \subseteq Closes
    <3>1. \/ worker.job = Deploy /\ confirmed' = confirmed /\ faults' = faults
          \/ /\ worker.job # Deploy /\ confirmed' = confirmed \cup {worker.job}
             /\ NoFault \/ Fault
      BY <1>8 DEF Succeed
    <3>2. worker.job # Deploy => worker.job \in Closes
      BY <2>2, NamesDiffer
    <3>3. faults' \in 0..MaxFaults /\ faults' >= faults
      BY <1>4, <3>1
    <3>4. confirmed' \subseteq Closes
      BY <1>1, <3>1, <3>2
    <3> QED
      BY <3>3, <3>4
  <2> QED
    BY <1>1, <1>2, <2>1, <2>2, <2>3
<1> QED
  BY <1>2, <1>5, <1>6, <1>7, <1>8 DEF Handle

\* Only the running action changes, when its handler ends.
LEMMA HandlerReports ==
  ASSUME Inv, Handle
  PROVE  /\ action' \in [Actions -> ActionStatuses \cup {"ABSENT"}]
         /\ deployedAs' \in Ids \cup {"none"} /\ ambiguous' \subseteq Closes
         /\ worker.job \in Actions /\ action[worker.job] = "RUNNING"
         /\ \A a \in Actions : action'[a] # action[a] =>
              a = worker.job /\ action'[a] \in {"WAITING_CONFIRMATION", "FAILED", "ABORTED"}
         /\ deployedAs' # deployedAs => worker.job = Deploy /\ deployedAs' = "pos"
         /\ action'[Deploy] = "WAITING_CONFIRMATION" /\ action[Deploy] = "RUNNING" =>
              deployedAs' = "pos"
         /\ action'[Deploy] = "DONE" => deployedAs' = deployedAs
<1> USE DEF Inv
<1>1. /\ action \in [Actions -> ActionStatuses \cup {"ABSENT"}]
      /\ deployedAs \in Ids \cup {"none"} /\ ambiguous \subseteq Closes
  BY DEF TypeOK
<1>2. worker.job \in Actions /\ action[worker.job] = "RUNNING"
  BY WorkerGoesOn DEF Working
<1>3. CASE Finish
  <2>1. worker.outcome \in {"WAITING_CONFIRMATION", "FAILED", "ABORTED"}
    BY <1>3 DEF Finish, Working
  <2>2. /\ action' \in [Actions -> ActionStatuses \cup {"ABSENT"}]
        /\ action'[worker.job] = worker.outcome
        /\ \A a \in Actions \ {worker.job} : action'[a] = action[a]
    BY <1>1, <1>2, <1>3, <2>1 DEF Finish, SetAction, ActionStatuses
  <2>3. /\ deployedAs' = IF worker.job = Deploy /\ worker.outcome = "WAITING_CONFIRMATION"
                         THEN "pos" ELSE deployedAs
        /\ ambiguous' = IF worker.job \in Closes /\ worker.unsure
                        THEN ambiguous \cup {worker.job} ELSE ambiguous
    BY <1>3 DEF Finish
  <2> QED
    BY <1>1, <1>2, <2>1, <2>2, <2>3, NamesDiffer
<1>4. CASE ~Finish
  <2>1. action' = action /\ deployedAs' = deployedAs /\ ambiguous' = ambiguous
    BY <1>4 DEF Handle, Blocked, CloseRead, CloseStart, Send, Refuse, Succeed, Ambiguous, Fail,
                Store, Mark, WorkerKeeps
  <2> QED
    BY <1>1, <1>2, <2>1
<1> QED
  BY <1>3, <1>4

LEMMA HandleKeepsInv ==
  ASSUME Inv, Handle
  PROVE  Inv'
<1> USE DEF Inv
<1>1. /\ tick' = tick /\ swaps' = swaps /\ booted' = booted /\ crashes' = crashes
      /\ managed' = managed /\ reopened' = reopened /\ peaks' = peaks
      /\ chain' = chain /\ faults' \in 0..MaxFaults /\ faults' >= faults
      /\ local' \in [Ids -> Stored]
      /\ \/ local' = local
         \/ /\ local["pos"] # "CLOSED"
            /\ local'["pos"] \in {"CLOSING", "DEPLOYING", "RECONCILIATION_REQUIRED"}
      /\ tx' \in [Actions -> {"none", "sent", "landed"}]
      /\ \A a \in Actions : tx'[a] = "landed" => tx[a] = "landed"
      /\ known' \in BOOLEAN /\ (known' => known \/ tx[Deploy] = "landed")
      /\ confirmed' \subseteq Closes
  BY HandlerWrites
<1>2. /\ action' \in [Actions -> ActionStatuses \cup {"ABSENT"}]
      /\ deployedAs' \in Ids \cup {"none"} /\ ambiguous' \subseteq Closes
      /\ worker.job \in Actions /\ action[worker.job] = "RUNNING"
      /\ \A a \in Actions : action'[a] # action[a] =>
           a = worker.job /\ action'[a] \in {"WAITING_CONFIRMATION", "FAILED", "ABORTED"}
  BY HandlerReports
<1>3. worker.step # "idle" /\ worker' \in WorkerType
  BY WorkerGoesOn
<1>4. tick.step \notin Waiting \cup Marked \cup {"undoPosition", "undoAction"}
  BY <1>3, Apart
<1>5. TypeOK'
  BY <1>1, <1>2, <1>3 DEF TypeOK, WorkerType
<1>6. OneActive'
  BY <1>2 DEF OneActive, ActiveWriteStatuses
<1>7. Working'
  BY <1>1, <1>2, <1>3, WorkerGoesOn DEF Working
<1>8. Ticking'
  <2>1. tick.step = "sync" /\ tick.at = "pos" => local'["pos"] # "CLOSED"
    BY <1>1 DEF Ticking
  <2> QED
    BY <1>1, <1>4, <2>1 DEF Ticking
<1>9. Existed'
  <2>1. tick.step \notin Finalizing
    BY <1>4 DEF Waiting, Marked, Finalizing
  <2>2. \A c \in Closes : action[c] = "ABSENT" => action'[c] = "ABSENT"
    BY <1>2, NamesDiffer
  <2> QED
    BY <1>1, <2>1, <2>2, NamesDiffer DEF Existed
<1>10. Fresh'
  <2>1. action'[Deploy] \notin {"ABSENT", "QUEUED"}
    BY <1>2, NamesDiffer DEF Fresh
  <2> QED
    BY <2>1 DEF Fresh
<1>11. Addressed'
  <2>1. deployedAs \in Ids => deployedAs' \in Ids
    BY HandlerReports, NamesDiffer
  <2> QED
    BY <1>2, <2>1, HandlerReports, NamesDiffer DEF Addressed
<1>12. Concluded'
  <2>1. tick.step \notin Finalizing \cup {"reconciling", "done", "closeDone"}
    BY <1>4 DEF Waiting, Marked, Finalizing
  <2>2. \A a \in Actions : action'[a] = "DONE" => action[a] = "DONE"
    BY <1>2
  <2>3. action'[Deploy] = "DONE" => deployedAs' = "pos" /\ chain # "absent"
    BY <2>2, HandlerReports, NamesDiffer DEF Concluded
  <2> QED
    BY <1>1, <2>1, <2>2, <2>3, NamesDiffer DEF Concluded, Ended
<1>13. Swapping'
  BY <1>1, <1>2, NamesDiffer DEF Swapping
<1> QED
  BY <1>5, <1>6, <1>7, <1>8, <1>9, <1>10, <1>11, <1>12, <1>13
-----------------------------------------------------------------------------
(* Outside the handlers and the reconciler *)

\* A request and a claim touch neither what a handler has read nor an action
\* the reconciler holds.
LEMMA RequestKeepsInv ==
  ASSUME Inv, NEW a \in Actions, Request(a) \/ Claim(a)
  PROVE  Inv'
<1> USE DEF Inv
<1>1. /\ deployedAs' = deployedAs /\ ambiguous' = ambiguous /\ local' = local /\ chain' = chain
      /\ tx' = tx /\ booted' = booted /\ known' = known /\ tick' = tick /\ swaps' = swaps
      /\ confirmed' = confirmed /\ faults' = faults /\ crashes' = crashes /\ booted
      /\ managed' = managed /\ reopened' = reopened /\ peaks' = peaks
  BY DEF Request, Claim, chainVars, observers, management
<1>2. /\ action[a] \in {"ABSENT", "QUEUED"}
      /\ action' \in [Actions -> ActionStatuses \cup {"ABSENT"}]
      /\ \A b \in Actions \ {a} : action'[b] = action[b]
      /\ Request(a) => action[a] = "ABSENT" /\ action'[a] = "QUEUED" /\ worker' = worker
      /\ Claim(a) => /\ action[a] = "QUEUED" /\ action'[a] = "RUNNING"
                     /\ \A b \in Actions : action[b] \notin ActiveWriteStatuses
  BY DEF Request, Claim, SetAction, TypeOK, ActionStatuses
<1>3. worker' \in WorkerType
  <2>1. worker \in WorkerType
    BY DEF TypeOK, WorkerType
  <2>2. CASE Claim(a)
    <3>1. PICK step \in {"send", "read"} : worker' = [Idle EXCEPT !.step = step, !.job = a]
      BY <2>2 DEF Claim
    <3> QED
      BY <3>1 DEF Idle, WorkerType, WorkerSteps
  <2> QED
    BY <1>2, <2>1, <2>2
<1>4. a \in Closes => action[Deploy] \notin {"ABSENT", "QUEUED"} /\ chain # "absent"
  <2>1. CASE Request(a)
    <3>1. a \in Closes => local["pos"] = "OPEN"
      BY <2>1, NamesDiffer DEF Request, TypeOK, Stored, CloseRequestable
    <3> QED
      BY <3>1, NamesDiffer DEF Fresh, Existed
  <2>2. CASE Claim(a)
    BY <1>2, <2>2 DEF Fresh, Existed
  <2> QED
    BY <2>1, <2>2
<1>5. TypeOK'
  BY <1>1, <1>2, <1>3 DEF TypeOK, WorkerType
<1>6. OneActive'
  BY <1>2 DEF OneActive, ActiveWriteStatuses
<1>7. Working'
  <2>1. CASE Request(a)
    BY <1>1, <1>2, <2>1 DEF Working
  <2>2. CASE Claim(a)
    <3>1. a = Deploy => local["pos"] # "CLOSED"
      BY <1>2, <2>2, NamesDiffer DEF Fresh
    <3>2. worker' = [Idle EXCEPT !.step = IF a = Deploy THEN "send" ELSE "read", !.job = a]
      BY <2>2 DEF Claim
    <3> QED
      BY <1>1, <1>2, <2>2, <3>1, <3>2, NamesDiffer DEF Working, Idle
  <2> QED
    BY <2>1, <2>2
<1>8. Ticking'
  BY <1>1, <1>2, NamesDiffer DEF Ticking, Waiting, Marked, Finalizing
<1>9. Existed'
  BY <1>1, <1>2, <1>4, NamesDiffer DEF Existed
<1>10. Fresh'
  <2>1. CASE a = Deploy
    BY <1>1, <1>2, <2>1, NamesDiffer DEF Fresh
  <2>2. CASE a \in Closes
    BY <1>2, <1>4, <2>2, NamesDiffer DEF Fresh
  <2> QED
    BY <2>1, <2>2, NamesDiffer
<1>11. Addressed'
  BY <1>1, <1>2, NamesDiffer DEF Addressed
<1>12. Concluded'
  BY <1>1, <1>2, NamesDiffer DEF Concluded, Ended
<1>13. Swapping'
  BY <1>1, <1>2, NamesDiffer DEF Swapping
<1> QED
  BY <1>5, <1>6, <1>7, <1>8, <1>9, <1>10, <1>11, <1>12, <1>13

\* The position opens once, and once closed stays so.
LEMMA ChainKeepsInv ==
  ASSUME Inv, NEW a \in Actions, Land(a) \/ Drop(a)
  PROVE  Inv'
<1> USE DEF Inv
<1>1. /\ action' = action /\ deployedAs' = deployedAs /\ ambiguous' = ambiguous
      /\ local' = local /\ booted' = booted /\ known' = known /\ worker' = worker /\ tick' = tick
      /\ swaps' = swaps /\ confirmed' = confirmed /\ faults' = faults /\ crashes' = crashes
      /\ managed' = managed /\ reopened' = reopened /\ peaks' = peaks
  BY DEF Land, Drop, stores, observers, management
<1>2. /\ chain' \in {"absent", "open", "closed"}
      /\ tx' \in [Actions -> {"none", "sent", "landed"}]
      /\ \/ chain' # "absent"
         \/ chain = "absent" /\ (tx'[Deploy] = "landed" => tx[Deploy] = "landed")
      /\ chain = "closed" => chain' = "closed"
      /\ chain # "absent" => chain' # "absent"
  BY NamesDiffer DEF Land, Drop, TypeOK
<1>3. TypeOK'
  BY <1>1, <1>2 DEF TypeOK
<1>4. OneActive' /\ Working' /\ Ticking' /\ Fresh' /\ Addressed' /\ Swapping'
  BY <1>1 DEF OneActive, Working, Ticking, Fresh, Addressed, Swapping
<1>5. Existed'
  BY <1>1, <1>2 DEF Existed
<1>6. Concluded'
  BY <1>1, <1>2 DEF Concluded, Ended
<1> QED
  BY <1>3, <1>4, <1>5, <1>6

\* A crash forgets the process; the recovery hands the interrupted action on.
LEMMA RestartKeepsInv ==
  ASSUME Inv, Crash \/ Boot \/ \E a \in Actions : RecoverStale(a)
  PROVE  Inv'
<1> USE DEF Inv
<1>1. CASE Crash
  <2>1. /\ action' = action /\ deployedAs' = deployedAs /\ ambiguous' = ambiguous
        /\ local' = local /\ chain' = chain /\ tx' = tx /\ swaps' = swaps
        /\ confirmed' = confirmed /\ faults' = faults /\ ~booted' /\ ~known'
        /\ worker' = Idle /\ tick' = Rest
        /\ ~managed' /\ managed' \in BOOLEAN /\ reopened' = reopened /\ peaks' = peaks
    BY <1>1 DEF Crash, stores, chainVars, observers
  <2>2. crashes' \in 0..MaxCrashes /\ booted' \in BOOLEAN /\ known' \in BOOLEAN
    <3>1. crashes \in 0..MaxCrashes
      BY DEF TypeOK
    <3>2. crashes < MaxCrashes /\ crashes' = crashes + 1
      BY <1>1 DEF Crash
    <3>3. crashes' \in 0..MaxCrashes
      BY <3>1, <3>2, BoundsAreNatural
    <3>4. booted' \in BOOLEAN /\ known' \in BOOLEAN
      BY <1>1 DEF Crash
    <3> QED
      BY <3>3, <3>4
  <2>3. /\ Idle \in WorkerType /\ Rest \in TickType
        /\ Rest.step = "idle" /\ Rest.tracked = {} /\ ~Rest.shown /\ Rest.write = "none"
        /\ Idle.step = "idle"
    BY DEF Idle, Rest, WorkerType, TickType, WorkerSteps, TickSteps, Stored
  <2>4. TypeOK'
    BY <2>1, <2>2, <2>3 DEF TypeOK, WorkerType, TickType
  <2>5. OneActive' /\ Working' /\ Ticking' /\ Addressed' /\ Fresh'
    BY <2>1, <2>3 DEF OneActive, Working, Ticking, Addressed, Fresh, Waiting, Marked, Finalizing
  <2>6. Existed' /\ Concluded' /\ Swapping'
    BY <2>1, <2>3 DEF Existed, Concluded, Ended, Swapping, Finalizing
  <2> QED
    BY <2>4, <2>5, <2>6
<1>2. CASE Boot
  <2>1. /\ action' = action /\ deployedAs' = deployedAs /\ ambiguous' = ambiguous
        /\ local' = local /\ chain' = chain /\ tx' = tx /\ swaps' = swaps /\ known' = known
        /\ confirmed' = confirmed /\ faults' = faults /\ crashes' = crashes /\ booted'
        /\ worker' = worker /\ tick' = tick /\ booted' \in BOOLEAN
        /\ managed' = managed /\ reopened' = reopened /\ peaks' = peaks
    BY <1>2 DEF Boot, stores, chainVars, observers, management
  <2> QED
    BY <2>1 DEF TypeOK, OneActive, Working, Ticking, Existed, Fresh, Addressed, Concluded, Ended,
                Swapping
<1>3. ASSUME NEW a \in Actions, RecoverStale(a)
      PROVE  Inv'
  <2>1. /\ local' = local /\ chain' = chain /\ tx' = tx /\ swaps' = swaps /\ known' = known
        /\ confirmed' = confirmed /\ faults' = faults /\ crashes' = crashes /\ booted' = booted
        /\ worker' = worker /\ tick' = tick
        /\ managed' = managed /\ reopened' = reopened /\ peaks' = peaks
        /\ deployedAs' = IF a = Deploy THEN "stale" ELSE deployedAs
        /\ ambiguous' = IF a = Deploy THEN ambiguous ELSE ambiguous \cup {a}
    BY <1>3 DEF RecoverStale, chainVars, observers, management
  <2>2. /\ action[a] = "RUNNING" /\ action'[a] = "WAITING_CONFIRMATION"
        /\ action' \in [Actions -> ActionStatuses \cup {"ABSENT"}]
        /\ \A b \in Actions \ {a} : action'[b] = action[b]
    BY <1>3 DEF RecoverStale, SetAction, TypeOK, ActionStatuses
  <2>3. tick.step = "idle" /\ worker.step = "idle"
    BY <1>3 DEF RecoverStale, Ticking, Working
  <2>4. TypeOK'
    BY <2>1, <2>2, NamesDiffer DEF TypeOK, Ids
  <2>5. OneActive'
    BY <2>2 DEF OneActive, ActiveWriteStatuses
  <2>6. Working' /\ Ticking'
    BY <2>1, <2>3 DEF Working, Ticking, Waiting, Marked, Finalizing
  <2>7. Existed'
    BY <2>1, <2>2, <2>3, NamesDiffer DEF Existed
  <2>8. Fresh'
    BY <2>1, <2>2, NamesDiffer DEF Fresh
  <2>9. Addressed'
    BY <2>1, <2>2, NamesDiffer DEF Addressed, Ids
  <2>10. Concluded'
    BY <2>1, <2>2, <2>3, NamesDiffer DEF Concluded, Ended, Finalizing
  <2>11. Swapping'
    BY <2>1, <2>2, <2>3, NamesDiffer DEF Swapping
  <2> QED
    BY <2>4, <2>5, <2>6, <2>7, <2>8, <2>9, <2>10, <2>11
<1> QED
  BY <1>1, <1>2, <1>3

-----------------------------------------------------------------------------
(* The management tick *)

\* A record is listed while the position is OPEN; written back, it may replace
\* one that is CLOSED, which reopened tells.
LEMMA ManageKeepsInv ==
  ASSUME Inv, Manage
  PROVE  Inv'
<1> USE DEF Inv
<1>1. /\ action' = action /\ deployedAs' = deployedAs /\ ambiguous' = ambiguous
      /\ chain' = chain /\ tx' = tx /\ booted' = booted /\ known' = known /\ worker' = worker
      /\ tick' = tick /\ swaps' = swaps /\ confirmed' = confirmed /\ faults' = faults
      /\ crashes' = crashes
  BY DEF Manage, ListManaged, RefreshPeak, LetGo, ManagementOnly, chainVars, observers
<1>2. CASE ListManaged \/ LetGo
  <2>1. /\ local' = local /\ reopened' = reopened /\ managed' \in BOOLEAN
        /\ managed' => managed \/ local["pos"] = "OPEN"
    BY <1>2 DEF ListManaged, LetGo
  <2>2. peaks' \in 0..MaxPeaks
    BY <1>2, BoundsAreNatural DEF ListManaged, LetGo, TypeOK
  <2>3. managed' => chain # "absent" /\ action[Deploy] \notin {"ABSENT", "QUEUED"}
    BY <2>1, NamesDiffer DEF Existed, Fresh
  <2>4. TypeOK'
    BY <1>1, <2>1, <2>2 DEF TypeOK
  <2>5. OneActive' /\ Working' /\ Ticking' /\ Addressed' /\ Concluded' /\ Swapping'
    BY <1>1, <2>1 DEF OneActive, Working, Ticking, Addressed, Concluded, Ended, Swapping
  <2>6. Existed' /\ Fresh'
    BY <1>1, <2>1, <2>3 DEF Existed, Fresh
  <2> QED
    BY <2>4, <2>5, <2>6
<1>3. CASE RefreshPeak
  <2>1. /\ managed /\ ~managed' /\ managed' \in BOOLEAN /\ peaks' = peaks
        /\ local' \in [Ids -> Stored] /\ local'["pos"] = "OPEN"
        /\ \A i \in Ids \ {"pos"} : local'[i] = local[i]
    BY <1>3, NamesDiffer DEF RefreshPeak, Put, TypeOK, Stored
  <2>2. /\ reopened' \in BOOLEAN
        /\ reopened \/ local["pos"] = "CLOSED" => reopened'
    BY <1>3 DEF RefreshPeak
  <2>3. chain # "absent" /\ action[Deploy] \notin {"ABSENT", "QUEUED"}
    BY <2>1 DEF Existed, Fresh
  <2>4. TypeOK'
    BY <1>1, <2>1, <2>2 DEF TypeOK
  <2>5. OneActive' /\ Working' /\ Ticking' /\ Addressed' /\ Swapping'
    BY <1>1, <2>1 DEF OneActive, Working, Ticking, Addressed, Swapping
  <2>6. Existed' /\ Fresh'
    BY <1>1, <2>1, <2>3 DEF Existed, Fresh
  <2>7. Concluded'
    BY <1>1, <2>2 DEF Concluded, Ended
  <2> QED
    BY <2>4, <2>5, <2>6, <2>7
<1> QED
  BY <1>2, <1>3 DEF Manage

-----------------------------------------------------------------------------
(* The theorems *)

LEMMA InitHasInv ==
  Init => Inv
<1> SUFFICES ASSUME Init
    PROVE  Inv
  OBVIOUS
<1> USE DEF Init
<1>1. /\ Idle \in WorkerType /\ Rest \in TickType /\ ~managed
      /\ Rest.step = "idle" /\ Rest.tracked = {} /\ ~Rest.shown /\ Rest.write = "none"
      /\ Idle.step = "idle"
  BY DEF Idle, Rest, WorkerType, TickType, WorkerSteps, TickSteps, Stored
<1>2. TypeOK
  <2>1. 0 \in 0..MaxFaults /\ 0 \in 0..MaxCrashes /\ 0 \in 0..MaxPeaks
    BY BoundsAreNatural
  <2>2. /\ action \in [Actions -> ActionStatuses \cup {"ABSENT"}] /\ local \in [Ids -> Stored]
        /\ tx \in [Actions -> {"none", "sent", "landed"}]
        /\ swaps \in [Closes -> Nat] /\ managed \in BOOLEAN /\ reopened \in BOOLEAN
    BY DEF Stored
  <2> QED
    BY <1>1, <2>1, <2>2 DEF TypeOK, WorkerType, TickType
<1>3. OneActive /\ Working /\ Ticking /\ Addressed
  BY <1>1, NamesDiffer
     DEF OneActive, ActiveWriteStatuses, Working, Ticking, Addressed, Waiting, Marked, Finalizing
<1>4. Existed /\ Fresh /\ Concluded /\ Swapping
  BY <1>1, NamesDiffer DEF Existed, Fresh, Concluded, Ended, Swapping, Finalizing
<1> QED
  BY <1>2, <1>3, <1>4 DEF Inv

LEMMA NextKeepsInv ==
  Inv /\ [Next]_vars => Inv'
<1> SUFFICES ASSUME Inv, [Next]_vars
    PROVE  Inv'
  OBVIOUS
<1>1. CASE Outside
  BY <1>1, RequestKeepsInv, ChainKeepsInv, RestartKeepsInv DEF Outside
<1>2. CASE Handle
  BY <1>2, HandleKeepsInv
<1>3. CASE Looking \/ Concluding \/ Sync \/ Manage
  BY <1>3, LookingKeepsInv, ConcludingKeepsInv, SyncKeepsInv, ManageKeepsInv
<1>4. CASE UNCHANGED vars
  BY <1>4 DEF vars, stores, chainVars, management, observers, Inv, TypeOK, OneActive, Working,
              Ticking, Existed, Fresh, Addressed, Concluded, Ended, Swapping
<1> QED
  BY <1>1, <1>2, <1>3, <1>4, NextIsGrouped

\* One action is active at a time, and the handlers and the reconciler do not
\* meet over it.
THEOREM PositionInvariant == Spec => []Inv
BY InitHasInv, NextKeepsInv, PTL DEF Spec

\* Every variable keeps its type.
THEOREM TypeCorrect == Spec => []TypeOK
<1>1. Inv => TypeOK
  BY DEF Inv
<1> QED
  BY <1>1, PositionInvariant, PTL

\* CLOSED and DONE are true of the chain.
THEOREM DoneIsDone == Spec => []DoneMeansDone
<1>1. Inv => DoneMeansDone
  BY DEF Inv, Existed, Concluded, Ended, DoneMeansDone
<1> QED
  BY <1>1, PositionInvariant, PTL

\* The proceeds of a close are swapped once at most.
THEOREM SwappedAtMostOnce == Spec => []SwapAtMostOnce
<1>1. Inv => SwapAtMostOnce
  BY DEF Inv, Swapping, SwapAtMostOnce
<1> QED
  BY <1>1, PositionInvariant, PTL

\* A CLOSED position is written over only by the catch block, which takes a
\* failed call, and by the management tick.
LEMMA ClosedStays ==
  ASSUME Inv, [Next]_vars, local["pos"] = "CLOSED", local'["pos"] # "CLOSED"
  PROVE  \/ managed /\ local'["pos"] = "OPEN" /\ ~managed'
         \/ faults' > 0
<1> USE DEF Inv
<1>1. CASE Outside
  BY <1>1 DEF Outside, Request, Claim, Land, Drop, RecoverStale, Crash, Boot, stores
<1>2. CASE Handle
  BY <1>2, HandlerWrites
<1>3. CASE Looking
  BY <1>3, LookingKeepsStores
<1>4. CASE Sync
  <2>1. /\ tick.step = "sync" /\ tick.at \in Ids /\ tick.at # "pos"
    BY <1>4 DEF Sync, Ticking, TypeOK
  <2> QED
    BY <1>4, <2>1, NamesDiffer DEF Sync, Put, TypeOK
<1>5. CASE Concluding
  <2>1. faults' \in 0..MaxFaults /\ faults' # 0
    BY <1>5, ConcludingKeepsInv DEF SparesClosed, TypeOK
  <2> QED
    BY <2>1, BoundsAreNatural
<1>6. CASE Manage
  BY <1>6, NamesDiffer DEF Manage, ListManaged, RefreshPeak, LetGo, Put, TypeOK
<1> QED
  BY <1>1, <1>2, <1>3, <1>4, <1>5, <1>6, NextIsGrouped DEF vars, stores

\* CLOSED is left after a failed call, or by the management tick.
THEOREM ClosedForGood == Spec => ClosedIsFinal
<1> DEFINE Left == local["pos"] = "CLOSED" /\ local'["pos"] # "CLOSED" =>
                     \/ managed /\ local'["pos"] = "OPEN" /\ ~managed'
                     \/ faults' > 0
<1>1. Inv /\ [Next]_vars => [Left]_vars
  BY ClosedStays
<1>2. ClosedIsFinal <=> [][Left]_vars
  BY PTL DEF ClosedIsFinal
<1> QED
  BY <1>1, <1>2, PositionInvariant, PTL DEF Spec
=============================================================================
