------------------------------ MODULE Runtime ------------------------------
(***************************************************************************)
(* The life of the supervisor processes of one data directory (runLive,    *)
(* createRuntimeSupervisor): a start takes the owner lock, recovers the    *)
(* workers a dead process left RUNNING, runs the startup cycle, and then   *)
(* runs each worker from a timer of its own.  Every run is bracketed by    *)
(* tryStartRun and finishRun on the scheduler file, which all processes of *)
(* the directory share.                                                    *)
(***************************************************************************)
EXTENDS OwnerLock, Sequences

CONSTANTS Order,      \* the workers, in the order of the startup cycle
          Screening   \* the worker that may skip a run for lack of capacity

ASSUME RuntimeAssumption == Order \in Seq(STRING)

Workers == {Order[i] : i \in 1..Len(Order)}

VARIABLES
  status,    \* the scheduler file: the state of each worker
  phase,     \* of each supervisor: how far runLive has come
  startup,   \* the workers its startup cycle has still to run
  ticking,   \* the <worker>TickRunning flags
  run,       \* the run of a worker in a supervisor
  lostWrite  \* history: a write of the scheduler file has failed

runVars == <<status, phase, startup, ticking, run, lostWrite>>
vars == <<lockVars, runVars>>

RunTypeOK ==
  /\ status \in [Workers -> {"IDLE", "RUNNING", "SUCCEEDED", "FAILED"}]
  /\ phase \in [Supervisors -> {"none", "boot", "cycle", "up"}]
  /\ startup \in [Supervisors -> Seq(Workers)]
  /\ ticking \in [Supervisors -> SUBSET Workers]
  /\ run \in [Supervisors ->
                [Workers -> {"none", "begin", "run", "succeeded", "failed"}]]
  /\ lostWrite \in BOOLEAN

TypeOK == LockTypeOK /\ RunTypeOK

NoRun == [w \in Workers |-> "none"]

Init ==
  /\ LockInit
  /\ status \in [Workers -> {"IDLE", "RUNNING"}]
  /\ phase = [p \in Supervisors |-> "none"]
  /\ startup = [p \in Supervisors |-> <<>>]
  /\ ticking = [p \in Supervisors |-> {}]
  /\ run = [p \in Supervisors |-> NoRun]
  /\ lostWrite = FALSE

\* A run holds a worker between a successful tryStartRun and its finishRun.
Holds(p, w) == run[p][w] \in {"run", "succeeded", "failed"}

Stopped(p) ==
  /\ phase' = [phase EXCEPT ![p] = "none"]
  /\ startup' = [startup EXCEPT ![p] = <<>>]
  /\ ticking' = [ticking EXCEPT ![p] = {}]
  /\ run' = [run EXCEPT ![p] = NoRun]
  /\ UNCHANGED <<status, lostWrite>>

\* A step of the owner lock, with what it means for the rest of runLive.
Locking(p, step) ==
  /\ step
  /\ CASE pc[p] # "owner" /\ pc'[p] = "owner" ->
            phase' = [phase EXCEPT ![p] = "boot"]
            /\ UNCHANGED <<status, startup, ticking, run, lostWrite>>
       [] pc[p] # "gone" /\ pc'[p] = "gone" -> Stopped(p)
       [] OTHER -> UNCHANGED runVars

\* scheduler_running_recovery.  A checklist item that fails makes the status
\* UNSAFE; runLive logs it and goes on.
Recover(p) ==
  /\ phase[p] = "boot"
  /\ \/ /\ status' = [w \in Workers |->
                        IF status[w] = "RUNNING" THEN "FAILED" ELSE status[w]]
        /\ UNCHANGED <<slips, lostWrite>>
     \/ Slip /\ lostWrite' = TRUE /\ UNCHANGED status
  /\ phase' = [phase EXCEPT ![p] = "cycle"]
  /\ startup' = [startup EXCEPT ![p] = Order]
  /\ UNCHANGED <<lock, handles, pc, beat, removedLive, ticking, run>>

---------------------------------------------------------------------------
(* One run of a worker *)

\* From the startup cycle, or from a timer whose flag is down.
Begin(p, w) ==
  /\ run[p][w] = "none"
  /\ \/ /\ phase[p] = "cycle" /\ startup[p] # <<>> /\ w = Head(startup[p])
        /\ UNCHANGED ticking
     \/ /\ phase[p] = "up" /\ w \notin ticking[p]
        /\ ticking' = [ticking EXCEPT ![p] = @ \cup {w}]
  /\ run' = [run EXCEPT ![p][w] = "begin"]
  /\ UNCHANGED <<lockVars, status, phase, startup, lostWrite>>

\* finally: the flag comes down after an error, too.
LowerOnSuccess(p, w, threw) ==
  IF threw THEN ticking ELSE [ticking EXCEPT ![p] = @ \ {w}]

LowerFlag(p, w, threw) == [ticking EXCEPT ![p] = @ \ {w}]

\* Timers end a tick by catch and finally; in the startup cycle an error
\* makes main() reject, and the process exits.
EndTick(p, w, threw) ==
  IF phase[p] = "cycle" /\ threw
    THEN /\ Exit(p)
         /\ phase' = [phase EXCEPT ![p] = "none"]
         /\ startup' = [startup EXCEPT ![p] = <<>>]
         /\ ticking' = [ticking EXCEPT ![p] = {}]
         /\ run' = [run EXCEPT ![p] = NoRun]
    ELSE /\ run' = [run EXCEPT ![p][w] = "none"]
         /\ ticking' = LowerFlag(p, w, threw)
         /\ startup' = IF phase[p] = "cycle"
                         THEN [startup EXCEPT ![p] = Tail(@)] ELSE startup
         /\ phase' = IF startup'[p] = <<>>
                       THEN [phase EXCEPT ![p] = "up"] ELSE phase
         /\ UNCHANGED <<pc, beat, handles>>

\* tryStartRun refuses a worker whose state is RUNNING: the run is skipped.
TryStart(p, w) ==
  /\ run[p][w] = "begin"
  /\ \/ /\ status[w] # "RUNNING"
        /\ status' = [status EXCEPT ![w] = "RUNNING"]
        /\ run' = [run EXCEPT ![p][w] = "run"]
        /\ UNCHANGED <<pc, beat, handles, phase, startup, ticking, slips>>
     \/ /\ status[w] = "RUNNING"
        /\ EndTick(p, w, FALSE)
        /\ UNCHANGED <<status, slips>>
     \/ Slip /\ EndTick(p, w, TRUE) /\ UNCHANGED status
  /\ UNCHANGED <<lock, removedLive, lostWrite>>

\* The worker's own code, which may throw.
Work(p, w) ==
  /\ run[p][w] = "run"
  /\ \E outcome \in {"succeeded", "failed"} :
       run' = [run EXCEPT ![p][w] = outcome]
  /\ UNCHANGED <<lockVars, status, phase, startup, ticking, lostWrite>>

FinishOnlySuccess(p, w) ==
  status' = IF run[p][w] = "succeeded"
              THEN [status EXCEPT ![w] = "SUCCEEDED"] ELSE status

FinishAsIs(p, w) == status' = [status EXCEPT ![w] = run[p][w]]

FinishRun(p, w) ==
  status' = [status EXCEPT ![w] =
               IF run[p][w] = "succeeded" THEN "SUCCEEDED" ELSE "FAILED"]

\* finishRun, whatever the worker did; its own failure is logged, and only a
\* screening run skipped for lack of capacity passes it on.
Finish(p, w) ==
  /\ run[p][w] \in {"succeeded", "failed"}
  /\ \/ /\ FinishRun(p, w)
        /\ EndTick(p, w, run[p][w] = "failed")
        /\ UNCHANGED <<slips, lostWrite>>
     \/ /\ Slip
        /\ lostWrite' = TRUE
        /\ \E passedOn \in BOOLEAN :
             /\ passedOn => w = Screening
             /\ EndTick(p, w, run[p][w] = "failed" \/ passedOn)
        /\ UNCHANGED status
  /\ UNCHANGED <<lock, removedLive>>

---------------------------------------------------------------------------
RunStep(p, w) == Begin(p, w) \/ TryStart(p, w) \/ Work(p, w) \/ Finish(p, w)

Next ==
  \/ \E p \in Supervisors :
       \/ Locking(p, Acquire(p))
       \/ Locking(p, Heartbeat(p))
       \/ Locking(p, Die(p))
       \/ Recover(p)
       \/ \E w \in Workers : RunStep(p, w)
  \/ Age /\ UNCHANGED runVars

\* Timers fire and system calls return in a living process; nothing makes an
\* operator start the program, and nothing makes a process die.
Fairness ==
  \A p \in Supervisors :
    /\ WF_vars(Locking(p, Acquire(p) /\ pc[p] # "new"))
    /\ WF_vars(Locking(p, Heartbeat(p)))
    /\ WF_vars(Recover(p))
    /\ \A w \in Workers : WF_vars(RunStep(p, w))

Spec == Init /\ [][Next]_vars /\ Fairness

---------------------------------------------------------------------------
(* Properties *)

\* No worker runs in two processes at once, and so no two cycles write the
\* position and action files together, unless a starter has removed the lock
\* file of a process that lives: one it took for stale, or read while half
\* written, or removed after another starter had replaced it.
OneRunPerWorker ==
  \/ \A w \in Workers : Cardinality({p \in Supervisors : Holds(p, w)}) <= 1
  \/ removedLive

\* Past recovery, a worker whose state is RUNNING while nobody runs it (it is
\* skipped until the next start) was left so by a failed write of the
\* scheduler file or by a process that lost its lock while it ran the worker;
\* an error in the worker, a crash and a stop leave none.
BlockedHasCause ==
  \A p \in Supervisors, w \in Workers :
    phase[p] \in {"cycle", "up"} /\ status[w] = "RUNNING"
    /\ (\A q \in Supervisors : ~Holds(q, w))
    => lostWrite \/ removedLive

\* Two processes that both believe to own the directory do not go on so: one
\* of them finds the other's record and ends.  A heartbeat takes milliseconds
\* of its ten seconds; only heartbeats that overlap for ever, each check before
\* the other's write and each write after the other's check, could hide the
\* processes from one another.
Quiet == \A p \in Supervisors : beat[p] = "idle"

SplitBrainEnds ==
  []<>Quiet => ((Cardinality(Owners) > 1) ~> (Cardinality(Owners) <= 1))

\* While some process is up, every worker keeps being run, whatever errors
\* its runs end with, except one that is blocked as above.
EveryWorkerKeepsRunning ==
  \A w \in Workers :
    []<>( \/ \E p \in Supervisors : run[p][w] = "run"
          \/ \A p \in Supervisors : phase[p] # "up"
          \/ status[w] = "RUNNING" )
=============================================================================
