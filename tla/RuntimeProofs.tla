---------------------------- MODULE RuntimeProofs ----------------------------
(***************************************************************************)
(* What the owner lock and the scheduler file guarantee for any number of  *)
(* starts of the program, of workers and of slips: one run of a worker at  *)
(* a time, and no worker left RUNNING, but for the named causes.           *)
(***************************************************************************)
EXTENDS Runtime, FiniteSetTheorems, SequenceTheorems, TLAPS

-----------------------------------------------------------------------------
(* The inductive invariant *)

\* Those that own the directory, or have made the lock file and will.
Takers == {p \in Supervisors : pc[p] \in {"write", "owner"}}

\* As long as no live file was removed the lock file exists while somebody
\* has it, and one has it: open(path, "wx") makes the file for one starter.
LockIsExclusive ==
  /\ \A p \in Supervisors : beat[p] # "idle" => pc[p] = "owner"
  /\ ~removedLive =>
       /\ \A p, q \in Takers : p = q
       /\ Takers # {} => lock.exists
       /\ \A p \in Supervisors : pc[p] = "write" => p \in handles

\* Runs belong to a process that owns the directory, and its startup cycle
\* runs one worker at a time.
RunsAreOwned ==
  \A p \in Supervisors :
    /\ phase[p] # "none" => pc[p] = "owner"
    /\ \A w \in Workers : run[p][w] # "none" =>
         /\ phase[p] \in {"cycle", "up"}
         /\ phase[p] = "cycle" => startup[p] # <<>> /\ w = Head(startup[p])

\* A RUNNING worker is run by somebody, once the leftovers are recovered.
RunningIsHeld ==
  ~lostWrite /\ ~removedLive =>
    \A p \in Supervisors, w \in Workers :
      phase[p] \in {"cycle", "up"} /\ status[w] = "RUNNING" =>
        \E q \in Supervisors : Holds(q, w)

IInv == TypeOK /\ LockIsExclusive /\ RunsAreOwned /\ RunningIsHeld

-----------------------------------------------------------------------------
(* The owner lock *)

\* A process that ends leaves the lock as exclusive as it was.
LEMMA ExitKeepsLock ==
  ASSUME LockTypeOK, LockIsExclusive, NEW p \in Supervisors,
         Exit(p) \/ UNCHANGED <<pc, beat, handles>>,
         UNCHANGED <<lock, removedLive>>, Slip \/ UNCHANGED slips
  PROVE  LockTypeOK' /\ LockIsExclusive'
<1>1. slips' \in 0..MaxSlips
  BY OwnerLockAssumption DEF LockTypeOK, Slip
<1>2. CASE Exit(p)
  BY <1>1, <1>2 DEF LockTypeOK, LockIsExclusive, Takers, Exit, Goto, Beat
<1>3. CASE UNCHANGED <<pc, beat, handles>>
  BY <1>1, <1>3 DEF LockTypeOK, LockIsExclusive, Takers
<1> QED
  BY <1>2, <1>3

\* open(path, "wx") finds no file, and so nobody who has taken it.
LEMMA OpenedKeepsLock ==
  ASSUME LockTypeOK, LockIsExclusive, NEW p \in Supervisors, ~lock.exists,
         pc[p] \in {"new", "reopen"}, lock' = Empty, handles' = {p},
         Goto(p, "write"), UNCHANGED <<beat, slips, removedLive>>
  PROVE  LockTypeOK' /\ LockIsExclusive'
<1>1. LockTypeOK'
  BY DEF LockTypeOK, Goto, Empty
<1>2. ~removedLive => Takers' = {p}
  BY DEF LockTypeOK, LockIsExclusive, Takers, Goto
<1>3. \A q \in Supervisors : beat'[q] # "idle" => pc'[q] = "owner"
  BY DEF LockTypeOK, LockIsExclusive, Goto
<1>4. ~removedLive => \A q \in Supervisors : pc'[q] = "write" => q \in handles'
  BY <1>2 DEF Takers
<1> QED
  BY <1>1, <1>2, <1>3, <1>4 DEF LockIsExclusive, Empty

\* The steps of a start and of a heartbeat.
LEMMA AcquireKeepsLock ==
  ASSUME LockTypeOK, LockIsExclusive, NEW p \in Supervisors, Acquire(p)
  PROVE  LockTypeOK' /\ LockIsExclusive'
<1> USE OwnerLockAssumption DEF LockTypeOK, LockIsExclusive, Takers, Goto, Beat
<1>1. CASE Open(p)
  <2>1. CASE Exclusive
    BY <1>1, <2>1, OpenedKeepsLock DEF Open, OpenExclusive, Exclusive
  <2>2. CASE ~Exclusive
    BY <1>1, <2>2 DEF Open, OpenExclusive
  <2> QED
    BY <2>1, <2>2
<1>2. CASE Read(p)
  <2>1. CASE Exit(p) /\ UNCHANGED slips
    BY <1>2, <2>1, ExitKeepsLock DEF Read
  <2>2. slips' \in 0..MaxSlips
    BY <1>2 DEF Read, Slip
  <2>3. CASE Goto(p, "remove") /\ UNCHANGED <<handles, beat>>
    BY <1>2, <2>2, <2>3 DEF Read
  <2> QED
    BY <1>2, <2>1, <2>3 DEF Read
<1>3. CASE Remove(p)
  BY <1>3 DEF Remove, Absent, Owners
<1>4. CASE Reopen(p)
  <2>1. CASE Exclusive
    BY <1>4, <2>1, OpenedKeepsLock DEF Reopen, OpenExclusive, Exclusive
  <2>2. CASE ~Exclusive
    BY <1>4, <2>2, ExitKeepsLock DEF Reopen, OpenExclusive
  <2> QED
    BY <2>1, <2>2
<1>5. CASE Write(p)
  BY <1>5 DEF Write, PutRecord, RecordOf
<1> QED
  BY <1>1, <1>2, <1>3, <1>4, <1>5 DEF Acquire

LEMMA HeartbeatKeepsLock ==
  ASSUME LockTypeOK, LockIsExclusive, NEW p \in Supervisors, Heartbeat(p)
  PROVE  LockTypeOK' /\ LockIsExclusive'
<1> USE OwnerLockAssumption DEF LockTypeOK, LockIsExclusive, Takers, Goto, Beat
<1>1. CASE BeatRead(p)
  <2>1. CASE Beat(p, "truncate") /\ UNCHANGED <<pc, handles, slips>>
    BY <1>1, <2>1 DEF BeatRead
  <2>2. CASE Slip /\ Exit(p)
    BY <1>1, <2>2, ExitKeepsLock DEF BeatRead
  <2> QED
    BY <1>1, <2>1, <2>2 DEF BeatRead
<1>2. CASE BeatLost(p)
  BY <1>2, ExitKeepsLock DEF BeatLost
<1>3. CASE BeatTruncate(p)
  BY <1>3 DEF BeatTruncate, Empty
<1>4. CASE BeatWrite(p)
  <2>1. slips' \in 0..MaxSlips
    BY <1>4 DEF BeatWrite, Slip
  <2>2. CASE PutRecord(p)
    BY <1>4, <2>1, <2>2 DEF BeatWrite, PutRecord, RecordOf
  <2>3. CASE handles' = handles \ {p} /\ UNCHANGED lock
    BY <1>4, <2>1, <2>3 DEF BeatWrite
  <2> QED
    BY <1>4, <2>2, <2>3 DEF BeatWrite
<1> QED
  BY <1>1, <1>2, <1>3, <1>4 DEF Heartbeat

LEMMA AgeKeepsLock ==
  ASSUME LockTypeOK, LockIsExclusive, Age
  PROVE  LockTypeOK' /\ LockIsExclusive'
<1>1. slips' \in 0..MaxSlips
  BY OwnerLockAssumption DEF LockTypeOK, Age, Slip
<1>2. lock' = [exists |-> lock.exists, owner |-> lock.owner, fresh |-> FALSE]
  BY DEF LockTypeOK, Age
<1> QED
  BY <1>1, <1>2 DEF LockTypeOK, LockIsExclusive, Takers, Age

\* Without such a removal one process at most owns the directory.
LEMMA OneOwner ==
  ASSUME LockIsExclusive, RunsAreOwned, ~removedLive,
         NEW p \in Supervisors, NEW q \in Supervisors,
         phase[p] # "none", phase[q] # "none"
  PROVE  p = q
BY DEF LockIsExclusive, RunsAreOwned, Takers

-----------------------------------------------------------------------------
(* The runs *)

\* The workers are the members of Order.
LEMMA OrderOfWorkers == Order \in Seq(Workers)
<1>1. Len(Order) \in Nat /\ Order = [i \in 1..Len(Order) |-> Order[i]]
  BY RuntimeAssumption
<1>2. Order \in [1..Len(Order) -> Workers]
  BY <1>1 DEF Workers
<1> QED
  BY <1>1, <1>2, SeqDef

RunInv == RunTypeOK /\ RunsAreOwned /\ RunningIsHeld

\* The end of a tick: the process goes on without the run, or ends.
LEMMA EndOfTick ==
  ASSUME RunTypeOK, RunsAreOwned, NEW p \in Supervisors, NEW w \in Workers,
         NEW threw \in BOOLEAN, run[p][w] # "none", EndTick(p, w, threw)
  PROVE  /\ phase' \in [Supervisors -> {"none", "boot", "cycle", "up"}]
         /\ startup' \in [Supervisors -> Seq(Workers)]
         /\ ticking' \in [Supervisors -> SUBSET Workers]
         /\ \/ Exit(p) /\ phase' = [phase EXCEPT ![p] = "none"]
               /\ run' = [run EXCEPT ![p] = NoRun]
            \/ UNCHANGED <<pc, beat, handles>> /\ phase'[p] \in {"cycle", "up"}
               /\ (\A q \in Supervisors \ {p} : phase'[q] = phase[q])
               /\ run' = [run EXCEPT ![p][w] = "none"]
         /\ run' \in [Supervisors ->
                        [Workers -> {"none", "begin", "run", "succeeded", "failed"}]]
         /\ RunsAreOwned'
<1> USE DEF RunTypeOK, RunsAreOwned
<1>1. phase[p] \in {"cycle", "up"}
  OBVIOUS
<1>2. CASE phase[p] = "cycle" /\ threw
  <2>1. /\ Exit(p)
        /\ phase' = [phase EXCEPT ![p] = "none"]
        /\ startup' = [startup EXCEPT ![p] = <<>>]
        /\ ticking' = [ticking EXCEPT ![p] = {}]
        /\ run' = [run EXCEPT ![p] = NoRun]
    BY <1>2, Zenon DEF EndTick
  <2> QED
    BY <2>1, EmptySeq DEF NoRun, Exit, Goto
<1>3. CASE ~(phase[p] = "cycle" /\ threw)
  <2>1. /\ run' = [run EXCEPT ![p][w] = "none"]
        /\ ticking' = [ticking EXCEPT ![p] = @ \ {w}]
        /\ startup' = IF phase[p] = "cycle"
                        THEN [startup EXCEPT ![p] = Tail(@)] ELSE startup
        /\ phase' = IF startup'[p] = <<>> THEN [phase EXCEPT ![p] = "up"] ELSE phase
        /\ UNCHANGED <<pc, beat, handles>>
    BY <1>3, Zenon DEF EndTick, LowerFlag
  <2>2. startup' \in [Supervisors -> Seq(Workers)]
    BY <1>1, <2>1, HeadTailProperties
  <2>3. RunsAreOwned'
    BY <1>1, <2>1, <2>2
  <2> QED
    BY <1>1, <2>1, <2>2, <2>3
<1> QED
  BY <1>2, <1>3

\* A step of the lock moves its own process alone; an owner stays one or ends.
LEMMA LockStepMoves ==
  ASSUME LockTypeOK, LockIsExclusive, NEW p \in Supervisors,
         Acquire(p) \/ Heartbeat(p) \/ Die(p)
  PROVE  /\ \A q \in Supervisors \ {p} : pc'[q] = pc[q]
         /\ pc[p] = "owner" => pc'[p] \in {"owner", "gone"}
         /\ removedLive => removedLive'
<1> USE DEF LockTypeOK, LockIsExclusive, Goto, Beat, Exit
<1>1. CASE Acquire(p)
  BY <1>1 DEF Acquire, Open, Read, Remove, Reopen, Write, OpenExclusive
<1>2. CASE Heartbeat(p)
  BY <1>2 DEF Heartbeat, BeatRead, BeatLost, BeatTruncate, BeatWrite
<1>3. CASE Die(p)
  BY <1>3 DEF Die
<1> QED
  BY <1>1, <1>2, <1>3

\* What a step of the lock means for the runs.
LEMMA LockingKeepsRuns ==
  ASSUME IInv, NEW p \in Supervisors,
         Locking(p, Acquire(p)) \/ Locking(p, Heartbeat(p)) \/ Locking(p, Die(p))
  PROVE  RunInv'
<1> USE DEF IInv, TypeOK, RunTypeOK
<1>1. /\ \A q \in Supervisors \ {p} : pc'[q] = pc[q]
      /\ pc[p] = "owner" => pc'[p] \in {"owner", "gone"}
      /\ removedLive => removedLive'
  BY LockStepMoves DEF Locking
<1>2. CASE /\ pc[p] # "owner" /\ phase' = [phase EXCEPT ![p] = "boot"]
           /\ pc'[p] = "owner"
           /\ UNCHANGED <<status, startup, ticking, run, lostWrite>>
  <2>1. RunTypeOK' /\ RunsAreOwned'
    BY <1>1, <1>2 DEF RunsAreOwned
  <2>2. RunningIsHeld'
    BY <1>1, <1>2 DEF RunsAreOwned, RunningIsHeld, Holds
  <2> QED
    BY <2>1, <2>2 DEF RunInv
<1>3. CASE Stopped(p)
  <2>1. RunTypeOK'
    BY <1>3, EmptySeq DEF Stopped, NoRun
  <2>2. RunsAreOwned'
    BY <1>1, <1>3 DEF Stopped, NoRun, RunsAreOwned
  <2>3. RunningIsHeld'
    <3> SUFFICES ASSUME ~lostWrite, ~removedLive, NEW q \in Supervisors,
                        phase'[q] \in {"cycle", "up"}, NEW w \in Workers,
                        status[w] = "RUNNING"
                 PROVE  \E h \in Supervisors : Holds(h, w)'
      BY <1>1, <1>3 DEF Stopped, RunningIsHeld
    <3>1. q # p /\ phase[q] \in {"cycle", "up"}
      BY <1>3 DEF Stopped
    <3>2. PICK h \in Supervisors : Holds(h, w)
      BY <3>1 DEF RunningIsHeld
    <3>3. h = q
      BY <3>1, <3>2, OneOwner DEF RunsAreOwned, Holds
    <3> QED
      BY <1>3, <3>1, <3>2, <3>3 DEF Stopped, Holds
  <2> QED
    BY <2>1, <2>2, <2>3 DEF RunInv
<1>4. CASE UNCHANGED runVars /\ (pc[p] = "owner" => pc'[p] = "owner")
  <2>1. RunTypeOK'
    BY <1>4 DEF runVars
  <2>2. RunsAreOwned'
    BY <1>1, <1>4 DEF runVars, RunsAreOwned
  <2>3. RunningIsHeld'
    BY <1>1, <1>4 DEF runVars, RunningIsHeld, Holds
  <2> QED
    BY <2>1, <2>2, <2>3 DEF RunInv
<1> QED
  BY <1>1, <1>2, <1>3, <1>4 DEF Locking

\* A run changes the lock only by ending its process.
LEMMA RunStepEnds ==
  ASSUME IInv, NEW p \in Supervisors, NEW w \in Workers, TryStart(p, w) \/ Finish(p, w)
  PROVE  /\ Exit(p) \/ UNCHANGED <<pc, beat, handles>>
         /\ UNCHANGED <<lock, removedLive>>
         /\ Slip \/ UNCHANGED slips
BY DEF TryStart, Finish, EndTick

\* The steps of a run keep the invariant.
LEMMA RunStepKeepsInv ==
  ASSUME IInv, NEW p \in Supervisors, NEW w \in Workers, RunStep(p, w)
  PROVE  IInv'
<1> USE DEF IInv, TypeOK, RunTypeOK
<1>1. CASE Begin(p, w)
  <2>1. LockTypeOK' /\ LockIsExclusive'
    BY <1>1 DEF Begin, lockVars, LockTypeOK, LockIsExclusive, Takers
  <2>2. RunTypeOK'
    <3>1. run' = [run EXCEPT ![p] = [run[p] EXCEPT ![w] = "begin"]]
      BY <1>1 DEF Begin
    <3>2. run' \in [Supervisors ->
                      [Workers -> {"none", "begin", "run", "succeeded", "failed"}]]
      BY <3>1
    <3>3. ticking' = ticking \/ ticking' = [ticking EXCEPT ![p] = ticking[p] \cup {w}]
      BY <1>1, Zenon DEF Begin
    <3> QED
      BY <1>1, <3>2, <3>3 DEF Begin
  <2>3. RunsAreOwned'
    BY <1>1 DEF Begin, lockVars, RunsAreOwned
  <2>4. RunningIsHeld'
    <3>1. \A q \in Supervisors, v \in Workers : Holds(q, v) => Holds(q, v)'
      BY <1>1 DEF Begin, Holds
    <3>2. UNCHANGED <<phase, status, lostWrite, removedLive>>
      BY <1>1 DEF Begin, lockVars
    <3> QED
      BY <3>1, <3>2 DEF RunningIsHeld
  <2> QED
    BY <2>1, <2>2, <2>3, <2>4
<1>2. CASE Work(p, w)
  <2>1. LockTypeOK' /\ LockIsExclusive'
    BY <1>2 DEF Work, lockVars, LockTypeOK, LockIsExclusive, Takers
  <2>2. RunTypeOK'
    BY <1>2 DEF Work
  <2>3. RunsAreOwned'
    BY <1>2 DEF Work, lockVars, RunsAreOwned
  <2>4. RunningIsHeld'
    BY <1>2 DEF Work, lockVars, RunningIsHeld, Holds
  <2> QED
    BY <2>1, <2>2, <2>3, <2>4
<1>3. CASE TryStart(p, w) \/ Finish(p, w)
  <2>1. LockTypeOK' /\ LockIsExclusive'
    BY <1>3, RunStepEnds, ExitKeepsLock
  <2>2. \/ /\ status[w] # "RUNNING" /\ status' = [status EXCEPT ![w] = "RUNNING"]
           /\ run' = [run EXCEPT ![p][w] = "run"]
           /\ UNCHANGED <<pc, phase, startup, ticking, lostWrite>>
        \/ /\ ~Holds(p, w) /\ run[p][w] # "none" /\ UNCHANGED <<status, lostWrite>>
           /\ \E threw \in BOOLEAN : EndTick(p, w, threw)
        \/ /\ Holds(p, w) /\ lostWrite' = lostWrite
           /\ \E s \in {"SUCCEEDED", "FAILED"} : status' = [status EXCEPT ![w] = s]
           /\ \E threw \in BOOLEAN : EndTick(p, w, threw)
        \/ /\ Holds(p, w) /\ lostWrite' = TRUE /\ UNCHANGED status
           /\ \E threw \in BOOLEAN : EndTick(p, w, threw)
    BY <1>3 DEF TryStart, Finish, FinishRun, Holds
  <2>3. CASE /\ status[w] # "RUNNING" /\ status' = [status EXCEPT ![w] = "RUNNING"]
             /\ run' = [run EXCEPT ![p][w] = "run"]
             /\ UNCHANGED <<pc, phase, startup, ticking, lostWrite>>
    <3>1. RunTypeOK'
      BY <2>3
    <3>2. RunsAreOwned'
      <4>1. run[p][w] # "none"
        BY <1>3 DEF TryStart, Finish
      <4> QED
        BY <2>3, <4>1 DEF RunsAreOwned
    <3>3. RunningIsHeld'
      BY <2>3, RunStepEnds, <1>3 DEF RunningIsHeld, Holds
    <3> QED
      BY <2>1, <3>1, <3>2, <3>3
  <2>4. ASSUME run[p][w] # "none", NEW threw \in BOOLEAN, EndTick(p, w, threw),
               \/ ~Holds(p, w) /\ UNCHANGED <<status, lostWrite>>
               \/ /\ lostWrite' = lostWrite
                  /\ \E s \in {"SUCCEEDED", "FAILED"} : status' = [status EXCEPT ![w] = s]
               \/ lostWrite' = TRUE /\ UNCHANGED status
        PROVE  IInv'
    <3>1. status' \in [Workers -> {"IDLE", "RUNNING", "SUCCEEDED", "FAILED"}]
          /\ lostWrite' \in BOOLEAN
      BY <2>4
    <3>2. RunTypeOK' /\ RunsAreOwned'
      BY <2>4, <3>1, EndOfTick
    <3>3. RunningIsHeld'
      <4> SUFFICES ASSUME ~lostWrite', ~removedLive', NEW q \in Supervisors,
                          phase'[q] \in {"cycle", "up"}, NEW v \in Workers,
                          status'[v] = "RUNNING"
                   PROVE  \E h \in Supervisors : Holds(h, v)'
        BY DEF RunningIsHeld
      <4>1. phase[p] # "none" /\ phase[q] # "none" /\ ~removedLive
        <5>1. phase[p] # "none"
          BY <2>4 DEF RunsAreOwned
        <5>2. phase' = [phase EXCEPT ![p] = "none"]
              \/ \A r \in Supervisors \ {p} : phase'[r] = phase[r]
          BY <2>4, EndOfTick
        <5>3. phase[q] # "none"
          BY <5>1, <5>2
        <5>4. ~removedLive
          BY <1>3, RunStepEnds
        <5> QED
          BY <5>1, <5>3, <5>4
      <4>2. p = q
        BY <4>1, OneOwner
      <4>3. /\ run' = [run EXCEPT ![p][w] = "none"] /\ phase[q] \in {"cycle", "up"}
        BY <2>4, <4>2, EndOfTick DEF RunsAreOwned
      <4>4. status[v] = "RUNNING" /\ ~lostWrite /\ (v = w => ~Holds(p, w))
        BY <2>4
      <4>5. PICK h \in Supervisors : Holds(h, v)
        BY <4>1, <4>3, <4>4 DEF RunningIsHeld
      <4>6. h = p
        BY <4>1, <4>5, OneOwner DEF RunsAreOwned, Holds
      <4> QED
        BY <4>3, <4>4, <4>5, <4>6 DEF Holds
    <3> QED
      BY <2>1, <3>2, <3>3
  <2> QED
    BY <2>2, <2>3, <2>4 DEF Holds
<1> QED
  BY <1>1, <1>2, <1>3 DEF RunStep

\* Recovery, before the startup cycle.
LEMMA RecoverKeepsInv ==
  ASSUME IInv, NEW p \in Supervisors, Recover(p)
  PROVE  IInv'
<1> USE DEF IInv, TypeOK, RunTypeOK
<1>1. LockTypeOK' /\ LockIsExclusive'
  BY ExitKeepsLock DEF Recover
<1>2. RunTypeOK'
  <2>1. status' \in [Workers -> {"IDLE", "RUNNING", "SUCCEEDED", "FAILED"}]
        /\ lostWrite' \in BOOLEAN
    BY DEF Recover
  <2> QED
    BY <2>1, OrderOfWorkers DEF Recover
<1>3. RunsAreOwned'
  BY DEF Recover, RunsAreOwned
<1>4. RunningIsHeld'
  BY DEF Recover, RunningIsHeld
<1> QED
  BY <1>1, <1>2, <1>3, <1>4

LEMMA LockingKeepsInv ==
  ASSUME IInv, NEW p \in Supervisors,
         Locking(p, Acquire(p)) \/ Locking(p, Heartbeat(p)) \/ Locking(p, Die(p))
  PROVE  IInv'
<1>1. Acquire(p) \/ Heartbeat(p) \/ Die(p)
  BY DEF Locking
<1>2. LockTypeOK' /\ LockIsExclusive'
  BY <1>1, AcquireKeepsLock, HeartbeatKeepsLock, ExitKeepsLock DEF IInv, TypeOK, Die
<1> QED
  BY <1>2, LockingKeepsRuns DEF IInv, TypeOK, RunInv

LEMMA NextKeepsInv ==
  ASSUME IInv, [Next]_vars
  PROVE  IInv'
<1>1. CASE Age /\ UNCHANGED runVars
  <2>1. LockTypeOK' /\ LockIsExclusive'
    BY <1>1, AgeKeepsLock DEF IInv, TypeOK
  <2> QED
    BY <1>1, <2>1 DEF Age, runVars, IInv, TypeOK, RunTypeOK, RunsAreOwned,
       RunningIsHeld, Holds
<1>2. CASE UNCHANGED vars
  BY <1>2 DEF vars, lockVars, runVars, IInv, TypeOK, LockTypeOK, LockIsExclusive,
     Takers, RunTypeOK, RunsAreOwned, RunningIsHeld, Holds
<1> QED
  BY <1>1, <1>2, LockingKeepsInv, RecoverKeepsInv, RunStepKeepsInv DEF Next

LEMMA InitHasInv ==
  ASSUME Init
  PROVE  IInv
<1>1. LockTypeOK /\ LockIsExclusive
  <2>1. lock \in [exists : BOOLEAN, owner : Supervisors \cup {Former, NoOwner},
                 fresh : BOOLEAN]
    <3>1. lock \in {Absent, Empty, RecordOf(Former)}
      BY DEF Init, LockInit
    <3>2. CASE lock = Absent
      BY <3>2 DEF Absent
    <3>3. CASE lock = Empty
      BY <3>3 DEF Empty
    <3>4. CASE lock = RecordOf(Former)
      BY <3>4 DEF RecordOf
    <3> QED
      BY <3>1, <3>2, <3>3, <3>4
  <2>2. 0 \in 0..MaxSlips
    BY OwnerLockAssumption
  <2> QED
    BY <2>1, <2>2 DEF Init, LockInit, LockTypeOK, LockIsExclusive, Takers
<1>2. RunTypeOK /\ RunsAreOwned /\ RunningIsHeld
  BY EmptySeq DEF Init, RunTypeOK, RunsAreOwned, RunningIsHeld, NoRun
<1> QED
  BY <1>1, <1>2 DEF IInv, TypeOK

-----------------------------------------------------------------------------
(* What holds of every start of the program *)

\* IInv holds of every reachable state.
LEMMA InvHolds == Spec => []IInv
<1>1. Init => IInv
  BY InitHasInv
<1>2. IInv /\ [Next]_vars => IInv'
  BY NextKeepsInv
<1> QED
  BY <1>1, <1>2, PTL DEF Spec

\* The lock file, the scheduler file and the processes keep to their types.
THEOREM RuntimeTypes == Spec => []TypeOK
<1>1. IInv => TypeOK
  BY DEF IInv
<1> QED
  BY <1>1, InvHolds, PTL

\* No worker runs in two processes, unless a live lock file was removed.
THEOREM WorkersRunOnce == Spec => []OneRunPerWorker
<1>1. IInv => OneRunPerWorker
  <2> SUFFICES ASSUME IInv, ~removedLive, NEW w \in Workers
               PROVE  Cardinality({p \in Supervisors : Holds(p, w)}) <= 1
    BY DEF OneRunPerWorker
  <2> DEFINE Holders == {p \in Supervisors : Holds(p, w)}
  <2>1. \A p, q \in Holders : p = q
    BY OneOwner DEF IInv, RunsAreOwned, Holds
  <2> HIDE DEF Holders
  <2>2. CASE Holders = {}
    BY <2>2, FS_EmptySet DEF Holders
  <2>3. CASE Holders # {}
    <3>1. PICK p : Holders = {p}
      BY <2>1, <2>3
    <3>2. Cardinality(Holders) = 1
      BY <3>1, FS_Singleton
    <3> QED
      BY <3>2 DEF Holders
  <2> QED
    BY <2>2, <2>3
<1> QED
  BY <1>1, InvHolds, PTL

\* A worker left RUNNING has one of the two named causes.
THEOREM BlockedWorkersHaveCause == Spec => []BlockedHasCause
<1>1. IInv => BlockedHasCause
  BY DEF IInv, RunningIsHeld, BlockedHasCause
<1> QED
  BY <1>1, InvHolds, PTL
=============================================================================
