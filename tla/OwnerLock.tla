----------------------------- MODULE OwnerLock -----------------------------
(***************************************************************************)
(* The lock file <data dir>/meridian.lock by which one supervisor process  *)
(* keeps others away from a data directory (src/runtime/RuntimeOwnerLock). *)
(*                                                                         *)
(* A member of Supervisors is one start of the program: the owner id holds *)
(* the pid and the time, so a restarted program is a new supervisor.  The  *)
(* system calls of a start and of a heartbeat are separate steps.  A file  *)
(* that is created or truncated is empty until its writer writes, and a    *)
(* writer whose file was removed meanwhile writes to no file of the        *)
(* directory.  Ages are abstract: a record is fresh or older than          *)
(* staleAfterMs.                                                           *)
(***************************************************************************)
EXTENDS Naturals, FiniteSets

CONSTANTS Supervisors, \* starts of the program
          Former,      \* a supervisor that ran and ended before
          NoOwner,     \* the owner of a file that does not parse
          MaxSlips     \* bound on pauses and on failing system calls

ASSUME OwnerLockAssumption ==
  /\ {NoOwner, Former} \cap Supervisors = {}
  /\ NoOwner # Former
  /\ MaxSlips \in Nat

VARIABLES
  lock,       \* the lock file: does it exist, whose record, is it fresh
  handles,    \* supervisors that hold the present file open for writing
  pc,         \* where a start of the program stands
  beat,       \* where its heartbeat stands
  slips,      \* pauses and failures so far
  removedLive \* history: a starter removed the file although another process
              \* owned the directory or was writing its record

lockVars == <<lock, handles, pc, beat, slips, removedLive>>

Absent == [exists |-> FALSE, owner |-> NoOwner, fresh |-> FALSE]
Empty  == [exists |-> TRUE,  owner |-> NoOwner, fresh |-> FALSE]
RecordOf(p) == [exists |-> TRUE, owner |-> p, fresh |-> TRUE]

\* parseLockRecord gives null for an empty file and a missing one, and isFresh
\* is false of null.
IsFresh == lock.owner # NoOwner /\ lock.fresh

Alive  == {p \in Supervisors : pc[p] \notin {"new", "gone"}}
Owners == {p \in Supervisors : pc[p] = "owner"}

LockTypeOK ==
  /\ lock \in [exists : BOOLEAN, owner : Supervisors \cup {Former, NoOwner}, fresh : BOOLEAN]
  /\ handles \subseteq Supervisors
  /\ pc \in [Supervisors ->
               {"new", "read", "remove", "reopen", "write", "owner", "gone"}]
  /\ beat \in [Supervisors -> {"idle", "truncate", "write"}]
  /\ slips \in 0..MaxSlips
  /\ removedLive \in BOOLEAN

\* The directory is new, or the file of an earlier process is still there,
\* with its record or, had it ended while writing, without.
LockInit ==
  /\ lock \in {Absent, Empty, RecordOf(Former)}
  /\ handles = {}
  /\ pc = [p \in Supervisors |-> "new"]
  /\ beat = [p \in Supervisors |-> "idle"]
  /\ slips = 0
  /\ removedLive = FALSE

Goto(p, place) == pc' = [pc EXCEPT ![p] = place]
Beat(p, place) == beat' = [beat EXCEPT ![p] = place]

Slip == slips < MaxSlips /\ slips' = slips + 1

\* The process ends: the descriptors it holds are closed, the file stays.
Exit(p) ==
  /\ Goto(p, "gone")
  /\ Beat(p, "idle")
  /\ handles' = handles \ {p}

---------------------------------------------------------------------------
(* acquireRuntimeOwnerLock *)

Unexclusive == TRUE

\* open(path, "wx"): a file that exists is not opened.
Exclusive == ~lock.exists

OpenExclusive(p, otherwise) ==
  /\ IF Exclusive
       THEN lock' = Empty /\ handles' = {p} /\ Goto(p, "write")
       ELSE otherwise /\ UNCHANGED lock
  /\ UNCHANGED <<slips, removedLive>>

Open(p) ==
  /\ pc[p] = "new"
  /\ OpenExclusive(p, Goto(p, "read") /\ UNCHANGED handles)
  /\ UNCHANGED beat

\* A failing readFile counts as an empty file.
Read(p) ==
  /\ pc[p] = "read"
  /\ \/ IsFresh /\ Exit(p) /\ UNCHANGED slips
     \/ ~IsFresh /\ Goto(p, "remove") /\ UNCHANGED <<handles, beat, slips>>
     \/ Slip /\ Goto(p, "remove") /\ UNCHANGED <<handles, beat>>
  /\ UNCHANGED <<lock, removedLive>>

\* rm removes whatever file is there now, not the one that was read.
Remove(p) ==
  /\ pc[p] = "remove"
  /\ removedLive' = (removedLive \/ (lock.exists /\ Owners \cup handles # {}))
  /\ lock' = Absent
  /\ handles' = {}
  /\ Goto(p, "reopen")
  /\ UNCHANGED <<beat, slips>>

\* The second EEXIST is thrown: main() rejects and the process exits.
Reopen(p) ==
  /\ pc[p] = "reopen"
  /\ OpenExclusive(p, Exit(p))
  /\ (~lock.exists => UNCHANGED beat)

PutRecord(p) ==
  /\ lock' = IF p \in handles THEN RecordOf(p) ELSE lock
  /\ handles' = handles \ {p}

Write(p) ==
  /\ pc[p] = "write"
  /\ PutRecord(p)
  /\ Goto(p, "owner")
  /\ UNCHANGED <<beat, slips, removedLive>>

---------------------------------------------------------------------------
(* heartbeat, every ten seconds *)

NeverLost(p) == FALSE

Lost(p) == lock.owner # p

\* The check that the record is still its own; a record that is not, or that
\* cannot be read, makes runLive exit.
BeatRead(p) ==
  /\ pc[p] = "owner"
  /\ beat[p] = "idle"
  /\ ~Lost(p)
  /\ \/ Beat(p, "truncate") /\ UNCHANGED <<pc, handles, slips>>
     \/ Slip /\ Exit(p)
  /\ UNCHANGED <<lock, removedLive>>

BeatLost(p) ==
  /\ pc[p] = "owner"
  /\ beat[p] = "idle"
  /\ Lost(p)
  /\ Exit(p)
  /\ UNCHANGED <<lock, slips, removedLive>>

\* writeFile opens with "w": it truncates the file, or makes a new one.
BeatTruncate(p) ==
  /\ beat[p] = "truncate"
  /\ lock' = Empty
  /\ handles' = handles \cup {p}
  /\ Beat(p, "write")
  /\ UNCHANGED <<pc, slips, removedLive>>

\* A write that fails leaves the empty file; only a lost lock is acted upon.
BeatWrite(p) ==
  /\ beat[p] = "write"
  /\ \/ PutRecord(p) /\ UNCHANGED slips
     \/ Slip /\ handles' = handles \ {p} /\ UNCHANGED lock
  /\ Beat(p, "idle")
  /\ UNCHANGED <<pc, removedLive>>

\* staleAfterMs pass without a heartbeat: the owner is gone, or it was paused.
Age ==
  /\ IsFresh
  /\ lock' = [lock EXCEPT !.fresh = FALSE]
  /\ IF lock.owner \in Alive THEN Slip ELSE UNCHANGED slips
  /\ UNCHANGED <<handles, pc, beat, removedLive>>

\* A crash, SIGKILL, or SIGINT and SIGTERM: stop() starts release() and exits
\* before release's first system call returns, so the file stays.
Die(p) ==
  /\ p \in Alive
  /\ Exit(p)
  /\ UNCHANGED <<lock, slips, removedLive>>

---------------------------------------------------------------------------
Acquire(p) == Open(p) \/ Read(p) \/ Remove(p) \/ Reopen(p) \/ Write(p)
Heartbeat(p) == BeatRead(p) \/ BeatLost(p) \/ BeatTruncate(p) \/ BeatWrite(p)
=============================================================================
