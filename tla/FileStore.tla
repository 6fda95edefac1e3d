----------------------------- MODULE FileStore -----------------------------
(***************************************************************************)
(* src/adapters/storage/FileStore.ts: how one file is read, replaced and   *)
(* removed, one file-system call at a time, with calls that fail and a     *)
(* process that may die between any two of them.                           *)
(*                                                                         *)
(* The per-path lock (module KeyedLock) serves one request at a time, so   *)
(* there is one request in this module.  Replacing a file goes over three  *)
(* names: the contents are written under a unique name, the old file is    *)
(* renamed to .bak, the new one to .tmp and then to its place; a later     *)
(* request repairs what a crash left.  Calls are the file system's: they   *)
(* have their effect or fail, and the loss of power is not modelled.       *)
(***************************************************************************)
EXTENDS Naturals, FiniteSets

CONSTANTS
  Contents,      \* what callers write
  Missing,       \* there is no such file
  Torn,          \* what a failed or interrupted writeFile leaves
  NoRequest,
  MaxFaults,     \* bound: failing calls
  MaxBlind,      \* bound: access() calls that fail on a file that exists
  MaxCrashes     \* bound: crashes of the process

Names == {"file", "tmp", "bak", "unique"}
Requests == [op : {"write", "update", "read", "remove"}, contents : Contents]

ASSUME MarksAreApart == Contents \cap {Missing, Torn} = {} /\ NoRequest \notin Requests
ASSUME BoundsAreNatural == MaxFaults \in Nat /\ MaxBlind \in Nat /\ MaxCrashes \in Nat

VARIABLES
  (* the directory *)
  disk,      \* disk[n]: the contents under each name
  (* the request *)
  call,      \* the next call it makes, "idle" when there is none
  request,
  answer,    \* what was read for the caller or its updater
  looked,    \* an update has called its updater
  moved,     \* originalMoved
  (* observers *)
  result,    \* how the last request ended
  before,    \* the file's contents when the request began
  offered,   \* Missing, and whatever was asked to be written
  faults, blind, crashes

counters == <<faults, blind, crashes>>
fileVars == <<disk, call, request, answer, looked, moved, result,
              before, offered, counters>>

\* The contents the directory stands for: what recovery would settle on.
Settled(d) ==
  IF d["file"] # Missing THEN d["file"]
  ELSE IF d["tmp"] # Missing THEN d["tmp"] ELSE d["bak"]

FileInit ==
  /\ disk = [n \in Names |-> Missing]
  /\ call = "idle" /\ request = NoRequest /\ answer = Missing
  /\ looked = FALSE /\ moved = FALSE
  /\ result = "none" /\ before = Missing /\ offered = {Missing}
  /\ faults = 0 /\ blind = 0 /\ crashes = 0

-----------------------------------------------------------------------------
(* File-system calls *)

Fault == faults < MaxFaults /\ faults' = faults + 1 /\ UNCHANGED <<blind, crashes>>
NoFault == UNCHANGED counters

Moved(d, from, to) == [d EXCEPT ![to] = d[from], ![from] = Missing]
Without(d, n) == [d EXCEPT ![n] = Missing]

\* exists() answers FALSE for whatever error access() reports: s are the
\* names it finds, and each one it misses is a failing access().
Sees(s) ==
  LET present == {n \in Names : disk[n] # Missing} IN
  /\ s \subseteq present
  /\ blind' = blind + Cardinality(present \ s)
  /\ blind' <= MaxBlind

\* safeCleanup: a failing rm is ignored.
CleanUp(n) ==
  \/ NoFault /\ disk' = Without(disk, n)
  \/ Fault /\ UNCHANGED disk

\* The request ends, and its caller is answered.
End(r) ==
  /\ call' = "idle" /\ request' = NoRequest
  /\ looked' = FALSE /\ moved' = FALSE
  /\ result' = r
  /\ UNCHANGED <<before, offered>>

GoOn(next) ==
  call' = next /\ UNCHANGED <<request, looked, result, before, offered>>

-----------------------------------------------------------------------------
(* The request and its repair of the directory *)

Begin(r) ==
  /\ call = "idle"
  /\ request' = r
  /\ call' = IF r.op = "remove" THEN "removeFile" ELSE "recover"
  /\ before' = Settled(disk)
  /\ answer' = Missing
  /\ result' = "none"
  /\ offered' = IF r.op \in {"write", "update"} THEN offered \cup {r.contents} ELSE offered
  /\ UNCHANGED <<disk, looked, moved, counters>>

\* What follows recoverAtomicArtifacts: a read or an update looks at the
\* file; a write, or an update that has called its updater, replaces it.
AfterRecovery ==
  IF request.op = "write" \/ looked THEN "stage" ELSE "look"

\* recoverAtomicArtifacts: without the file, .tmp takes its place, or else
\* .bak; with it, both are stale.
Recover ==
  /\ call = "recover"
  /\ \E s \in SUBSET Names :
       /\ Sees(s)
       /\ \/ /\ "file" \in s
             /\ GoOn("recoverTmp")
             /\ UNCHANGED <<disk, faults>>
          \/ /\ "file" \notin s /\ s \cap {"tmp", "bak"} = {}
             /\ GoOn(AfterRecovery)
             /\ UNCHANGED <<disk, faults>>
          \/ \E n \in {"tmp", "bak"} :
               /\ "file" \notin s
               /\ n \in s /\ (n = "bak" => "tmp" \notin s)
               /\ disk' = Moved(disk, n, "file")
               /\ GoOn(IF n = "tmp" THEN "recoverBak" ELSE AfterRecovery)
               /\ UNCHANGED faults
          \/ \* that rename fails, or the mkdir with which a write begins
             /\ \/ "file" \notin s /\ s \cap {"tmp", "bak"} # {}
                \/ AfterRecovery = "stage"
             /\ faults < MaxFaults /\ faults' = faults + 1
             /\ UNCHANGED disk
             /\ GoOn("throw")
  /\ UNCHANGED <<answer, moved, crashes>>

\* Removing what is not there has no effect, so the two cleanups need no test.
RecoverTmp ==
  /\ call = "recoverTmp"
  /\ CleanUp("tmp")
  /\ GoOn("recoverBak")
  /\ UNCHANGED <<answer, moved>>

RecoverBak ==
  /\ call = "recoverBak"
  /\ CleanUp("bak")
  /\ GoOn(AfterRecovery)
  /\ UNCHANGED <<answer, moved>>

Throw ==
  /\ call = "throw"
  /\ UNCHANGED <<disk, answer, counters>>
  /\ End("error")

\* exists() and readFile: the reader is answered, the updater computes.
Look ==
  /\ call = "look"
  /\ UNCHANGED disk
  /\ \E s \in SUBSET Names :
       /\ Sees(s)
       /\ \/ /\ answer' = IF "file" \in s THEN disk["file"] ELSE Missing
             /\ IF request.op = "read" THEN End("ok")
                ELSE /\ call' = "recover" /\ looked' = TRUE
                     /\ UNCHANGED <<request, moved, result, before, offered>>
             /\ UNCHANGED <<faults, crashes>>
          \/ /\ "file" \in s
             /\ faults < MaxFaults /\ faults' = faults + 1
             /\ End("error")
             /\ UNCHANGED <<answer, crashes>>

-----------------------------------------------------------------------------
(* writeTextAtomicUnlocked, after its recovery *)

\* The unique file is written; an error here is outside the try block.
Stage ==
  /\ call = "stage"
  /\ UNCHANGED <<answer, crashes>>
  /\ \E s \in SUBSET Names :
       /\ Sees(s)
       /\ \/ /\ disk' = [disk EXCEPT !["unique"] = request.contents]
             /\ GoOn(IF "file" \in s THEN "dropBak" ELSE "dropTmp")
             /\ UNCHANGED moved
             /\ UNCHANGED faults
          \/ /\ faults < MaxFaults /\ faults' = faults + 1
             /\ disk' = [disk EXCEPT !["unique"] = Torn]
             /\ End("error")

DropBak ==
  /\ call = "dropBak"
  /\ CleanUp("bak")
  /\ GoOn("setAside")
  /\ UNCHANGED <<answer, moved>>

\* A rename inside the try block: it moves the file, or the catch block runs.
Rename(from, to, next) ==
  \/ NoFault /\ disk' = Moved(disk, from, to) /\ GoOn(next)
  \/ Fault /\ UNCHANGED disk /\ GoOn("undoUnique")

SetAside ==
  /\ call = "setAside"
  /\ Rename("file", "bak", "dropTmp")
  /\ moved' = (call' = "dropTmp")
  /\ UNCHANGED answer

DropTmp ==
  /\ call = "dropTmp"
  /\ CleanUp("tmp")
  /\ GoOn("promote")
  /\ UNCHANGED <<answer, moved>>

Promote ==
  /\ call = "promote"
  /\ Rename("unique", "tmp", "install")
  /\ UNCHANGED <<answer, moved>>

Install ==
  /\ call = "install"
  /\ Rename("tmp", "file", IF moved THEN "dropOld" ELSE "return")
  /\ UNCHANGED <<answer, moved>>

DropOld ==
  /\ call = "dropOld"
  /\ CleanUp("bak")
  /\ GoOn("return")
  /\ UNCHANGED <<answer, moved>>

Return ==
  /\ call = "return"
  /\ UNCHANGED <<disk, answer, counters>>
  /\ End("ok")

\* The catch block: both new files go, and the original comes back if it was
\* moved and its backup is seen; an error of the restoration is swallowed.
UndoUnique ==
  /\ call = "undoUnique"
  /\ CleanUp("unique")
  /\ GoOn("undoTmp")
  /\ UNCHANGED <<answer, moved>>

\* Mutant: only the unique name is cleaned up.
UndoNoTmp ==
  /\ call = "undoTmp"
  /\ GoOn(IF moved THEN "restore" ELSE "throw")
  /\ UNCHANGED <<disk, answer, moved, counters>>

UndoTmp ==
  /\ call = "undoTmp"
  /\ CleanUp("tmp")
  /\ GoOn(IF moved THEN "restore" ELSE "throw")
  /\ UNCHANGED <<answer, moved>>

Restore ==
  /\ call = "restore"
  /\ \E s \in SUBSET Names :
       /\ Sees(s)
       /\ \/ "bak" \in s /\ disk' = Moved(disk, "bak", "file") /\ UNCHANGED faults
          \/ "bak" \in s /\ faults < MaxFaults /\ faults' = faults + 1 /\ UNCHANGED disk
          \/ "bak" \notin s /\ UNCHANGED <<disk, faults>>
  /\ GoOn("throw")
  /\ UNCHANGED <<answer, moved, crashes>>

-----------------------------------------------------------------------------
(* remove, and the crash *)

\* remove: three cleanups in this order, with no recovery before them.
Remove(step, n, next) ==
  /\ call = step
  /\ CleanUp(n)
  /\ GoOn(next)
  /\ UNCHANGED <<answer, moved>>

RemoveFile == Remove("removeFile", "file", "removeTmp")
RemoveTmp == Remove("removeTmp", "tmp", "removeBak")
RemoveBak == Remove("removeBak", "bak", "return")

\* The directory is left as it is; a unique file may be torn.
Crash ==
  /\ call # "idle"
  /\ crashes < MaxCrashes /\ crashes' = crashes + 1
  /\ disk' = IF call = "stage" THEN [disk EXCEPT !["unique"] = Torn] ELSE disk
  /\ End("none")
  /\ UNCHANGED <<answer, faults, blind>>

FileNext ==
  \/ \E r \in Requests : Begin(r)
  \/ Recover \/ RecoverTmp \/ RecoverBak \/ Throw \/ Look
  \/ Stage \/ DropBak \/ SetAside \/ DropTmp \/ Promote \/ Install \/ DropOld
  \/ Return \/ UndoUnique \/ UndoTmp \/ Restore
  \/ RemoveFile \/ RemoveTmp \/ RemoveBak \/ Crash

FileSpec == FileInit /\ [][FileNext]_fileVars

-----------------------------------------------------------------------------

\* While a request is served the file still has its old contents.
Value == IF call = "idle" THEN Settled(disk) ELSE before

\* Crashes between any two calls, and failing calls, are invisible: every
\* request takes effect entirely or not at all, what is read is what was last
\* written, and a reported error means no effect.  The last is so until two
\* calls have failed: when the installation and the cleanup behind it both
\* fail, the error is reported and the .tmp that stays is installed once the
\* file is missing.  A third failure, of the cleanup that would remove such a
\* .tmp later, lets it be installed in place of what was written since.
Atomic == INSTANCE AtomicFile WITH value <- Value
ImplementsAtomicFile == Atomic!Spec

\* Recovery puts a backup or a temporary file in the file's place only when
\* the file is missing.  So it does while access() tells the truth
\* (MaxBlind = 0); one access() that fails on a file that exists is enough to
\* violate it.
RecoveryOnlyWhenMissing ==
  [][call = "recover" /\ disk["file"] # Missing => disk'["file"] = disk["file"]]_fileVars
=============================================================================
