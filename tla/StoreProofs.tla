----------------------------- MODULE StoreProofs -----------------------------
(***************************************************************************)
(* What the stores rest on.  First the promise-chain lock, which serves    *)
(* the requests for a file one at a time, then the renames, by which each  *)
(* request takes effect entirely or not at all.                            *)
(***************************************************************************)
EXTENDS KeyedLock, FileStore, FiniteSetTheorems, TLAPS

(***************************************************************************)
(* Part 1: the lock, for any number of calls and keys.                     *)
(***************************************************************************)

\* Before any call is made the chain invariant holds.
LEMMA InitChain == Init => ChainInv
  BY KeyOfType, NoCallIsNoCall
  DEF Init, ChainInv, TypeOK, TicketsAreDistinct, TailIsLast,
      PreviousIsPredecessor, SettledMeansDone, ServedInOrder, Precedes

\* Entering appends the call at the end of its key's chain.
LEMMA EnterChain ==
  ASSUME ChainInv, NEW c \in Calls, Enter(c)
  PROVE  ChainInv'
<1> USE DEF ChainInv
<1>0. KeyOf[c] \in Keys /\ tails[KeyOf[c]] \in Calls \cup {NoCall}
  BY KeyOfType DEF TypeOK
<1>1. TypeOK'
  BY <1>0 DEF TypeOK, Enter
<1>2. TicketsAreDistinct'
  BY DEF TypeOK, Enter, TicketsAreDistinct
<1>3. \A d, e \in Calls : Precedes(d, e)' /\ e # c => Precedes(d, e) /\ d # c
  BY DEF TypeOK, Enter, TicketsAreDistinct, Precedes
<1>4. \A d \in Calls : Precedes(d, c)' <=> d # c /\ KeyOf[d] = KeyOf[c] /\ ticket[d] > 0
  BY DEF TypeOK, Enter, TicketsAreDistinct, Precedes
<1>5. TailIsLast'
  BY <1>0, NoCallIsNoCall DEF TypeOK, Enter, TicketsAreDistinct, TailIsLast
<1>6. PreviousIsPredecessor'
  <2> SUFFICES ASSUME NEW e \in Calls, pc'[e] # "idle"
               PROVE  /\ previous'[e] = NoCall =>
                           \A d \in Calls : Precedes(d, e)' => pc'[d] = "done"
                      /\ previous'[e] # NoCall =>
                           /\ Precedes(previous[e], e)'
                           /\ \A d \in Calls :
                                Precedes(d, e)' => ticket'[d] <= ticket'[previous'[e]]
    BY DEF PreviousIsPredecessor
  <2>1. CASE e = c
    <3>1. previous'[c] = tails[KeyOf[c]] /\ pc[c] = "idle"
      BY DEF TypeOK, Enter
    <3>2. ASSUME tails[KeyOf[c]] = NoCall, NEW d \in Calls, Precedes(d, c)'
          PROVE  pc'[d] = "done"
      BY <1>4, <3>2 DEF TypeOK, Enter, TicketsAreDistinct, TailIsLast
    <3>3. ASSUME NEW p \in Calls, p = tails[KeyOf[c]], p # NoCall
          PROVE  /\ Precedes(p, c)'
                 /\ \A d \in Calls : Precedes(d, c)' => ticket'[d] <= ticket'[p]
      <4>2. KeyOf[p] = KeyOf[c] /\ pc[p] # "idle" /\ p # c
        BY <1>0, <3>1, <3>3 DEF TailIsLast
      <4>3. \A d \in Calls : KeyOf[d] = KeyOf[c] => ticket[d] <= ticket[p]
        BY <1>0, <3>3 DEF TailIsLast
      <4>4. \A d \in Calls : d # c => ticket'[d] = ticket[d]
        BY DEF TypeOK, Enter
      <4>5. Precedes(p, c)'
        BY <1>4, <4>2 DEF TypeOK, TicketsAreDistinct
      <4> QED BY <1>4, <4>2, <4>3, <4>4, <4>5
    <3> QED BY <1>0, <2>1, <3>1, <3>2, <3>3 DEF Precedes
  <2>2. CASE e # c
    BY <1>3, <2>2 DEF TypeOK, Enter, TicketsAreDistinct, PreviousIsPredecessor, Precedes
  <2> QED BY <2>1, <2>2
<1>7. SettledMeansDone'
  BY <1>3 DEF TypeOK, Enter, SettledMeansDone, DoneThrough
<1>8. ServedInOrder'
  BY <1>3 DEF TypeOK, Enter, ServedInOrder
<1> QED BY <1>1, <1>2, <1>5, <1>6, <1>7, <1>8

\* A call starts its work when the tail it awaited is settled, and that tail
\* vouches for every earlier call on the key.
LEMMA EarlierAreDone ==
  ASSUME ChainInv, NEW c \in Calls, pc[c] # "idle", PreviousSettled(c)
  PROVE  \A d \in Calls : Precedes(d, c) => pc[d] = "done"
<1> USE DEF ChainInv
<1>1. CASE previous[c] = NoCall
  BY <1>1 DEF PreviousIsPredecessor
<1>2. CASE previous[c] # NoCall
  <2> DEFINE p == previous[c]
  <2>1. p \in Calls /\ p \in settled /\ DoneThrough(p)
    BY <1>2 DEF TypeOK, PreviousSettled, SettledMeansDone
  <2>2. /\ Precedes(p, c)
        /\ \A d \in Calls : Precedes(d, c) => ticket[d] <= ticket[p]
    BY <1>2 DEF PreviousIsPredecessor
  <2>3. ASSUME NEW d \in Calls, Precedes(d, c) PROVE d = p \/ Precedes(d, p)
    BY <2>1, <2>2, <2>3 DEF TypeOK, TicketsAreDistinct, Precedes
  <2> QED BY <2>1, <2>3 DEF DoneThrough
<1> QED BY <1>1, <1>2

\* Starting the work keeps the chain.
LEMMA AdmitChain ==
  ASSUME ChainInv, NEW c \in Calls, Admit(c)
  PROVE  ChainInv'
<1> USE DEF ChainInv, Admit
<1>1. TypeOK' /\ TicketsAreDistinct'
  BY DEF TypeOK, TicketsAreDistinct
<1>2. \A d, e \in Calls : Precedes(d, e)' <=> Precedes(d, e)
  BY DEF Precedes
<1>3. \A d \in Calls : Precedes(d, c) => pc[d] = "done"
  BY EarlierAreDone
<1>4. \A d \in Calls : (pc'[d] = "done" <=> pc[d] = "done")
  BY DEF TypeOK
<1>5. TailIsLast'
  BY NoCallIsNoCall DEF TypeOK, TailIsLast
<1>6. PreviousIsPredecessor'
  BY <1>2, <1>4 DEF TypeOK, PreviousIsPredecessor, Precedes
<1>7. SettledMeansDone'
  BY <1>2, <1>4 DEF TypeOK, SettledMeansDone, DoneThrough
<1>8. ServedInOrder'
  BY <1>2, <1>3, <1>4 DEF TypeOK, ServedInOrder
<1> QED BY <1>1, <1>5, <1>6, <1>7, <1>8

\* Leaving may remove the map entry, but only when the chain ends with the
\* leaving call, and then every call of the key has finished.
LEMMA LeaveChain ==
  ASSUME ChainInv, NEW c \in Calls, Leave(c)
  PROVE  ChainInv'
<1> USE DEF ChainInv, Leave
<1>1. TypeOK' /\ TicketsAreDistinct'
  BY DEF TypeOK, TicketsAreDistinct
<1>2. \A d, e \in Calls : Precedes(d, e)' <=> Precedes(d, e)
  BY DEF Precedes
<1>3. \A d \in Calls : pc[d] = "done" => pc'[d] = "done"
  BY DEF TypeOK
<1>4. \A d \in Calls : Precedes(d, c) => pc[d] = "done"
  BY DEF ServedInOrder
<1>5. TailIsLast'
  <2>1. CASE tails[KeyOf[c]] = c
    <3>1. \A d \in Calls : KeyOf[d] = KeyOf[c] /\ d # c => pc[d] \in {"idle", "done"}
      <4>1. KeyOf[c] \in Keys /\ c # NoCall
        BY KeyOfType, NoCallIsNoCall
      <4>2. \A d \in Calls : KeyOf[d] = KeyOf[c] => ticket[d] <= ticket[c]
        BY <2>1, <4>1 DEF TailIsLast
      <4> QED BY <1>4, <4>2 DEF TypeOK, TicketsAreDistinct, Precedes
    <3> QED BY <2>1, <3>1, KeyOfType DEF TypeOK, TailIsLast
  <2>2. CASE tails[KeyOf[c]] # c
    BY <2>2, NoCallIsNoCall DEF TypeOK, TailIsLast
  <2> QED BY <2>1, <2>2
<1>6. PreviousIsPredecessor'
  BY <1>2, <1>3 DEF TypeOK, PreviousIsPredecessor, Precedes
<1>7. SettledMeansDone'
  BY <1>2, <1>3 DEF TypeOK, SettledMeansDone, DoneThrough
<1>8. ServedInOrder'
  BY <1>2, <1>3, <1>4 DEF TypeOK, ServedInOrder
<1> QED BY <1>1, <1>5, <1>6, <1>7, <1>8

\* A tail settles only after every call before it has finished.
LEMMA SettleChain ==
  ASSUME ChainInv, NEW c \in Calls, Settle(c)
  PROVE  ChainInv'
<1> USE DEF ChainInv, Settle
<1>1. \A d \in Calls : Precedes(d, c) => pc[d] = "done"
  BY EarlierAreDone
<1>2. TypeOK' /\ TicketsAreDistinct' /\ TailIsLast'
  BY DEF TypeOK, TicketsAreDistinct, TailIsLast
<1>3. PreviousIsPredecessor' /\ ServedInOrder'
  BY DEF PreviousIsPredecessor, ServedInOrder, Precedes
<1>4. SettledMeansDone'
  BY <1>1 DEF SettledMeansDone, DoneThrough, Precedes
<1> QED BY <1>2, <1>3, <1>4

\* Every step of the lock keeps the chain invariant.
LEMMA NextChain == ChainInv /\ [Next]_vars => ChainInv'
<1> SUFFICES ASSUME ChainInv, [Next]_vars PROVE ChainInv'
  OBVIOUS
<1>1. CASE Next
  BY <1>1, EnterChain, AdmitChain, LeaveChain, SettleChain DEF Next
<1>2. CASE UNCHANGED vars
  BY <1>2 DEF vars, ChainInv, TypeOK, TicketsAreDistinct, TailIsLast,
              PreviousIsPredecessor, SettledMeansDone, DoneThrough,
              ServedInOrder, Precedes
<1> QED BY <1>1, <1>2

\* The chain invariant holds for every number of calls and keys.
THEOREM ChainHolds == Spec => []ChainInv
  BY InitChain, NextChain, PTL DEF Spec

\* withLock never runs the work of two calls on one key together.
THEOREM LockIsExclusive == Spec => []MutualExclusion
<1>1. ChainInv => MutualExclusion
  <2> SUFFICES ASSUME ChainInv, NEW c \in Calls, NEW d \in Calls, c # d,
                      KeyOf[c] = KeyOf[d], pc[c] = "working", pc[d] = "working"
               PROVE  FALSE
    BY DEF MutualExclusion
  <2>1. Precedes(c, d) \/ Precedes(d, c)
    BY DEF ChainInv, TypeOK, TicketsAreDistinct, Precedes
  <2> QED BY <2>1 DEF ChainInv, ServedInOrder
<1> QED BY <1>1, ChainHolds, PTL

\* isLocked answers TRUE as long as a call holds or awaits the lock.
THEOREM LockIsVisible == Spec => []LockedWhileBusy
<1>1. ChainInv => LockedWhileBusy
  BY KeyOfType DEF ChainInv, TypeOK, TailIsLast, LockedWhileBusy
<1> QED BY <1>1, ChainHolds, PTL

\* Each step of the promise chain is a step of the ticket lock, so calls on
\* one key are served in the order in which they entered withLock: the part
\* of ImplementsFifoLock that is not liveness.
THEOREM ChainRefinesFifo == Spec => Abstract!SafeSpec
<1>1. Init => Abstract!Init
  BY DEF Init, Abstract!Init
<1>2. ChainInv /\ [Next]_vars => [Abstract!Next]_<<pc, ticket, arrivals>>
  <2> SUFFICES ASSUME ChainInv, [Next]_vars
               PROVE  [Abstract!Next]_<<pc, ticket, arrivals>>
    OBVIOUS
  <2>1. ASSUME NEW c \in Calls, Enter(c) PROVE Abstract!Ask(c)
    BY <2>1 DEF Enter, Abstract!Ask
  <2>2. ASSUME NEW c \in Calls, Admit(c) PROVE Abstract!Serve(c)
    BY <2>2, EarlierAreDone DEF Admit, Abstract!Serve, Abstract!Precedes, Precedes
  <2>3. ASSUME NEW c \in Calls, Leave(c) PROVE Abstract!Finish(c)
    BY <2>3 DEF Leave, Abstract!Finish
  <2>4. ASSUME NEW c \in Calls, Settle(c) PROVE UNCHANGED <<pc, ticket, arrivals>>
    BY <2>4 DEF Settle
  <2> QED BY <2>1, <2>2, <2>3, <2>4 DEF Next, Abstract!Next, vars
<1> QED BY <1>1, <1>2, ChainHolds, PTL DEF Spec, Abstract!SafeSpec, Abstract!vars

(***************************************************************************)
(* Part 2: the file, served one request at a time, while access() tells    *)
(* the truth.                                                              *)
(***************************************************************************)

Recovering == {"recover", "recoverTmp", "recoverBak"}
Replacing == {"dropBak", "setAside", "dropTmp", "promote", "install", "dropOld"}
Undoing == {"undoUnique", "undoTmp", "restore"}
Removing == {"removeFile", "removeTmp", "removeBak"}

Asked == request # NoRequest /\ request.op \in {"write", "update"}

FileTypeOK ==
  /\ disk \in [Names -> Contents \cup {Missing, Torn}]
  /\ call \in {"idle", "look", "stage", "throw", "return"}
                \cup Recovering \cup Replacing \cup Undoing \cup Removing
  /\ request \in Requests \cup {NoRequest}
  /\ looked \in BOOLEAN /\ moved \in BOOLEAN
  /\ faults \in Nat /\ crashes \in Nat /\ blind = 0

\* Each step belongs to requests that can take it.
Served ==
  /\ request = NoRequest <=> call = "idle"
  /\ call \in Recovering \cup {"throw"} => request.op # "remove"
  /\ call = "look" => request.op \in {"read", "update"}
  /\ call \in Replacing \cup Undoing \cup {"stage"} => Asked
  /\ call \in Removing => request.op = "remove"
  /\ call = "return" => request.op # "read"
  /\ looked => call # "idle" /\ request.op = "update"
  /\ moved => call \in Replacing \cup Undoing \cup {"throw", "return"}

\* Whatever bears one of the file's three names was asked for once.
NothingInvented ==
  /\ Missing \in offered /\ before \in offered /\ answer \in offered
  /\ \A n \in {"file", "tmp", "bak"} : disk[n] \in offered
  /\ Asked => request.contents \in offered

\* A .tmp beside the file is the remainder of two failures, and from the
\* cleanups of a recovery to the next .tmp it takes a third for one to be left.
StaleTmp ==
  /\ disk["file"] # Missing /\ disk["tmp"] # Missing => faults >= 2
  /\ call \in {"recoverBak", "look", "stage", "dropBak", "setAside", "dropTmp", "promote"}
       /\ disk["tmp"] # Missing => faults >= 3

\* The repair of the directory keeps what it stands for and leaves it in the
\* file itself.
Repaired ==
  /\ call \in Recovering \cup {"look", "stage"} => Settled(disk) = before
  /\ call \in {"recoverTmp", "recoverBak"} => disk["file"] # Missing
  /\ call \in {"look", "stage"} /\ disk["file"] = Missing =>
       disk["tmp"] = Missing /\ disk["bak"] = Missing

\* Until the new file is in its place the old one is under .bak, or there was
\* none.
Replaced ==
  /\ call \in {"dropBak", "setAside"} => disk["file"] = before /\ before # Missing
  /\ call \in {"dropTmp", "promote", "install"} =>
       disk["file"] = Missing /\ disk["bak"] = before
  /\ call \in {"dropBak", "setAside", "dropTmp", "promote"} =>
       disk["unique"] = request.contents
  /\ call = "install" => disk["tmp"] = request.contents
  /\ call = "dropOld" => disk["file"] = request.contents
  /\ call = "return" /\ Asked => disk["file"] = request.contents

\* In the catch block the old file is where it was or under .bak, and a .tmp
\* is the new one or older than three failures.
Undone ==
  /\ call \in Undoing => faults >= 1
  /\ call \in Undoing => \/ disk["file"] = before /\ before # Missing /\ ~moved
                         \/ disk["file"] = Missing /\ disk["bak"] = before
  /\ call \in Undoing /\ disk["tmp"] # Missing =>
       disk["tmp"] = request.contents \/ faults >= 3
  /\ call = "restore" => moved
  /\ call = "restore" /\ disk["tmp"] # Missing => faults >= 2
  /\ call = "throw" =>
       \/ Settled(disk) = before
       \/ faults >= 2 /\ Asked /\ Settled(disk) = request.contents
       \/ faults >= 3 /\ Asked

\* While no call has failed, what a removal has passed is gone.
Removed ==
  faults = 0 /\ call # "idle" /\ request.op = "remove" =>
    /\ call # "removeFile" => disk["file"] = Missing
    /\ call \notin {"removeFile", "removeTmp"} => disk["tmp"] = Missing
    /\ call = "return" => disk["bak"] = Missing

FileInv ==
  /\ FileTypeOK /\ Served /\ NothingInvented
  /\ StaleTmp /\ Repaired /\ Replaced /\ Undone /\ Removed

\* With access() telling the truth, exists() finds exactly what is there.
LEMMA SeesTruly ==
  ASSUME MaxBlind = 0, blind = 0, NEW s \in SUBSET Names, Sees(s)
  PROVE  blind' = 0 /\ \A n \in Names : n \in s <=> disk[n] # Missing
<1> DEFINE unseen == {n \in Names : disk[n] # Missing} \ s
<1>1. IsFiniteSet({"file"}) /\ IsFiniteSet({"tmp"}) /\ IsFiniteSet({"bak"})
        /\ IsFiniteSet({"unique"})
  BY FS_Singleton
<1>2. IsFiniteSet(({"file"} \cup {"tmp"}) \cup ({"bak"} \cup {"unique"}))
  <2>1. IsFiniteSet({"file"} \cup {"tmp"}) /\ IsFiniteSet({"bak"} \cup {"unique"})
    BY <1>1, FS_Union
  <2> QED BY <2>1, FS_Union
<1>3. IsFiniteSet(Names)
  <2>1. Names = ({"file"} \cup {"tmp"}) \cup ({"bak"} \cup {"unique"})
    BY DEF Names
  <2> QED BY <1>2, <2>1
<1>4. unseen \in SUBSET Names
  OBVIOUS
<1>5. IsFiniteSet(unseen)
  BY <1>3, <1>4, FS_Subset
<1>6. Cardinality(unseen) \in Nat /\ (Cardinality(unseen) = 0 <=> unseen = {})
  BY <1>5, FS_CardinalityType, FS_EmptySet
<1>7. blind' = Cardinality(unseen) /\ blind' <= 0
  BY <1>6 DEF Sees
<1>8. blind' = 0 /\ unseen = {}
  BY <1>6, <1>7
<1>9. s \subseteq {n \in Names : disk[n] # Missing}
  BY DEF Sees
<1> QED BY <1>8, <1>9

\* A step between two calls of one request is hidden from its caller.
LEMMA HiddenStep ==
  ASSUME call # "idle", call' # "idle", faults' \in {faults, faults + 1},
         UNCHANGED <<before, offered, request, answer, result>>
  PROVE  Atomic!Next
  BY DEF Atomic!Next, Value

\* A write, or an update that has called its updater, goes on to the
\* replacement; a read or an update that has not looks at the file.
LEMMA AfterRecoveryFits ==
  ASSUME FileInv, call \in Recovering
  PROVE  \/ AfterRecovery = "look" /\ request.op \in {"read", "update"}
         \/ AfterRecovery = "stage" /\ Asked
<1> USE DEF FileInv
<1>1. request # NoRequest /\ request.op \in {"write", "update", "read"}
  BY DEF FileTypeOK, Served, Requests, Recovering
<1>2. looked => request.op = "update"
  BY DEF Served
<1> QED BY <1>1, <1>2 DEF AfterRecovery, Asked

\* The two cleanups of a recovery that found the file: from here on it takes a
\* third failure for a .tmp to be left.
LEMMA RecoveryCleansUp ==
  ASSUME FileInv, RecoverTmp \/ RecoverBak
  PROVE  FileInv' /\ Atomic!Next
<1> USE DEF FileInv, FileTypeOK, Served, Names, Recovering, Replacing, Undoing,
    Removing, AfterRecovery, Asked, Settled
<1> USE DEF CleanUp, Without, Fault, NoFault, counters, GoOn
<1>1. CASE RecoverTmp
  <2>1. FileTypeOK' /\ Served'
    BY <1>1 DEF RecoverTmp
  <2>2. NothingInvented' /\ StaleTmp'
    BY <1>1 DEF NothingInvented, StaleTmp, Repaired, RecoverTmp
  <2>3. Repaired' /\ Replaced'
    BY <1>1 DEF Repaired, Replaced, RecoverTmp
  <2>4. Undone' /\ Removed'
    BY <1>1 DEF Undone, Removed, RecoverTmp
  <2>5. Atomic!Next
    BY <1>1, HiddenStep DEF RecoverTmp
  <2> QED BY <2>1, <2>2, <2>3, <2>4, <2>5
<1>2. CASE RecoverBak
  <2>1. FileTypeOK'
    BY <1>2 DEF RecoverBak
  <2>2. Served'
    BY <1>2, AfterRecoveryFits DEF RecoverBak
  <2>3. NothingInvented' /\ StaleTmp'
    BY <1>2 DEF NothingInvented, StaleTmp, RecoverBak
  <2>4. Repaired' /\ Replaced'
    BY <1>2 DEF Repaired, Replaced, RecoverBak
  <2>5. Undone' /\ Removed'
    BY <1>2 DEF Undone, Removed, RecoverBak
  <2>6. Atomic!Next
    BY <1>2, HiddenStep DEF RecoverBak
  <2> QED BY <2>1, <2>2, <2>3, <2>4, <2>5, <2>6
<1> QED BY <1>1, <1>2

\* The calls in the try block: until the new file is in its place the old one is
\* where it was or under .bak.
LEMMA ReplacementSteps ==
  ASSUME FileInv, DropBak \/ SetAside \/ DropTmp \/ Promote \/ Install \/ DropOld
  PROVE  FileInv' /\ Atomic!Next
<1> USE DEF FileInv, FileTypeOK, Served, Names, Recovering, Replacing, Undoing,
    Removing, Asked, Settled
<1> USE DEF CleanUp, Without, Fault, NoFault, counters, GoOn, Rename, Moved
<1>1. CASE DropBak
  <2>1. FileTypeOK' /\ Served'
    BY <1>1 DEF DropBak
  <2>2. NothingInvented' /\ StaleTmp'
    BY <1>1 DEF NothingInvented, StaleTmp, DropBak
  <2>3. Repaired' /\ Replaced'
    BY <1>1 DEF Repaired, Replaced, DropBak
  <2>4. Undone' /\ Removed'
    BY <1>1 DEF Undone, Removed, DropBak
  <2>5. Atomic!Next
    BY <1>1, HiddenStep DEF DropBak
  <2> QED BY <2>1, <2>2, <2>3, <2>4, <2>5
<1>2. CASE SetAside
  <2>1. FileTypeOK' /\ Served'
    BY <1>2 DEF SetAside
  <2>2. NothingInvented'
    BY <1>2 DEF NothingInvented, SetAside
  <2>3. StaleTmp'
    BY <1>2 DEF StaleTmp, SetAside
  <2>4. Repaired' /\ Replaced'
    BY <1>2 DEF Repaired, Replaced, SetAside
  <2>5. Undone'
    <3>1. CASE call' = "dropTmp"
      BY <3>1 DEF Undone
    <3>2. CASE faults' = faults + 1 /\ UNCHANGED disk /\ GoOn("undoUnique")
      <4>1. ~moved'
        BY <1>2, <3>2 DEF SetAside
      <4>2. faults' >= 1 /\ (disk["tmp"] # Missing => faults' >= 3)
        BY <1>2, <3>2 DEF StaleTmp, SetAside
      <4>3. disk["file"] = before /\ before # Missing
        BY <1>2 DEF Replaced, SetAside
      <4> QED BY <3>2, <4>1, <4>2, <4>3 DEF Undone
    <3> QED BY <1>2, <3>1, <3>2 DEF SetAside
  <2>6. Removed'
    BY <1>2 DEF Removed, SetAside
  <2>7. Atomic!Next
    BY <1>2, HiddenStep DEF SetAside
  <2> QED BY <2>1, <2>2, <2>3, <2>4, <2>5, <2>6, <2>7
<1>3. CASE DropTmp
  <2>1. FileTypeOK' /\ Served'
    BY <1>3 DEF DropTmp
  <2>2. NothingInvented' /\ StaleTmp'
    BY <1>3 DEF NothingInvented, StaleTmp, DropTmp
  <2>3. Repaired' /\ Replaced'
    BY <1>3 DEF Repaired, Replaced, DropTmp
  <2>4. Undone' /\ Removed'
    BY <1>3 DEF Undone, Removed, DropTmp
  <2>5. Atomic!Next
    BY <1>3, HiddenStep DEF DropTmp
  <2> QED BY <2>1, <2>2, <2>3, <2>4, <2>5
<1>4. CASE Promote
  <2>1. FileTypeOK' /\ Served'
    BY <1>4 DEF Promote
  <2>2. NothingInvented' /\ StaleTmp'
    BY <1>4 DEF NothingInvented, StaleTmp, Replaced, Promote
  <2>3. Repaired' /\ Replaced'
    BY <1>4 DEF Repaired, Replaced, Promote
  <2>4. Undone' /\ Removed'
    BY <1>4 DEF StaleTmp, Replaced, Undone, Removed, Promote
  <2>5. Atomic!Next
    BY <1>4, HiddenStep DEF Promote
  <2> QED BY <2>1, <2>2, <2>3, <2>4, <2>5
<1>5. CASE Install
  <2>1. FileTypeOK' /\ Served'
    BY <1>5 DEF Install
  <2>2. NothingInvented' /\ StaleTmp'
    BY <1>5 DEF NothingInvented, StaleTmp, Replaced, Install
  <2>3. Repaired' /\ Replaced'
    BY <1>5 DEF Repaired, Replaced, Install
  <2>4. Undone' /\ Removed'
    BY <1>5 DEF StaleTmp, Replaced, Undone, Removed, Install
  <2>5. Atomic!Next
    BY <1>5, HiddenStep DEF Install
  <2> QED BY <2>1, <2>2, <2>3, <2>4, <2>5
<1>6. CASE DropOld
  <2>1. FileTypeOK' /\ Served'
    BY <1>6 DEF DropOld
  <2>2. NothingInvented' /\ StaleTmp'
    BY <1>6 DEF NothingInvented, StaleTmp, DropOld
  <2>3. Repaired' /\ Replaced'
    BY <1>6 DEF Repaired, Replaced, DropOld
  <2>4. Undone' /\ Removed'
    BY <1>6 DEF Undone, Removed, DropOld
  <2>5. Atomic!Next
    BY <1>6, HiddenStep DEF DropOld
  <2> QED BY <2>1, <2>2, <2>3, <2>4, <2>5
<1> QED BY <1>1, <1>2, <1>3, <1>4, <1>5, <1>6

\* The cleanups of the catch block.
LEMMA UndoCleansUp ==
  ASSUME FileInv, UndoUnique \/ UndoTmp
  PROVE  FileInv' /\ Atomic!Next
<1> USE DEF FileInv, FileTypeOK, Served, Names, Recovering, Replacing, Undoing,
    Removing, Asked, Settled
<1> USE DEF CleanUp, Without, Fault, NoFault, counters, GoOn
<1>1. CASE UndoUnique
  <2>1. FileTypeOK' /\ Served'
    BY <1>1 DEF UndoUnique
  <2>2. NothingInvented' /\ StaleTmp'
    BY <1>1 DEF NothingInvented, StaleTmp, UndoUnique
  <2>3. Repaired' /\ Replaced'
    BY <1>1 DEF Repaired, Replaced, UndoUnique
  <2>4. Undone' /\ Removed'
    BY <1>1 DEF Undone, Removed, UndoUnique
  <2>5. Atomic!Next
    BY <1>1, HiddenStep DEF UndoUnique
  <2> QED BY <2>1, <2>2, <2>3, <2>4, <2>5
<1>2. CASE UndoTmp
  <2>1. FileTypeOK' /\ Served'
    BY <1>2 DEF UndoTmp
  <2>2. NothingInvented' /\ StaleTmp'
    BY <1>2 DEF NothingInvented, StaleTmp, UndoTmp
  <2>3. Repaired' /\ Replaced'
    BY <1>2 DEF Repaired, Replaced, UndoTmp
  <2>4. Undone' /\ Removed'
    BY <1>2 DEF Undone, Removed, UndoTmp
  <2>5. Atomic!Next
    BY <1>2, HiddenStep DEF UndoTmp
  <2> QED BY <2>1, <2>2, <2>3, <2>4, <2>5
<1> QED BY <1>1, <1>2

\* The three calls of a removal.
LEMMA RemovalSteps ==
  ASSUME FileInv, RemoveFile \/ RemoveTmp \/ RemoveBak
  PROVE  FileInv' /\ Atomic!Next
<1> USE DEF FileInv, FileTypeOK, Served, Names, Recovering, Replacing, Undoing,
    Removing, Asked, Settled
<1> USE DEF Remove, CleanUp, Without, Fault, NoFault, counters, GoOn
<1>1. CASE RemoveFile
  <2>1. FileTypeOK' /\ Served'
    BY <1>1 DEF RemoveFile
  <2>2. NothingInvented' /\ StaleTmp'
    BY <1>1 DEF NothingInvented, StaleTmp, RemoveFile
  <2>3. Repaired' /\ Replaced'
    BY <1>1 DEF Repaired, Replaced, RemoveFile
  <2>4. Undone' /\ Removed'
    BY <1>1 DEF Undone, Removed, RemoveFile
  <2>5. Atomic!Next
    BY <1>1, HiddenStep DEF RemoveFile
  <2> QED BY <2>1, <2>2, <2>3, <2>4, <2>5
<1>2. CASE RemoveTmp
  <2>1. FileTypeOK' /\ Served'
    BY <1>2 DEF RemoveTmp
  <2>2. NothingInvented' /\ StaleTmp'
    BY <1>2 DEF NothingInvented, StaleTmp, RemoveTmp
  <2>3. Repaired' /\ Replaced'
    BY <1>2 DEF Repaired, Replaced, RemoveTmp
  <2>4. Undone' /\ Removed'
    BY <1>2 DEF Undone, Removed, RemoveTmp
  <2>5. Atomic!Next
    BY <1>2, HiddenStep DEF RemoveTmp
  <2> QED BY <2>1, <2>2, <2>3, <2>4, <2>5
<1>3. CASE RemoveBak
  <2>1. FileTypeOK' /\ Served'
    BY <1>3 DEF RemoveBak
  <2>2. NothingInvented' /\ StaleTmp'
    BY <1>3 DEF NothingInvented, StaleTmp, RemoveBak
  <2>3. Repaired' /\ Replaced'
    BY <1>3 DEF Repaired, Replaced, RemoveBak
  <2>4. Undone' /\ Removed'
    BY <1>3 DEF Undone, Removed, RemoveBak
  <2>5. Atomic!Next
    BY <1>3, HiddenStep DEF RemoveBak
  <2> QED BY <2>1, <2>2, <2>3, <2>4, <2>5
<1> QED BY <1>1, <1>2, <1>3

\* A request begins: what the directory stands for is its file's old contents.
LEMMA BeginStep ==
  ASSUME FileInv, NEW r \in Requests, Begin(r)
  PROVE  FileInv' /\ Atomic!Next
<1> USE MarksAreApart DEF Requests, FileInv, FileTypeOK, Served, Names, Recovering, Replacing,
    Undoing, Removing, Asked, Settled, counters
<1>1. FileTypeOK' /\ Served'
  BY DEF Begin
<1>2. NothingInvented' /\ StaleTmp'
  BY DEF NothingInvented, StaleTmp, Begin
<1>3. Repaired' /\ Replaced'
  BY DEF Repaired, Replaced, Begin
<1>4. Undone' /\ Removed'
  BY DEF Undone, Removed, Begin
<1>5. Atomic!Next
  <2>1. Atomic!Begin(r)
    BY DEF Begin, Value, Atomic!Begin
  <2> QED BY <2>1 DEF Begin, Atomic!Next, Atomic!Requests
<1> QED BY <1>1, <1>2, <1>3, <1>4, <1>5

\* An error is reported: nothing has changed, or two calls have failed.
LEMMA ThrowStep ==
  ASSUME FileInv, Throw
  PROVE  FileInv' /\ Atomic!Next
<1> USE DEF FileInv, FileTypeOK, Served, Names, Recovering, Replacing, Undoing,
    Removing, Asked, Settled, End, counters
<1>1. FileTypeOK' /\ Served'
  BY DEF Throw
<1>2. NothingInvented' /\ StaleTmp'
  BY DEF NothingInvented, StaleTmp, Throw
<1>3. Repaired' /\ Replaced'
  BY DEF Repaired, Replaced, Throw
<1>4. Undone' /\ Removed'
  BY DEF Undone, Removed, Throw
<1>5. Atomic!Next
  <2>1. Atomic!Fail
    BY DEF NothingInvented, Undone, Throw, Value, Atomic!Fail, Atomic!Writes, Atomic!End
  <2> QED BY <2>1 DEF Throw, Atomic!Next
<1> QED BY <1>1, <1>2, <1>3, <1>4, <1>5

\* Success is reported: the file is what was asked for.
LEMMA ReturnStep ==
  ASSUME FileInv, Return
  PROVE  FileInv' /\ Atomic!Next
<1> USE DEF FileInv, FileTypeOK, Served, Names, Recovering, Replacing, Undoing,
    Removing, Asked, Settled, End, counters
<1>1. FileTypeOK' /\ Served'
  BY DEF Return
<1>2. NothingInvented' /\ StaleTmp'
  BY DEF NothingInvented, StaleTmp, Return
<1>3. Repaired' /\ Replaced'
  BY DEF Repaired, Replaced, Return
<1>4. Undone' /\ Removed'
  BY DEF Undone, Removed, Return
<1>5. Atomic!Next
  <2> SUFFICES Atomic!Succeed
    BY DEF Return, Atomic!Next
  <2>1. Atomic!End("ok") /\ UNCHANGED <<offered, answer, disk, faults>>
    BY DEF Return, Atomic!End
  <2>2. request # NoRequest /\ (request.op = "remove" \/ Asked)
    BY DEF Requests, Return
  <2>3. Value' = Settled(disk)
    BY <2>1 DEF Return, Value
  <2>4. CASE request.op = "remove"
    <3>1. Settled(disk) \in IF faults = 0 THEN {Missing} ELSE offered
      BY <2>4 DEF NothingInvented, Removed, Return
    <3> QED BY <2>1, <2>2, <2>3, <2>4, <3>1 DEF Atomic!Succeed, Atomic!Writes
  <2>5. CASE Asked
    <3>1. Settled(disk) = request.contents
      BY <2>5, MarksAreApart DEF Replaced, Requests, Return
    <3> QED BY <2>1, <2>2, <2>3, <2>5, <3>1 DEF Atomic!Succeed, Atomic!Writes
  <2> QED BY <2>2, <2>4, <2>5
<1> QED BY <1>1, <1>2, <1>3, <1>4, <1>5

\* The process dies: the directory stands for the old contents or the new ones.
LEMMA CrashStep ==
  ASSUME FileInv, Crash
  PROVE  FileInv' /\ Atomic!Next
<1> USE DEF FileInv, FileTypeOK, Served, Names, Recovering, Replacing, Undoing,
    Removing, Asked, Settled, End
<1>1. FileTypeOK'
  <2>1. disk' \in [Names -> Contents \cup {Missing, Torn}]
    BY DEF Crash
  <2>2. crashes' \in Nat /\ faults' \in Nat /\ blind' = 0
    BY DEF Crash
  <2> QED BY <2>1, <2>2 DEF Crash
<1>2. Served'
  BY DEF Crash
<1>3. NothingInvented' /\ StaleTmp'
  BY DEF NothingInvented, StaleTmp, Crash
<1>4. Repaired' /\ Replaced'
  BY DEF Repaired, Replaced, Crash
<1>5. Undone' /\ Removed'
  BY DEF Undone, Removed, Crash
<1>6. Atomic!Next
  <2>1. Atomic!End("none") /\ UNCHANGED <<offered, answer, faults>>
    BY DEF Crash, Atomic!End
  <2>2. Value' = Settled(disk) /\ Value = before /\ request # NoRequest
    BY DEF Crash, Value
  <2>3. Settled(disk) \in offered
    BY DEF NothingInvented
  <2>4. request.op # "remove" =>
          \/ Settled(disk) = before
          \/ Asked /\ Settled(disk) = request.contents
          \/ Asked /\ faults >= 3
    BY MarksAreApart
    DEF StaleTmp, Repaired, Replaced, Undone, Requests, Crash
  <2>5. Atomic!Crash
    BY <2>1, <2>2, <2>3, <2>4 DEF Atomic!Crash, Atomic!Writes
  <2> QED BY <2>5 DEF Crash, Atomic!Next
<1> QED BY <1>1, <1>2, <1>3, <1>4, <1>5, <1>6

\* The recovery puts the file in its place, and what the directory stands for stays.
LEMMA RecoverStep ==
  ASSUME MaxBlind = 0, FileInv, Recover
  PROVE  FileInv' /\ Atomic!Next
<1>1. PICK s \in SUBSET Names :
        /\ Sees(s)
        /\ \/ /\ "file" \in s
              /\ GoOn("recoverTmp") /\ UNCHANGED <<disk, faults>>
           \/ /\ "file" \notin s /\ s \cap {"tmp", "bak"} = {}
              /\ GoOn(AfterRecovery) /\ UNCHANGED <<disk, faults>>
           \/ \E n \in {"tmp", "bak"} :
                /\ "file" \notin s
                /\ n \in s /\ (n = "bak" => "tmp" \notin s)
                /\ disk' = Moved(disk, n, "file")
                /\ GoOn(IF n = "tmp" THEN "recoverBak" ELSE AfterRecovery)
                /\ UNCHANGED faults
           \/ /\ faults' = faults + 1 /\ UNCHANGED disk
              /\ GoOn("throw")
  BY DEF Recover
<1>2. blind' = 0 /\ \A n \in Names : n \in s <=> disk[n] # Missing
  BY <1>1, SeesTruly DEF FileInv, FileTypeOK
<1>3. /\ blind' = 0 /\ call = "recover"
     /\ UNCHANGED <<request, looked, result, before, offered, answer, moved, crashes>>
     /\ \/ /\ disk["file"] # Missing
           /\ call' = "recoverTmp" /\ UNCHANGED <<disk, faults>>
        \/ /\ disk["file"] = Missing /\ disk["tmp"] = Missing /\ disk["bak"] = Missing
           /\ call' = AfterRecovery /\ UNCHANGED <<disk, faults>>
        \/ /\ disk["file"] = Missing /\ disk["tmp"] # Missing
           /\ disk' = Moved(disk, "tmp", "file")
           /\ call' = "recoverBak" /\ UNCHANGED faults
        \/ /\ disk["file"] = Missing /\ disk["tmp"] = Missing /\ disk["bak"] # Missing
           /\ disk' = Moved(disk, "bak", "file")
           /\ call' = AfterRecovery /\ UNCHANGED faults
        \/ call' = "throw" /\ faults' = faults + 1 /\ UNCHANGED disk
  BY <1>1, <1>2 DEF Recover, GoOn, Names
<1> USE DEF FileInv, FileTypeOK, Served, Names, Recovering, Replacing, Undoing,
    Removing, Asked, Settled, AfterRecovery, Moved
<1>4. FileTypeOK'
  BY <1>3
<1>5. Served'
  BY <1>3, AfterRecoveryFits
<1>6. NothingInvented' /\ StaleTmp'
  BY <1>3 DEF NothingInvented, StaleTmp
<1>7. Repaired' /\ Replaced'
  BY <1>3 DEF Repaired, Replaced
<1>8. Undone' /\ Removed'
  BY <1>3 DEF Repaired, Undone, Removed
<1>9. Atomic!Next
  BY <1>3, HiddenStep
<1> QED BY <1>4, <1>5, <1>6, <1>7, <1>8, <1>9

\* The reader is given the contents of the file, and so is the updater.
LEMMA LookStep ==
  ASSUME MaxBlind = 0, FileInv, Look
  PROVE  FileInv' /\ Atomic!Next
<1>1. PICK s \in SUBSET Names :
        /\ Sees(s)
        /\ \/ /\ answer' = IF "file" \in s THEN disk["file"] ELSE Missing
              /\ IF request.op = "read" THEN End("ok")
                 ELSE /\ call' = "recover" /\ looked' = TRUE
                      /\ UNCHANGED <<request, moved, result, before, offered>>
              /\ UNCHANGED <<faults, crashes>>
           \/ /\ faults' = faults + 1 /\ End("error")
              /\ UNCHANGED <<answer, crashes>>
  BY DEF Look
<1>2. blind' = 0 /\ ("file" \in s <=> disk["file"] # Missing)
  BY <1>1, SeesTruly DEF FileInv, FileTypeOK, Names
<1>3. /\ blind' = 0 /\ call = "look"
     /\ UNCHANGED <<disk, before, offered, crashes>>
     /\ \/ /\ answer' = disk["file"] /\ UNCHANGED faults
           /\ request.op = "read" /\ End("ok")
        \/ /\ answer' = disk["file"] /\ UNCHANGED faults
           /\ request.op # "read" /\ call' = "recover" /\ looked' = TRUE
           /\ UNCHANGED <<request, moved, result>>
        \/ faults' = faults + 1 /\ UNCHANGED answer /\ End("error")
  BY <1>1, <1>2 DEF Look, End
<1> USE DEF FileInv, FileTypeOK, Served, Names, Recovering, Replacing, Undoing,
    Removing, Asked, Settled
<1>4. FileTypeOK'
  <2>1. looked' \in BOOLEAN /\ moved' \in BOOLEAN
    BY <1>3 DEF End
  <2>2. faults' \in Nat /\ call' \in {"idle", "recover"} /\ request' \in {request, NoRequest}
    BY <1>3 DEF End
  <2> QED BY <1>3, <2>1, <2>2
<1>5. Served'
  BY <1>3 DEF End
<1>6. NothingInvented' /\ StaleTmp'
  BY <1>3 DEF NothingInvented, StaleTmp, End
<1>7. Repaired' /\ Replaced'
  BY <1>3 DEF Repaired, Replaced, End
<1>8. Undone' /\ Removed'
  BY <1>3 DEF Undone, Removed, End
<1>9. Atomic!Next
  <2>1. answer' = disk["file"] => answer' = before
    BY <1>3 DEF Repaired
  <2>2. Settled(disk) = before
    BY <1>3 DEF Repaired
  <2>3. CASE call' = "recover"
    <3>1. Atomic!Look
      BY <1>3, <2>1, <2>3 DEF End, Value, Atomic!Look
    <3> QED BY <1>3, <2>3, <3>1 DEF End, Atomic!Next
  <2>4. CASE answer' = disk["file"] /\ End("ok") /\ request.op = "read" /\ UNCHANGED faults
    <3>1. Atomic!Succeed
      BY <1>3, <2>1, <2>2, <2>4
      DEF End, Value, Atomic!Succeed, Atomic!Writes, Atomic!End
    <3> QED BY <2>4, <3>1 DEF Atomic!Next
  <2>5. CASE faults' = faults + 1 /\ UNCHANGED answer /\ End("error")
    <3>1. Atomic!Fail
      BY <1>3, <2>2, <2>5 DEF End, Value, Atomic!Fail, Atomic!End
    <3> QED BY <2>5, <3>1 DEF Atomic!Next
  <2> QED BY <1>3, <2>3, <2>4, <2>5
<1> QED BY <1>4, <1>5, <1>6, <1>7, <1>8, <1>9

\* The new contents are written under their own name.
LEMMA StageStep ==
  ASSUME MaxBlind = 0, FileInv, Stage
  PROVE  FileInv' /\ Atomic!Next
<1>1. PICK s \in SUBSET Names :
        /\ Sees(s)
        /\ \/ /\ disk' = [disk EXCEPT !["unique"] = request.contents]
              /\ GoOn(IF "file" \in s THEN "dropBak" ELSE "dropTmp")
              /\ UNCHANGED <<moved, faults>>
           \/ /\ disk' = [disk EXCEPT !["unique"] = Torn]
              /\ faults' = faults + 1 /\ End("error")
  BY DEF Stage
<1>2. blind' = 0 /\ ("file" \in s <=> disk["file"] # Missing)
  BY <1>1, SeesTruly DEF FileInv, FileTypeOK, Names
<1>3. /\ blind' = 0 /\ call = "stage"
     /\ UNCHANGED <<answer, before, offered, crashes>>
     /\ \/ /\ disk' = [disk EXCEPT !["unique"] = request.contents]
           /\ call' = IF disk["file"] # Missing THEN "dropBak" ELSE "dropTmp"
           /\ UNCHANGED <<request, looked, result, moved, faults>>
        \/ /\ disk' = [disk EXCEPT !["unique"] = Torn]
           /\ faults' = faults + 1 /\ End("error")
  BY <1>1, <1>2 DEF Stage, GoOn, End
<1> USE DEF FileInv, FileTypeOK, Served, Names, Recovering, Replacing, Undoing,
    Removing, Asked, Settled
<1>4. FileTypeOK'
  <2>1. disk' \in [Names -> Contents \cup {Missing, Torn}]
    <3>1. request.contents \in Contents
      BY <1>3 DEF Requests
    <3> QED BY <1>3, <3>1
  <2>2. looked' \in BOOLEAN /\ moved' \in BOOLEAN
    BY <1>3 DEF End
  <2>3. faults' \in Nat /\ call' \in {"idle", "dropBak", "dropTmp"}
          /\ request' \in {request, NoRequest}
    BY <1>3 DEF End
  <2> QED BY <1>3, <2>1, <2>2, <2>3
<1>5. Served'
  BY <1>3 DEF End
<1>6. NothingInvented' /\ StaleTmp'
  BY <1>3 DEF NothingInvented, StaleTmp, End
<1>7. Repaired' /\ Replaced'
  BY <1>3 DEF NothingInvented, Repaired, Replaced, End
<1>8. Undone' /\ Removed'
  BY <1>3 DEF Undone, Removed, End
<1>9. Atomic!Next
  <2>1. CASE call' # "idle"
    BY <1>3, <2>1, HiddenStep DEF End
  <2>2. CASE call' = "idle"
    <3>1. faults' = faults + 1 /\ End("error") /\ Settled(disk') = before
      BY <1>3, <2>2 DEF Repaired
    <3>2. Atomic!Fail
      BY <1>3, <3>1 DEF End, Value, Atomic!Fail, Atomic!End
    <3> QED BY <3>1, <3>2 DEF Atomic!Next
  <2> QED BY <2>1, <2>2
<1> QED BY <1>4, <1>5, <1>6, <1>7, <1>8, <1>9

\* The restoration of the backup, or the error that it swallows.
LEMMA RestoreStep ==
  ASSUME MaxBlind = 0, FileInv, Restore
  PROVE  FileInv' /\ Atomic!Next
<1>1. PICK s \in SUBSET Names :
        /\ Sees(s)
        /\ \/ "bak" \in s /\ disk' = Moved(disk, "bak", "file") /\ UNCHANGED faults
           \/ "bak" \in s /\ faults' = faults + 1 /\ UNCHANGED disk
           \/ "bak" \notin s /\ UNCHANGED <<disk, faults>>
  BY DEF Restore
<1>2. blind' = 0 /\ ("bak" \in s <=> disk["bak"] # Missing)
  BY <1>1, SeesTruly DEF FileInv, FileTypeOK, Names
<1>3. /\ blind' = 0 /\ call = "restore" /\ call' = "throw"
     /\ UNCHANGED <<request, looked, result, before, offered, answer, moved, crashes>>
     /\ \/ /\ disk["bak"] # Missing /\ UNCHANGED faults
           /\ disk' = Moved(disk, "bak", "file")
        \/ disk["bak"] # Missing /\ faults' = faults + 1 /\ UNCHANGED disk
        \/ disk["bak"] = Missing /\ UNCHANGED <<disk, faults>>
  BY <1>1, <1>2 DEF Restore, GoOn
<1> USE DEF FileInv, FileTypeOK, Served, Names, Recovering, Replacing, Undoing,
    Removing, Asked, Settled, Moved
<1>4. FileTypeOK' /\ Served'
  BY <1>3
<1>5. NothingInvented' /\ StaleTmp'
  BY <1>3 DEF NothingInvented, StaleTmp, Undone
<1>6. Repaired' /\ Replaced'
  BY <1>3 DEF Repaired, Replaced
<1>7. Undone' /\ Removed'
  BY <1>3 DEF Undone, Removed
<1>8. Atomic!Next
  BY <1>3, HiddenStep
<1> QED BY <1>4, <1>5, <1>6, <1>7, <1>8

\* Every step keeps the invariant and is a step of the atomic file or hidden.
LEMMA FileStep ==
  ASSUME MaxBlind = 0, FileInv, [FileNext]_fileVars
  PROVE  FileInv' /\ [Atomic!Next]_(Atomic!vars)
<1>1. CASE FileNext
  BY <1>1, BeginStep, RecoverStep, RecoveryCleansUp, ThrowStep, LookStep, StageStep,
     ReplacementSteps, ReturnStep, UndoCleansUp, RestoreStep, RemovalSteps, CrashStep
  DEF FileNext
<1>2. CASE UNCHANGED fileVars
  <2>1. FileInv'
    BY <1>2 DEF fileVars, counters, FileInv, FileTypeOK, Served, NothingInvented, StaleTmp,
                Repaired, Replaced, Undone, Removed, Asked, Settled
  <2>2. UNCHANGED Atomic!vars
    BY <1>2 DEF fileVars, counters, Value, Settled, Atomic!vars
  <2> QED BY <2>1, <2>2
<1> QED BY <1>1, <1>2

\* An empty directory stands for a file that does not exist.
LEMMA FileInitStep == FileInit => FileInv /\ Atomic!Init
<1> SUFFICES ASSUME FileInit PROVE FileInv /\ Atomic!Init
  OBVIOUS
<1>1. FileInv
  BY MarksAreApart
  DEF FileInit, FileInv, FileTypeOK, Served, NothingInvented, StaleTmp, Repaired, Replaced,
      Undone, Removed, Asked, Settled, Names, Recovering, Replacing, Undoing, Removing
<1>2. Atomic!Init
  BY DEF FileInit, Value, Settled, Names, Atomic!Init
<1> QED BY <1>1, <1>2

\* For any contents, failing calls and crashes, as long as access() tells the
\* truth, the directory can always be told what it stands for.
THEOREM FileIsConsistent ==
  ASSUME MaxBlind = 0
  PROVE  FileSpec => []FileInv
<1>1. FileInv /\ [FileNext]_fileVars => FileInv'
  BY FileStep
<1> QED BY <1>1, FileInitStep, PTL DEF FileSpec

\* The renames of FileStore implement the atomic file: every request takes
\* effect entirely or not at all across failing calls and crashes, with the
\* exceptions AtomicFile names, for any contents, failing calls and crashes.
THEOREM FileIsAtomic ==
  ASSUME MaxBlind = 0
  PROVE  FileSpec => ImplementsAtomicFile
<1>1. FileInv /\ [FileNext]_fileVars => [Atomic!Next]_(Atomic!vars)
  BY FileStep
<1> QED BY <1>1, FileInitStep, FileIsConsistent, PTL
        DEF FileSpec, ImplementsAtomicFile, Atomic!Spec

\* A recovery never replaces a file that exists, while access() tells the
\* truth.
THEOREM RecoveryKeepsTheFile ==
  ASSUME MaxBlind = 0
  PROVE  FileSpec => RecoveryOnlyWhenMissing
<1>1. ASSUME FileInv, [FileNext]_fileVars, call = "recover", disk["file"] # Missing
      PROVE  disk'["file"] = disk["file"]
  <2>1. CASE UNCHANGED fileVars
    BY <2>1 DEF fileVars
  <2>2. CASE Recover
    <3>1. PICK s \in SUBSET Names : Sees(s) /\ ("file" \in s => UNCHANGED disk)
      BY <2>2 DEF Recover
    <3>2. "file" \in s
      BY <1>1, <3>1, SeesTruly DEF FileInv, FileTypeOK, Names
    <3> QED BY <3>1, <3>2
  <2>3. CASE Crash
    BY <1>1, <2>3 DEF Crash
  <2>4. Recover \/ Crash \/ UNCHANGED fileVars
    BY <1>1 DEF FileNext, Begin, RecoverTmp, RecoverBak, Throw, Look, Stage, DropBak, SetAside,
                DropTmp, Promote, Install, DropOld, Return, UndoUnique, UndoTmp, Restore,
                RemoveFile, RemoveTmp, RemoveBak, Remove
  <2> QED BY <2>1, <2>2, <2>3, <2>4
<1>2. FileInv /\ [FileNext]_fileVars =>
        [call = "recover" /\ disk["file"] # Missing => disk'["file"] = disk["file"]]_fileVars
  BY <1>1
<1>3. RecoveryOnlyWhenMissing <=>
        [][call = "recover" /\ disk["file"] # Missing => disk'["file"] = disk["file"]]_fileVars
  BY PTL DEF RecoveryOnlyWhenMissing
<1> QED BY <1>2, <1>3, FileIsConsistent, PTL DEF FileSpec
=============================================================================
