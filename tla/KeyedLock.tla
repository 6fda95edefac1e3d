----------------------------- MODULE KeyedLock -----------------------------
(***************************************************************************)
(* src/infra/locks/KeyedLock.ts: a mutex per string key, built from a      *)
(* chain of promises.  WalletLock, PositionLock and the per-path lock of   *)
(* FileStore are all instances of this class.                              *)
(*                                                                         *)
(* Each call of withLock appends a promise, its tail, to the chain of its  *)
(* key and waits for the tail it found there.  JavaScript runs one task at *)
(* a time, so the code between two awaits is one action; the reactions of  *)
(* promises (a tail settling, an await resuming) are steps of their own.   *)
(***************************************************************************)
EXTENDS Naturals

CONSTANTS
  Calls,     \* the calls of withLock that will ever be made
  Keys,      \* the lock's keys (wallets, positions, file paths)
  KeyOf,     \* KeyOf[c]: the key call c locks
  NoCall     \* stands for a promise that is already resolved, and for a
             \* missing entry of the map

ASSUME KeyOfType == KeyOf \in [Calls -> Keys]
ASSUME NoCallIsNoCall == NoCall \notin Calls

VARIABLES
  tails,     \* tails[k]: the call whose tail is in the map under k, or NoCall
  previous,  \* previous[c]: the call whose tail c awaits
  settled,   \* the calls whose tail promise is resolved
  pc,        \* pc[c]: "idle", "waiting" at the await, "working", "done"
  ticket,    \* observer: the order in which calls entered withLock
  arrivals   \* observer: how many have entered

vars == <<tails, previous, settled, pc, ticket, arrivals>>

Init ==
  /\ tails = [k \in Keys |-> NoCall]
  /\ previous = [c \in Calls |-> NoCall]
  /\ settled = {}
  /\ pc = [c \in Calls |-> "idle"]
  /\ ticket = [c \in Calls |-> 0]
  /\ arrivals = 0

PreviousSettled(c) == previous[c] = NoCall \/ previous[c] \in settled

\* Mutant: the promise is created but never stored.
EnterUnseen(c) ==
  /\ pc[c] = "idle"
  /\ previous' = [previous EXCEPT ![c] = tails[KeyOf[c]]]
  /\ pc' = [pc EXCEPT ![c] = "waiting"]
  /\ arrivals' = arrivals + 1
  /\ ticket' = [ticket EXCEPT ![c] = arrivals + 1]
  /\ UNCHANGED <<tails, settled>>

\* withLock up to its await: read the key's tail, chain behind it, replace it.
Enter(c) ==
  /\ pc[c] = "idle"
  /\ previous' = [previous EXCEPT ![c] = tails[KeyOf[c]]]
  /\ tails' = [tails EXCEPT ![KeyOf[c]] = c]
  /\ pc' = [pc EXCEPT ![c] = "waiting"]
  /\ arrivals' = arrivals + 1
  /\ ticket' = [ticket EXCEPT ![c] = arrivals + 1]
  /\ UNCHANGED settled

\* `await previous` resumes and work() starts.
Admit(c) ==
  /\ pc[c] = "waiting"
  /\ PreviousSettled(c)
  /\ pc' = [pc EXCEPT ![c] = "working"]
  /\ UNCHANGED <<tails, previous, settled, ticket, arrivals>>

\* Mutant: the map entry is removed whoever owns it.
LeaveAndDelete(c) ==
  /\ pc[c] = "working"
  /\ pc' = [pc EXCEPT ![c] = "done"]
  /\ tails' = [tails EXCEPT ![KeyOf[c]] = NoCall]
  /\ UNCHANGED <<previous, settled, ticket, arrivals>>

\* work() has returned or thrown: the finally block releases the call's own
\* promise and removes the map entry if no later call has replaced it.
Leave(c) ==
  /\ pc[c] = "working"
  /\ pc' = [pc EXCEPT ![c] = "done"]
  /\ tails' = IF tails[KeyOf[c]] = c
              THEN [tails EXCEPT ![KeyOf[c]] = NoCall] ELSE tails
  /\ UNCHANGED <<previous, settled, ticket, arrivals>>

\* Mutant: the release stands inside the `if` that removes the map entry.
SettleIfLast(c) ==
  /\ c \notin settled
  /\ pc[c] = "done"
  /\ PreviousSettled(c)
  /\ \A d \in Calls : previous[d] # c
  /\ settled' = settled \cup {c}
  /\ UNCHANGED <<tails, previous, pc, ticket, arrivals>>

\* previous.then(() => current) resolves once both promises have.
Settle(c) ==
  /\ c \notin settled
  /\ pc[c] = "done"
  /\ PreviousSettled(c)
  /\ settled' = settled \cup {c}
  /\ UNCHANGED <<tails, previous, pc, ticket, arrivals>>

Next == \E c \in Calls : Enter(c) \/ Admit(c) \/ Leave(c) \/ Settle(c)

\* The event loop runs every pending reaction, and work() always settles.
Fairness ==
  \A c \in Calls : WF_vars(Admit(c)) /\ WF_vars(Leave(c)) /\ WF_vars(Settle(c))

Spec == Init /\ [][Next]_vars /\ Fairness

-----------------------------------------------------------------------------

TypeOK ==
  /\ tails \in [Keys -> Calls \cup {NoCall}]
  /\ previous \in [Calls -> Calls \cup {NoCall}]
  /\ settled \subseteq Calls
  /\ pc \in [Calls -> {"idle", "waiting", "working", "done"}]
  /\ ticket \in [Calls -> Nat]
  /\ arrivals \in Nat

\* Two calls that lock the same key never have their work in progress
\* together, although the lock holds no flag, only a chain of promises that
\* callers extend while others are leaving.
MutualExclusion ==
  \A c, d \in Calls :
    c # d /\ KeyOf[c] = KeyOf[d] => ~(pc[c] = "working" /\ pc[d] = "working")

\* isLocked(k) answers from the map alone: as long as some call holds or
\* awaits the lock, the entry must be there, so the deletion in the finally
\* block may never remove the tail of a later call.
LockedWhileBusy ==
  \A c \in Calls : pc[c] \in {"waiting", "working"} => tails[KeyOf[c]] # NoCall

\* The promise chain implements the ticket lock its callers assume: calls are
\* served in the order they asked, and no release is lost between the read of
\* the map and the await, so every call that asks is served.
Abstract == INSTANCE FifoLock
ImplementsFifoLock == Abstract!Spec

-----------------------------------------------------------------------------

\* Call c precedes d: same key, and c entered first.
Precedes(c, d) ==
  KeyOf[c] = KeyOf[d] /\ 0 < ticket[c] /\ ticket[c] < ticket[d]

\* All the calls on c's key up to c have finished.
DoneThrough(c) ==
  pc[c] = "done" /\ \A d \in Calls : Precedes(d, c) => pc[d] = "done"

\* The inductive invariant.  Tickets number the calls; the map holds the last
\* call of a key or the key is quiet; a call awaits its direct predecessor,
\* or there is nothing unfinished before it; a settled tail vouches for the
\* whole chain behind it.
TicketsAreDistinct ==
  /\ \A c \in Calls : ticket[c] <= arrivals /\ (ticket[c] = 0 <=> pc[c] = "idle")
  /\ \A c, d \in Calls : ticket[c] = ticket[d] /\ ticket[c] # 0 => c = d

TailIsLast ==
  /\ \A d \in Calls : tails[KeyOf[d]] = NoCall => pc[d] \in {"idle", "done"}
  /\ \A k \in Keys : tails[k] # NoCall => KeyOf[tails[k]] = k /\ pc[tails[k]] # "idle"
  /\ \A k \in Keys, d \in Calls :
       tails[k] # NoCall /\ KeyOf[d] = k => ticket[d] <= ticket[tails[k]]

PreviousIsPredecessor ==
  /\ \A c, d \in Calls :
       pc[c] # "idle" /\ previous[c] = NoCall /\ Precedes(d, c) => pc[d] = "done"
  /\ \A c \in Calls :
       pc[c] # "idle" /\ previous[c] # NoCall => Precedes(previous[c], c)
  /\ \A c, d \in Calls :
       pc[c] # "idle" /\ previous[c] # NoCall /\ Precedes(d, c)
         => ticket[d] <= ticket[previous[c]]

SettledMeansDone == \A c \in settled : DoneThrough(c)

ServedInOrder ==
  \A c, d \in Calls : Precedes(c, d) /\ pc[d] \in {"working", "done"} => pc[c] = "done"

ChainInv ==
  TypeOK /\ TicketsAreDistinct /\ TailIsLast /\ PreviousIsPredecessor
         /\ SettledMeansDone /\ ServedInOrder
=============================================================================
