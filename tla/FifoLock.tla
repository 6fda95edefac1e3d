------------------------------ MODULE FifoLock ------------------------------
(***************************************************************************)
(* What callers of KeyedLock rely on: per key, calls are served one at a   *)
(* time, in the order in which they asked.  A call takes a ticket when it  *)
(* asks and may start its work once every call on its key with a smaller   *)
(* ticket has finished.                                                    *)
(***************************************************************************)
EXTENDS Naturals

CONSTANTS Calls, Keys, KeyOf

VARIABLES
  pc,        \* pc[c]: "idle", "waiting", "working" or "done"
  ticket,    \* ticket[c]: position of c in the order of asking, 0 before it asks
  arrivals   \* number of tickets handed out

vars == <<pc, ticket, arrivals>>

\* Call c precedes d: same key, and c asked first.
Precedes(c, d) ==
  KeyOf[c] = KeyOf[d] /\ 0 < ticket[c] /\ ticket[c] < ticket[d]

Init ==
  /\ pc = [c \in Calls |-> "idle"]
  /\ ticket = [c \in Calls |-> 0]
  /\ arrivals = 0

Ask(c) ==
  /\ pc[c] = "idle"
  /\ arrivals' = arrivals + 1
  /\ ticket' = [ticket EXCEPT ![c] = arrivals + 1]
  /\ pc' = [pc EXCEPT ![c] = "waiting"]

Serve(c) ==
  /\ pc[c] = "waiting"
  /\ \A d \in Calls : Precedes(d, c) => pc[d] = "done"
  /\ pc' = [pc EXCEPT ![c] = "working"]
  /\ UNCHANGED <<ticket, arrivals>>

Finish(c) ==
  /\ pc[c] = "working"
  /\ pc' = [pc EXCEPT ![c] = "done"]
  /\ UNCHANGED <<ticket, arrivals>>

Next == \E c \in Calls : Ask(c) \/ Serve(c) \/ Finish(c)

SafeSpec == Init /\ [][Next]_vars

Spec ==
  /\ SafeSpec
  /\ \A c \in Calls : WF_vars(Serve(c)) /\ WF_vars(Finish(c))
=============================================================================
