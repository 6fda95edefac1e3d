----------------------------- MODULE Relocation -----------------------------
(***************************************************************************)
(* What the rebalances of a position promise of its capital: it is         *)
(* released before it is sent on, and sent on once, to one successor.      *)
(* Rebalances that fail half-way leave it in the wallet.                   *)
(***************************************************************************)
EXTENDS Naturals

CONSTANT Successors

VARIABLES released,   \* the old position has given the capital back
          sent        \* sent[s]: how often it was sent to successor s

Init == released = FALSE /\ sent = [s \in Successors |-> 0]

Release ==
  /\ ~released /\ released' = TRUE
  /\ UNCHANGED sent

SendOn(s) ==
  /\ released /\ \A t \in Successors : sent[t] = 0
  /\ sent' = [sent EXCEPT ![s] = 1]
  /\ UNCHANGED released

Next == Release \/ \E s \in Successors : SendOn(s)

Spec == Init /\ [][Next]_<<released, sent>>
=============================================================================
