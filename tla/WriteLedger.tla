---------------------------- MODULE WriteLedger ----------------------------
(***************************************************************************)
(* What the action queue promises to the rest of the runtime, whatever its *)
(* workers, locks, storage faults and restarts do: a request with a given  *)
(* idempotency key is recorded at most once, a wallet has at most one      *)
(* write in flight, and a write that was settled is never taken up again.  *)
(***************************************************************************)
EXTENDS Naturals

CONSTANTS Actions, WalletOf, KeyOf

VARIABLE phase   \* phase[a]: "unknown", "pending", "inFlight" or "settled"

Init == phase = [a \in Actions |-> "unknown"]

\* A request is recorded unless one with the same key already is.
Record(a) ==
  /\ phase[a] = "unknown"
  /\ \A b \in Actions : phase[b] # "unknown" => KeyOf[b] # KeyOf[a]
  /\ phase' = [phase EXCEPT ![a] = "pending"]

\* A pending write starts when its wallet has none in flight.
Start(a) ==
  /\ phase[a] = "pending"
  /\ \A b \in Actions : phase[b] = "inFlight" => WalletOf[b] # WalletOf[a]
  /\ phase' = [phase EXCEPT ![a] = "inFlight"]

\* A write in flight that could not be recorded as submitted is taken back.
TakeBack(a) ==
  /\ phase[a] = "inFlight"
  /\ phase' = [phase EXCEPT ![a] = "pending"]

Conclude(a) ==
  /\ phase[a] = "inFlight"
  /\ phase' = [phase EXCEPT ![a] = "settled"]

Next == \E a \in Actions : Record(a) \/ Start(a) \/ TakeBack(a) \/ Conclude(a)

Spec == Init /\ [][Next]_phase
=============================================================================
