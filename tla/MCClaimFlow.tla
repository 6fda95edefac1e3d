----------------------------- MODULE MCClaimFlow -----------------------------
(***************************************************************************)
(* One claim and everything that can follow it.  A second one would start  *)
(* where the first did: a claim is taken only when no write is active, and *)
(* its handler goes on only if the position is OPEN again.                 *)
(***************************************************************************)
EXTENDS ClaimFlow

CONSTANT c1
=============================================================================
