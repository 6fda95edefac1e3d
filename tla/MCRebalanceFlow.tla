--------------------------- MODULE MCRebalanceFlow ---------------------------
(***************************************************************************)
(* Two rebalances of one position: the second is asked for while the first *)
(* is queued, or after it has failed or timed out.                         *)
(***************************************************************************)
EXTENDS RebalanceFlow

CONSTANTS r1, r2
=============================================================================
