--------------------------- MODULE MCPositionFlow ---------------------------
(***************************************************************************)
(* The deploy and two closes: the second is asked for after the first has  *)
(* timed out and the position was restored.                                *)
(***************************************************************************)
EXTENDS PositionFlow

CONSTANTS c1, c2
=============================================================================
