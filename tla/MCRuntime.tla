----------------------------- MODULE MCRuntime -----------------------------
(* Two starts of the program over what an earlier one left, one worker. *)
EXTENDS Runtime

MCOrder == <<"screening">>
=============================================================================
