-------------------------- MODULE MCMeteoraGateway --------------------------
(***************************************************************************)
(* A deploy and one more operation, each transaction with one retry.       *)
(***************************************************************************)
EXTENDS MeteoraGateway
=============================================================================
