---------------------------- MODULE MCKeyedLock ----------------------------
(***************************************************************************)
(* Four calls on two keys: three contend for one key, which is enough for  *)
(* a call to leave while a second waits and a third arrives.               *)
(***************************************************************************)
EXTENDS KeyedLock, TLC

CONSTANTS c1, c2, c3, c4, k1, k2

MCCalls == {c1, c2, c3, c4}
MCKeys == {k1, k2}
MCKeyOf == (c1 :> k1) @@ (c2 :> k1) @@ (c3 :> k1) @@ (c4 :> k2)
=============================================================================
