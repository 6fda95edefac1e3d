--------------------------- MODULE MCActionQueue ---------------------------
(***************************************************************************)
(* Three actions on two wallets: 1 and 2 compete for a wallet, 2 having    *)
(* the earlier requestedAt; 3 is on the other wallet but on the position   *)
(* of 1, so that two workers meet at a position lock; 2 and 3 carry the    *)
(* same caller-supplied idempotency key.                                   *)
(***************************************************************************)
EXTENDS ActionQueue, TLC

CONSTANTS A, B, pos, w1, w2

MCWalletOf == (1 :> A) @@ (2 :> A) @@ (3 :> B)
MCPositionOf == (1 :> pos) @@ (2 :> NoPosition) @@ (3 :> pos)
MCKeyOf == (1 :> "k1") @@ (2 :> "k2") @@ (3 :> "k2")
MCRequestedAt == (1 :> 2) @@ (2 :> 1) @@ (3 :> 2)
=============================================================================
