---------------------------- MODULE MCFileStore ----------------------------
(***************************************************************************)
(* One file and three contents: enough for an old, a new and a stale       *)
(* version to be told apart.                                               *)
(***************************************************************************)
EXTENDS FileStore, TLC

CONSTANTS v1, v2, v3

ContentsSymmetry == Permutations(Contents)
=============================================================================
