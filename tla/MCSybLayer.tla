----------------------------- MODULE MCSybLayer -----------------------------
(* A small instance of SybLayer for TLC.                                   *)
EXTENDS SybLayer, TLC

Symmetric == Permutations(Rows)
=============================================================================
