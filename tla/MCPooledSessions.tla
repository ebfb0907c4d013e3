-------------------------- MODULE MCPooledSessions --------------------------
(* A small instance of PooledSessions for TLC.                             *)
EXTENDS PooledSessions, TLC

Symmetric == Permutations(Threads) \cup Permutations(Conns)
=============================================================================
