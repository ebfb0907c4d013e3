-------------------------- MODULE MCStatementCache --------------------------
(* Small instances of StatementCache for TLC.                              *)
EXTENDS StatementCache, TLC

Symmetric == Permutations(Threads) \cup Permutations(Sqls)
=============================================================================
