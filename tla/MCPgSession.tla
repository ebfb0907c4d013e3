---------------------------- MODULE MCPgSession -----------------------------
(* Small instances of PgSession for TLC; rows are interchangeable.         *)
EXTENDS PgSession, TLC

Symmetric == Permutations(Rows)
=============================================================================
