---------------------------- MODULE MCQueryCache ----------------------------
(* Small instances of QueryCache for TLC; clients are interchangeable.     *)
EXTENDS QueryCache, TLC

Symmetric == Permutations(Clients) \cup Permutations(Keys)
=============================================================================
