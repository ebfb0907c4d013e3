---------------------------- MODULE MCSqlService ----------------------------
(* Small instances of SqlService for TLC.                                  *)
EXTENDS SqlService, TLC

CONSTANTS c1, c2

\* Each client has a type of its own for the first and for the second request.
TypeOfRequest(c, n) == IF c = c1 THEN n ELSE n + 2
AllTypes == {<<c, n, TypeOfRequest(c, n)>> : c \in Clients, n \in 1 .. MaxRequests}

Streamed == Clients \X (1 .. MaxRequests) \X {QUERY_STREAM}
Symmetric == Permutations(Clients)
=============================================================================
