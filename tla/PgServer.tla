------------------------------ MODULE PgServer ------------------------------
(***************************************************************************)
(* One PostgreSQL session as libpq shows it to the code in src/pg: what a  *)
(* statement does on the server and the status PQexec reports for it.      *)
(* External to the repository.  A statement is executed and answered; or   *)
(* refused; or the connection is lost before the server has executed it,   *)
(* or after, while the answer is under way.  A lost connection ends the    *)
(* session, which rolls its transaction back.                              *)
(***************************************************************************)
CONSTANT Rows       \* the rows the program inserts, each one once

VARIABLES
    alive,      \* the connection is up
    status,     \* transaction status: "idle", "open" or "aborted"
    store,      \* committed rows
    pending     \* rows inserted by the open transaction

server == <<alive, status, store, pending>>

Replies == {"commandOk", "error"}       \* of statements that return no rows

ServerTypeOK ==
    /\ alive \in BOOLEAN
    /\ status \in {"idle", "open", "aborted"}
    /\ store \in SUBSET Rows
    /\ pending \in SUBSET Rows

ServerInit == alive = TRUE /\ status = "idle" /\ store = {} /\ pending = {}

SessionIs(a, s, p) == alive' = a /\ status' = s /\ pending' = p

\* No answer: the statement was not executed.
Unheard(reply) ==
    /\ reply = "error"
    /\ SessionIs(FALSE, "idle", {})
    /\ UNCHANGED store

\* BEGIN; inside a transaction it only warns, in a failed one it is refused.
ExecBegin(reply) ==
    \/ Unheard(reply)
    \/ alive /\ status = "aborted" /\ reply = "error" /\ UNCHANGED server
    \/ /\ alive /\ status # "aborted" /\ reply = "commandOk"
       /\ SessionIs(TRUE, "open", pending)
       /\ UNCHANGED store

\* A statement the server refuses; it dooms the transaction it is part of.
Refused(reply) ==
    /\ alive /\ reply = "error"
    /\ IF status = "idle" THEN UNCHANGED server
       ELSE SessionIs(TRUE, "aborted", {}) /\ UNCHANGED store

\* INSERT: outside a transaction it commits by itself, answered or not.
ExecInsert(r, reply) ==
    \/ Unheard(reply)
    \/ Refused(reply)
    \/ /\ alive /\ status = "idle"
       /\ store' = store \cup {r}
       /\ \/ reply = "commandOk" /\ SessionIs(TRUE, "idle", {})
          \/ reply = "error" /\ SessionIs(FALSE, "idle", {})
    \/ /\ alive /\ status = "open" /\ reply = "commandOk"
       /\ SessionIs(TRUE, "open", pending \cup {r})
       /\ UNCHANGED store

\* SELECT.
ExecSelect(reply) ==
    \/ Unheard(reply)
    \/ Refused(reply)
    \/ alive /\ status # "aborted" /\ reply = "tuplesOk" /\ UNCHANGED server

\* COMMIT: a doomed transaction is rolled back, with success; without a
\* transaction it only warns; a deferred constraint may refuse it.
ExecCommit(reply) ==
    \/ Unheard(reply)
    \/ /\ alive /\ status # "open" /\ reply = "commandOk"
       /\ SessionIs(TRUE, "idle", {})
       /\ UNCHANGED store
    \/ /\ alive /\ status = "open" /\ reply = "error"
       /\ SessionIs(TRUE, "idle", {})
       /\ UNCHANGED store
    \/ /\ alive /\ status = "open"
       /\ store' = store \cup pending
       /\ \/ reply = "commandOk" /\ SessionIs(TRUE, "idle", {})
          \/ reply = "error" /\ SessionIs(FALSE, "idle", {})

\* ROLLBACK; without a transaction it only warns.
ExecRollback(reply) ==
    \/ Unheard(reply)
    \/ /\ alive /\ reply = "commandOk"
       /\ SessionIs(TRUE, "idle", {})
       /\ UNCHANGED store
=============================================================================
