------------------------------ MODULE SybServer -----------------------------
(***************************************************************************)
(* One Sybase session as DB-Library shows it to the code in src/sybase and *)
(* src/db/SybaseConnection.cpp.                                            *)
(* External to the repository; SybConnection.hpp declares the types of     *)
(* FreeTDS.  dbsqlexec() sends a command and reads the first answer;       *)
(* dbresults() fetches the rest of it; a command cannot be sent while rows *)
(* of an earlier one wait to be read; every call on a dead process fails.  *)
(* Transactions are counted: COMMIT TRAN ends the innermost, ROLLBACK TRAN *)
(* all of them, each is an error outside.  A statement that fails leaves   *)
(* the transaction alone, or the server rolls it back (a deadlock victim). *)
(***************************************************************************)
EXTENDS Naturals

CONSTANT Rows       \* the rows the program inserts, each one once

VARIABLES
    proc,       \* the DBPROCESS: "ready", "fetching", "rows" unread, "dead"
    level,      \* @@trancount
    store,      \* committed rows
    pending     \* rows inserted by the open transaction

server == <<proc, level, store, pending>>

Replies == {"succeed", "fail"}

ServerTypeOK ==
    /\ proc \in {"ready", "fetching", "rows", "dead"}
    /\ level \in Nat
    /\ store \in SUBSET Rows
    /\ pending \in SUBSET Rows

ServerInit == proc = "ready" /\ level = 0 /\ store = {} /\ pending = {}

\* What is left of a command without rows is consumed by the next dbsqlexec().
Usable == proc \in {"ready", "fetching"}

SessionIs(p, l, rows) == proc' = p /\ level' = l /\ pending' = rows
SessionEnds == SessionIs("dead", 0, {})

\* dbcmd() or dbsqlexec() fails without the server having done anything.
Unsent(reply) ==
    /\ reply = "fail"
    /\ \/ proc \in {"rows", "dead"} /\ UNCHANGED server
       \/ Usable /\ SessionEnds /\ UNCHANGED store

Refused(reply) == Usable /\ reply = "fail" /\ UNCHANGED server

\* The server ends the whole transaction with the statement.
Victim(reply) ==
    /\ Usable /\ level > 0 /\ reply = "fail"
    /\ SessionIs(proc, 0, {}) /\ UNCHANGED store

\* The server executes the command; its first answer arrives or is lost.
Answered(reply, l, rows) ==
    /\ Usable
    /\ \/ reply = "succeed" /\ SessionIs("fetching", l, rows)
       \/ reply = "fail" /\ SessionEnds

SendBegin(reply) ==
    \/ Unsent(reply)
    \/ Answered(reply, level + 1, pending) /\ UNCHANGED store

SendWrite(r, reply) ==
    \/ Unsent(reply) \/ Refused(reply) \/ Victim(reply)
    \/ level = 0 /\ Answered(reply, 0, {}) /\ store' = store \cup {r}
    \/ level > 0 /\ Answered(reply, level, pending \cup {r}) /\ UNCHANGED store

SendCommit(reply) ==
    \/ Unsent(reply)
    \/ level = 0 /\ Refused(reply)
    \/ level = 1 /\ Answered(reply, 0, {}) /\ store' = store \cup pending
    \/ level > 1 /\ Answered(reply, level - 1, pending) /\ UNCHANGED store

SendRollback(reply) ==
    \/ Unsent(reply)
    \/ level = 0 /\ Refused(reply)
    \/ level > 0 /\ Answered(reply, 0, {}) /\ UNCHANGED store

\* An UPDATE or DELETE may find nothing to change.
MatchNone(reply) ==
    /\ Usable /\ reply = "succeed"
    /\ SessionIs("fetching", level, pending) /\ UNCHANGED store

\* A query, and its first dbresults(): there are rows to read, or there are none.
SendQuery(reply) ==
    \/ Unsent(reply) \/ Refused(reply) \/ Victim(reply)
    \/ /\ Usable /\ reply = "succeed"
       /\ proc' \in {"rows", "fetching"} /\ UNCHANGED <<level, store, pending>>

\* dbresults() while the results of a command that has no rows are consumed.
Fetch(reply) ==
    \/ proc = "fetching" /\ reply = "noMore" /\ SessionIs("ready", level, pending) /\ UNCHANGED store
    \/ proc = "fetching" /\ reply = "fail" /\ SessionEnds /\ UNCHANGED store
    \/ proc = "dead" /\ reply = "fail" /\ UNCHANGED server
=============================================================================
