--------------------------------- MODULE Orm --------------------------------
(***************************************************************************)
(* A program that works with one hft::orm::Repository, and with statements *)
(* and transactions of its own, on one hft::db::PostgreSQLConnection.  The *)
(* server may refuse a statement, the connection may be lost under any of  *)
(* them, and the program may close and open it at any time; all it ever    *)
(* sees are return values.                                                 *)
(* A row stands for the effect of one INSERT, UPDATE or DELETE.            *)
(***************************************************************************)
EXTENDS PgLayer

VARIABLES
    told,       \* what the program was told of each write
    lost,       \* writes under which the connection was lost
    within,     \* writes done while a transaction object was active
    life        \* transaction object -> what happened in its life, see Life

history == <<told, lost, within, life>>
vars == <<alive, status, store, pending, names, session, statementCounter,
          stmts, call, txn, told, lost, within, life>>

\* state: an active object is "overtaken" once the connection was opened or another
\* object ended in its life, and "open" before; then how it ended.  While it is
\* open, rows: the writes reported as done; and whether a call of the program
\* reported a failure, and a statement prepared on an earlier session was dropped.
Life == [state : {"none", "open", "overtaken", "committed", "notCommitted", "rolledBack"},
         rows : SUBSET Rows, failed : BOOLEAN, stale : BOOLEAN]
NewLife(state) == [state |-> state, rows |-> {}, failed |-> FALSE, stale |-> FALSE]

TypeOK ==
    /\ LayerTypeOK
    /\ told \in [Rows -> {"unused", "asked", "true", "false"}]
    /\ lost \in SUBSET Rows
    /\ within \in SUBSET Rows
    /\ life \in [Objects -> Life]

Init ==
    /\ LayerInit
    /\ told = [r \in Rows |-> "unused"]
    /\ lost = {} /\ within = {}
    /\ life = [o \in Objects |-> NewLife("none")]

IsOpen(o) == life[o].state = "open"
Overtaken(o) == IF o \in Active THEN NewLife("overtaken") ELSE life[o]
Stale(n) == stmts[n].prepared /\ stmts[n].session # session
Ask(r) == told[r] = "unused" /\ told' = [told EXCEPT ![r] = "asked"]

-----------------------------------------------------------------------------
(* The program between calls.                                              *)

\* insert(), update(), deleteById(), deleteAll(): a statement, its binds and
\* executeUpdate().
Write(r) ==
    /\ Free /\ Ask(r)
    /\ Create("write", r) /\ CallOf(StmtName, TRUE, FALSE)
    /\ UNCHANGED <<server, names, session, txn, lost, within, life>>

\* findById() and findAll().
Find ==
    /\ Free
    /\ Create("query", NoRow) /\ CallOf(StmtName, TRUE, FALSE)
    /\ UNCHANGED <<server, names, session, txn, history>>

ProgramCreates ==
    /\ Free
    /\ \E sql \in {"write", "query"} : Create(sql, NoRow)
    /\ UNCHANGED <<server, names, session, call, txn, history>>

ProgramBinds(n, r) ==
    /\ Free /\ stmts[n].sql = "write" /\ stmts[n].row # r
    /\ Bind(n, r)
    /\ UNCHANGED <<server, names, session, statementCounter, call, txn, history>>

ProgramExecutes(n) ==
    /\ Free
    /\ CallOf(n, FALSE, stmts[n].prepared)
    /\ IF stmts[n].row = NoRow THEN UNCHANGED told ELSE Ask(stmts[n].row)
    /\ UNCHANGED <<server, names, session, statementCounter, stmts, txn, lost, within, life>>

\* The last shared_ptr to a statement goes.
ProgramDrops(n) ==
    /\ Free
    /\ call' = [step |-> "destroy", name |-> n, own |-> FALSE]
    /\ life' = [o \in Objects |-> [life[o] EXCEPT !.stale = @ \/ (IsOpen(o) /\ Stale(n))]]
    /\ UNCHANGED <<server, names, session, statementCounter, stmts, txn, told, lost, within>>

ProgramOpens ==
    /\ Open
    /\ life' = [o \in Objects |-> Overtaken(o)]
    /\ UNCHANGED <<told, lost, within>>

ProgramCloses == Close /\ UNCHANGED history

-----------------------------------------------------------------------------
(* What the program is told.                                               *)

\* Mutant: insert() and the others return executeUpdate() >= 0.
Positive_OrZero(count) == count >= 0

Positive(count) == count > 0

IsWrite == stmts[call.name].row # NoRow /\ stmts[call.name].sql = "write"

\* What the answer adds to the life of an open object.
LifeTold(o, done) ==
    IF ~IsOpen(o) THEN life[o]
    ELSE [life[o] EXCEPT !.failed = @ \/ ~done,
                         !.rows = IF IsWrite /\ done THEN @ \cup {stmts[call.name].row} ELSE @]

\* A call returns done or failed: true or false, a result or nullptr.
Tell(done) ==
    LET r == stmts[call.name].row
    IN  /\ told' = IF IsWrite THEN [told EXCEPT ![r] = IF done THEN "true" ELSE "false"] ELSE told
        /\ within' = IF IsWrite /\ done /\ Active # {} THEN within \cup {r} ELSE within
        /\ lost' = IF IsWrite /\ alive /\ ~alive' THEN lost \cup {r} ELSE lost
        /\ life' = [o \in Objects |-> LifeTold(o, done)]

StatementPrepared == Prepare("commandOk") /\ UNCHANGED history

PrepareFails == Prepare("error") /\ Tell(FALSE)

\* executeUpdate() of a write; a query answers rows or fails.
WriteExecuted ==
    /\ call.step = "execute" /\ stmts[call.name].sql = "write"
    /\ \E reply \in Replies, count \in 0 .. 1 :
          Execute(reply, count) /\ Tell(Positive(count))

QueryExecuted ==
    /\ call.step = "execute" /\ stmts[call.name].sql = "query"
    /\ \E reply \in {"tuplesOk", "error"} : Execute(reply, 0) /\ Tell(reply = "tuplesOk")

StatementDestroyed == Destroy /\ UNCHANGED history

-----------------------------------------------------------------------------
(* Transactions of the program.                                            *)

ProgramBegins(o) ==
    /\ Begin(o)
    /\ life' = [life EXCEPT ![o] = NewLife("open")]
    /\ UNCHANGED <<told, lost, within>>

\* An active object ends, and with it the transaction of all of them.
Ends(o, state) ==
    life' = [p \in Objects |-> IF p = o THEN NewLife(state) ELSE Overtaken(p)]

ProgramCommits(o) ==
    /\ \E reply \in Replies :
         /\ Commit(o, reply)
         /\ Ends(o, IF Succeeds(reply) THEN "committed" ELSE "notCommitted")
    /\ UNCHANGED <<told, lost, within>>

ProgramRollsBack(o) == Rollback(o) /\ Ends(o, "rolledBack") /\ UNCHANGED <<told, lost, within>>

ProgramReleases(o) ==
    /\ Release(o)
    /\ IF o \in Active THEN Ends(o, "rolledBack") ELSE UNCHANGED life
    /\ UNCHANGED <<told, lost, within>>

Next ==
    \/ \E r \in Rows : Write(r)
    \/ Find \/ ProgramCreates
    \/ \E n \in DOMAIN stmts :
          \/ \E r \in Rows \cup {NoRow} : ProgramBinds(n, r)
          \/ ProgramExecutes(n) \/ ProgramDrops(n)
    \/ ProgramOpens \/ ProgramCloses
    \/ StatementPrepared \/ PrepareFails \/ WriteExecuted \/ QueryExecuted
    \/ StatementDestroyed
    \/ \E o \in Objects :
          ProgramBegins(o) \/ ProgramCommits(o) \/ ProgramRollsBack(o) \/ ProgramReleases(o)

Spec == Init /\ [][Next]_vars

-----------------------------------------------------------------------------
(* Properties.                                                             *)

\* A write the program was told of as done outside a transaction is permanent,
\* and one it was told of as failed has no effect, now or later, unless the
\* connection was lost under it (Repository.h:99, PostgreSQLConnection.cpp:200).
WriteReport ==
    \A r \in Rows :
        /\ told[r] = "true" /\ r \notin within => r \in store
        /\ told[r] = "false" /\ r \in store \cup pending => r \in lost

\* The server is in a transaction only while a transaction object is active,
\* although nobody looks at the results of BEGIN and ROLLBACK, an object is
\* inactive after a COMMIT that failed, and objects end in any order
\* (PostgreSQLConnection.cpp:271-294). (And TypeOK.)
NoOrphanTransaction == TypeOK /\ (status # "idle" => Active # {})

\* "Auto-rollback on exception" (ARCHITECTURE.md:123): when a transaction ends
\* otherwise than by commit(), the writes made in its life are undone, unless the
\* connection was opened again under it, or another object ended in its life: a
\* commit() stores the writes of all, and what follows either end commits by itself.
EndsOpen(o, state) == IsOpen(o) /\ life'[o].state = state
AutoRollback ==
    [][\A o \in Objects :
         EndsOpen(o, "rolledBack") => life[o].rows \cap (store' \cup pending') = {}]_vars

\* commit() returned true: the writes are permanent.  So "true if successful"
\* (ITransaction.h:15) reads; it is so, inside another object's life as well, if
\* in the transaction no call reported a failure, no statement of an earlier
\* session was dropped, the connection was not opened and no other object ended:
\* COMMIT then ends another transaction, or none, with success.
CommitReport ==
    [][\A o \in Objects :
         EndsOpen(o, "committed") /\ ~life[o].failed /\ ~life[o].stale
           => life[o].rows \subseteq store']_vars

\* A statement prepared on this session is known to it as long as it lives, and
\* a PREPARE never meets its own name (PostgreSQLConnection.cpp:71-81, 144-155).
NamesMatch ==
    /\ \A n \in DOMAIN stmts :
          stmts[n].prepared /\ stmts[n].session = session /\ alive => n \in names
    /\ call.step = "prepare" => call.name \notin names

\* A session forgets a statement with its object, but for the objects that were
\* destroyed in a transaction that had failed (PostgreSQLConnection.cpp:76-81).
NamesReleased ==
    [][\A n \in DOMAIN stmts \ DOMAIN stmts' : n \in names' => status = "aborted"]_vars
=============================================================================
