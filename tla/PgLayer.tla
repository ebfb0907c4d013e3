------------------------------- MODULE PgLayer ------------------------------
(***************************************************************************)
(* The objects of src/db/PostgreSQLConnection.cpp: one connection that may *)
(* be closed and opened again, its statements, each prepared under a name  *)
(* of its own at its first execution and deallocated by its destructor,    *)
(* and its transaction objects, any number at a time, ended in any order.  *)
(* A failure is a return value here, never an exception, and some results  *)
(* are not looked at.  A null conn_ behaves as a lost connection: libpq    *)
(* answers every call with an error.                                       *)
(* One action is one round trip; module Orm is the program.                *)
(***************************************************************************)
EXTENDS PgServer, Naturals, FiniteSets

CONSTANTS
    Objects,        \* the PostgreSQLTransaction objects that can be alive
    NoRow,          \* a parameter that is not bound
    MaxStatements,  \* bound: statements created
    MaxOpens        \* bound: successful calls of open()

ASSUME LayerAssumption ==
    NoRow \notin Rows /\ MaxStatements \in Nat /\ MaxOpens \in Nat

VARIABLES
    names,              \* statement names the server session knows
    session,            \* number of the server session
    statementCounter,   \* names given so far
    stmts,              \* the live PostgreSQLStatement objects, by name
    call,               \* the statement call in progress
    txn                 \* transaction object -> its active_, if it is alive

layer == <<names, session, statementCounter, stmts, call, txn>>

Names == 0 .. MaxStatements - 1
Session == 0 .. MaxOpens

\* prepared_ and paramValues_; for the properties, the session of the PREPARE.
Stmt == [sql : {"write", "query"}, row : Rows \cup {NoRow},
         prepared : BOOLEAN, session : Session]

\* own: the statement is a local variable of a Repository method.
Call == [step : {"none", "prepare", "execute", "destroy"}, name : Names \cup {0}, own : BOOLEAN]
NoCall == [step |-> "none", name |-> 0, own |-> FALSE]

LayerTypeOK ==
    /\ ServerTypeOK
    /\ names \in SUBSET Names
    /\ session \in Session
    /\ statementCounter \in 0 .. MaxStatements
    /\ DOMAIN stmts \subseteq Names /\ \A n \in DOMAIN stmts : stmts[n] \in Stmt
    /\ call \in Call
    /\ txn \in [Objects -> {"none", "active", "inactive"}]

LayerInit ==
    /\ ServerInit
    /\ names = {} /\ session = 0
    /\ statementCounter = 0 /\ stmts = [n \in {} |-> NoCall]
    /\ call = NoCall
    /\ txn = [o \in Objects |-> "none"]

Active == {o \in Objects : txn[o] = "active"}
Free == call.step = "none"

-----------------------------------------------------------------------------
(* Named statements on the server.                                         *)

\* Names belong to the session and end with it.
KnownAfter(known) == names' = IF alive' THEN known ELSE {}

ServerPrepare(n, reply) ==
    \/ (Unheard(reply) \/ Refused(reply)) /\ KnownAfter(names)
    \/ /\ alive /\ status # "aborted" /\ n \notin names /\ reply = "commandOk"
       /\ names' = names \cup {n}
       /\ UNCHANGED server

\* An UPDATE or DELETE may find nothing to change.
MatchNone(reply) == alive /\ status # "aborted" /\ reply = "commandOk" /\ UNCHANGED server

\* count: the number of rows PQcmdTuples() gives, zero or not.
ServerExecute(n, reply, count) ==
    /\ \/ Unheard(reply) /\ count = 0
       \/ Refused(reply) /\ count = 0
       \/ /\ n \in names /\ stmts[n].sql = "query"
          /\ ExecSelect(reply) /\ count = 0
       \/ /\ n \in names /\ stmts[n].sql = "write" /\ stmts[n].row # NoRow
          /\ \/ MatchNone(reply) /\ count = 0
             \/ ExecInsert(stmts[n].row, reply) /\ count = IF reply = "commandOk" THEN 1 ELSE 0
    /\ KnownAfter(names)

ServerDeallocate(n, reply) ==
    \/ Unheard(reply) /\ KnownAfter(names)
    \/ (n \notin names \/ status = "aborted") /\ Refused(reply) /\ KnownAfter(names)
    \/ /\ alive /\ status # "aborted" /\ n \in names /\ reply = "commandOk"
       /\ names' = names \ {n}
       /\ UNCHANGED server

-----------------------------------------------------------------------------
(* PostgreSQLConnection.                                                   *)

\* open() overwrites conn_: a session still open is never used or finished
\* again, so that its transaction cannot commit any more.
Open ==
    /\ Free /\ session < MaxOpens
    /\ \/ SessionIs(TRUE, "idle", {}) /\ session' = session + 1
       \/ SessionIs(FALSE, "idle", {}) /\ session' = session
    /\ names' = {}
    /\ UNCHANGED <<store, statementCounter, stmts, call, txn>>

\* close(); a connection lost between two calls looks the same.
Close ==
    /\ Free /\ alive
    /\ SessionIs(FALSE, "idle", {}) /\ names' = {}
    /\ UNCHANGED <<store, session, statementCounter, stmts, call, txn>>

\* Mutant: execute() does not look at the status.
Succeeds_Always(reply) == reply \in {"commandOk", "tuplesOk", "error"}

\* execute(): any reply but an error is success.
Succeeds(reply) == reply # "error"

-----------------------------------------------------------------------------
(* PostgreSQLStatement.                                                    *)

NewStmt(sql, row) == [sql |-> sql, row |-> row, prepared |-> FALSE, session |-> 0]

\* Mutant: names are given again once their statement is gone.
StmtName_Reused == Cardinality(DOMAIN stmts)

StmtName == statementCounter

\* createStatement(), and the binds that follow in a Repository method.
Create(sql, row) ==
    /\ statementCounter < MaxStatements
    /\ stmts' = [n \in DOMAIN stmts \cup {StmtName} |->
                     IF n = StmtName THEN NewStmt(sql, row) ELSE stmts[n]]
    /\ statementCounter' = statementCounter + 1

\* The bind functions, and with NoRow reset().
Bind(n, row) == stmts' = [stmts EXCEPT ![n].row = row]

\* executeUpdate() and executeQuery() begin.
CallOf(n, own, prepared) ==
    call' = [step |-> IF prepared THEN "execute" ELSE "prepare", name |-> n, own |-> own]

\* They return; a Repository method goes on to the destructor.
Return == call' = IF call.own THEN [call EXCEPT !.step = "destroy"] ELSE NoCall

Prepare(reply) ==
    /\ call.step = "prepare"
    /\ ServerPrepare(call.name, reply)
    /\ IF reply = "commandOk"
       THEN /\ stmts' = [stmts EXCEPT ![call.name].prepared = TRUE,
                                      ![call.name].session = session]
            /\ call' = [call EXCEPT !.step = "execute"]
       ELSE UNCHANGED stmts /\ Return
    /\ UNCHANGED <<session, statementCounter, txn>>

Execute(reply, count) ==
    /\ call.step = "execute"
    /\ ServerExecute(call.name, reply, count)
    /\ Return
    /\ UNCHANGED <<session, statementCounter, stmts, txn>>

Forget(n) == stmts' = [m \in DOMAIN stmts \ {n} |-> stmts[m]]

\* Mutant: the name stays on the server.
Destroy_Silent ==
    /\ call.step = "destroy"
    /\ Forget(call.name) /\ call' = NoCall
    /\ UNCHANGED <<server, names, session, statementCounter, txn>>

\* ~PostgreSQLStatement(): the result of DEALLOCATE is not looked at.
Destroy ==
    /\ call.step = "destroy"
    /\ IF stmts[call.name].prepared
       THEN \E reply \in Replies : ServerDeallocate(call.name, reply)
       ELSE UNCHANGED <<server, names>>
    /\ Forget(call.name) /\ call' = NoCall
    /\ UNCHANGED <<session, statementCounter, txn>>

-----------------------------------------------------------------------------
(* PostgreSQLTransaction.  The objects of a connection share its one       *)
(* transaction: BEGIN inside it only warns, and the first COMMIT or        *)
(* ROLLBACK of any of them ends it.                                        *)

Is(o, state) == txn' = [txn EXCEPT ![o] = state]
Transacts == UNCHANGED <<session, statementCounter, stmts, call>> /\ KnownAfter(names)

\* Mutant: BEGIN is not sent.
Begin_NotSent(o) == Free /\ txn[o] = "none" /\ Is(o, "active") /\ UNCHANGED server /\ Transacts

\* The constructor: active_ whatever BEGIN answers.
Begin(o) ==
    /\ Free /\ txn[o] = "none"
    /\ \E reply \in Replies : ExecBegin(reply)
    /\ Is(o, "active")
    /\ Transacts

\* commit() and rollback(): the object is inactive whatever they return.
Commit(o, reply) ==
    /\ Free /\ txn[o] = "active"
    /\ ExecCommit(reply)
    /\ Is(o, "inactive")
    /\ Transacts

Rollback(o) ==
    /\ Free /\ txn[o] = "active"
    /\ \E reply \in Replies : ExecRollback(reply)
    /\ Is(o, "inactive")
    /\ Transacts

\* Mutant: the destructor does not roll back.
Release_Silent(o) ==
    Free /\ txn[o] # "none" /\ Is(o, "none") /\ UNCHANGED server /\ Transacts

\* ~PostgreSQLTransaction().
Release(o) ==
    /\ Free /\ txn[o] # "none"
    /\ IF txn[o] = "active" THEN \E reply \in Replies : ExecRollback(reply)
       ELSE UNCHANGED server
    /\ Is(o, "none")
    /\ Transacts
=============================================================================
