------------------------------ MODULE SybLayer ------------------------------
(***************************************************************************)
(* A program that works with src/db/SybaseConnection.cpp: one connection   *)
(* that may be opened and closed again, an hft::orm::Repository, queries   *)
(* and nested transaction objects of its own.  A failure is a return value *)
(* here; the constructor and the destructor of a transaction, and open()   *)
(* on a connection that is open, do not look at what happened.             *)
(* A step is a call.  Losing the connection between the commands and the   *)
(* results of a call looks the same as losing it under the command.  A     *)
(* null dbproc_ behaves as a dead one: DB-Library answers FAIL.            *)
(***************************************************************************)
EXTENDS SybServer, FiniteSets, SequencesExt

CONSTANTS
    MaxTxns,    \* bound: SybaseTransaction objects alive at a time
    MaxOpens,   \* bound: calls of open() that connect
    MaxLevel    \* bound: open levels at which one more is begun

ASSUME BoundsAssumption == MaxTxns \in Nat /\ MaxOpens \in Nat /\ MaxLevel \in Nat

VARIABLES
    txns,       \* the live SybaseTransaction objects, the innermost last
    opens,      \* sessions opened so far
    told,       \* what the program was told of each write
    within,     \* writes made while a transaction was active, or stuck
    lost,       \* writes under which the connection was lost
    stuck       \* on this session a COMMIT or ROLLBACK met unread rows

history == <<told, within, lost>>
vars == <<proc, level, store, pending, txns, opens, told, within, lost, stuck>>

\* active_; for the properties: how commit() answered, whether BEGIN was
\* executed, the writes reported as done in its life and whether, in its life, a
\* call failed, another object was created, the connection was opened.
Txn == [active : BOOLEAN, outcome : {"open", "true", "false"}, begun : BOOLEAN,
        rows : SUBSET Rows, failed : BOOLEAN, nested : BOOLEAN, reopened : BOOLEAN]
NewTxn(begun) ==
    [active |-> TRUE, outcome |-> "open", begun |-> begun,
     rows |-> {}, failed |-> FALSE, nested |-> FALSE, reopened |-> FALSE]

\* Every variable keeps its type.
TypeOK ==
    /\ ServerTypeOK
    /\ txns \in Seq(Txn)
    /\ opens \in 0 .. MaxOpens
    /\ told \in [Rows -> {"unused", "true", "false"}]
    /\ within \in SUBSET Rows
    /\ lost \in SUBSET Rows
    /\ stuck \in BOOLEAN

\* No connection yet.
Init ==
    /\ proc = "dead" /\ level = 0 /\ store = {} /\ pending = {}
    /\ txns = <<>> /\ opens = 0
    /\ told = [r \in Rows |-> "unused"]
    /\ within = {} /\ lost = {}
    /\ stuck = FALSE

Innermost == Len(txns)
HasActive == Innermost > 0 /\ Last(txns).active
Active == {i \in DOMAIN txns : txns[i].active}
Replied(reply) == reply = "succeed"

\* Every object that is alive notes what happens in its life.
Noted(failed) == [i \in DOMAIN txns |-> [txns[i] EXCEPT !.failed = @ \/ failed]]

-----------------------------------------------------------------------------
(* SybaseConnection.                                                       *)

\* open() overwrites dbproc_: a session that is open is never used or closed
\* again, so that its transaction cannot commit any more.
Open ==
    /\ \/ /\ opens < MaxOpens /\ opens' = opens + 1
          /\ SessionIs("ready", 0, {}) /\ stuck' = FALSE
       \/ SessionEnds /\ UNCHANGED <<opens, stuck>>
    /\ txns' = [i \in DOMAIN txns |-> [txns[i] EXCEPT !.reopened = TRUE]]
    /\ UNCHANGED <<store, history>>

\* close(), or the connection is lost between two calls.
Close ==
    /\ proc # "dead" /\ SessionEnds
    /\ UNCHANGED <<store, txns, opens, history, stuck>>

-----------------------------------------------------------------------------
(* SybaseStatement, and the Repository.                                    *)

\* Mutant: -1 and 0 are rows, too.
Positive_Any(reply, count) == TRUE

\* executeUpdate() > 0: the command was executed, and dbcount() is positive.
Positive(reply, count) == Replied(reply) /\ count > 0

\* insert(), update(), deleteById(), deleteAll(): one executeUpdate().  It
\* asks for the first result only; the next command consumes what is left.
Write(r) ==
    /\ told[r] = "unused"
    /\ \E reply \in Replies, count \in 0 .. 1 :
         /\ \/ SendWrite(r, reply) /\ count = (IF Replied(reply) THEN 1 ELSE 0)
            \/ MatchNone(reply) /\ count = 0
         /\ told' = [told EXCEPT ![r] = IF Positive(reply, count) THEN "true" ELSE "false"]
         /\ txns' = [i \in DOMAIN txns |->
                [Noted(~Replied(reply))[i] EXCEPT
                     !.rows = IF txns[i].active /\ Positive(reply, count) THEN @ \cup {r} ELSE @]]
    /\ within' = IF Active # {} \/ stuck THEN within \cup {r} ELSE within
    /\ lost' = IF proc # "dead" /\ proc' = "dead" THEN lost \cup {r} ELSE lost
    /\ UNCHANGED <<opens, stuck>>

\* executeQuery(): nullptr, or a result set whose rows wait on the process.
Query ==
    /\ \E reply \in Replies : SendQuery(reply) /\ txns' = Noted(~Replied(reply))
    /\ UNCHANGED <<opens, history, stuck>>

\* next() of the result set, up to the last row; findAll() reads them all, and
\* findById() one, which is all unless the id is not unique.
ReadRows ==
    /\ proc = "rows"
    /\ (SessionIs("fetching", level, pending) \/ SessionEnds)
    /\ UNCHANGED <<store, txns, opens, history, stuck>>

-----------------------------------------------------------------------------
(* SybaseTransaction.                                                      *)

\* Mutant: BEGIN TRANSACTION is not executed.
Begin_NotSent ==
    /\ Innermost < MaxTxns
    /\ txns' = Append(txns, NewTxn(TRUE))
    /\ UNCHANGED <<server, opens, history, stuck>>

\* The constructor: active_ whatever BEGIN TRANSACTION answers.
Begin ==
    /\ Innermost < MaxTxns /\ level <= MaxLevel
    /\ \E reply \in Replies :
         /\ SendBegin(reply)
         /\ txns' = Append([i \in DOMAIN txns |-> [txns[i] EXCEPT !.nested = TRUE]],
                           NewTxn(Replied(reply)))
    /\ UNCHANGED <<opens, history, stuck>>

\* A COMMIT or ROLLBACK that cannot be sent because rows are unread.
Blocked == stuck' = (stuck \/ proc = "rows")

\* Mutant: the result of execute() is not returned.
Commit_Unchecked ==
    /\ HasActive
    /\ \E reply \in Replies : SendCommit(reply)
    /\ txns' = [txns EXCEPT ![Innermost].active = FALSE, ![Innermost].outcome = "true"]
    /\ Blocked
    /\ UNCHANGED <<opens, history>>

\* commit() and rollback(): the object is inactive whatever they return.
Commit ==
    /\ HasActive
    /\ \E reply \in Replies :
         /\ SendCommit(reply)
         /\ txns' = [txns EXCEPT ![Innermost].active = FALSE,
                        ![Innermost].outcome = IF Replied(reply) THEN "true" ELSE "false"]
    /\ Blocked
    /\ UNCHANGED <<opens, history>>

Rollback ==
    /\ HasActive
    /\ \E reply \in Replies : SendRollback(reply)
    /\ txns' = [txns EXCEPT ![Innermost].active = FALSE]
    /\ Blocked
    /\ UNCHANGED <<opens, history>>

\* Mutant: the destructor does not roll back.
Destroy_Silent ==
    /\ Innermost > 0
    /\ txns' = Front(txns)
    /\ UNCHANGED <<server, opens, history, stuck>>

\* ~SybaseTransaction() of the innermost object.
Destroy ==
    /\ Innermost > 0
    /\ IF HasActive THEN Blocked /\ \E reply \in Replies : SendRollback(reply)
       ELSE UNCHANGED <<server, stuck>>
    /\ txns' = Front(txns)
    /\ UNCHANGED <<opens, history>>

Next ==
    \/ Open \/ Close
    \/ \E r \in Rows : Write(r)
    \/ Query \/ ReadRows
    \/ Begin \/ Commit \/ Rollback \/ Destroy

Spec == Init /\ [][Next]_vars

-----------------------------------------------------------------------------
(* Properties.                                                             *)

\* A write the Repository reports as done outside a transaction is permanent,
\* one it reports as failed has no effect unless the connection was lost under
\* it, although only the first result is asked for (SybaseConnection.cpp:239).
WriteReport ==
    \A r \in Rows :
        /\ told[r] = "true" /\ r \notin within => r \in store
        /\ told[r] = "false" /\ r \in store \cup pending => r \in lost

\* Every open transaction level has an active object that will end it, unless
\* a commit() or a rollback, the destructor's included, was called while rows
\* of a query were unread: it is never sent, the object is inactive or gone, and
\* the level stays, under the feet of whatever the program does next.  (And TypeOK.)
Balanced == TypeOK /\ (~stuck => level <= Cardinality(Active))

\* commit() of the outermost object returned true: what was reported as done in
\* its life is permanent, also if BEGIN was never executed, the server rolled
\* back under a statement, or objects were nested, but not if the connection
\* was opened in its life (line 74) or a COMMIT or ROLLBACK was stuck.
CommitReport ==
    \A t \in {txns[i] : i \in DOMAIN txns \cap {1}} :
        t.outcome = "true" /\ ~t.reopened /\ ~stuck => t.rows \subseteq store

\* What was written in the life of an object that is destroyed active is
\* undone, unless the constructor's BEGIN failed, which nobody looks at (line
\* 309), a call failed, another object was created or the connection opened;
\* a destructor that is stuck leaves it in the transaction, not stored.
Undone(t) ==
    t.active /\ t.begun /\ ~t.failed /\ ~t.nested /\ ~t.reopened
        => t.rows \cap store' = {} /\ (stuck' \/ t.rows \cap pending' = {})
AutoRollback == [][Len(txns') < Len(txns) => Undone(Last(txns))]_vars
=============================================================================
