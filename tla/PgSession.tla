------------------------------ MODULE PgSession -----------------------------
(***************************************************************************)
(* A program that works with one PgConnection: the connection and its      *)
(* PgTransaction objects (src/pg), and Repository (include/hft/repository) *)
(* on top of them.  libpq connections belong to one thread, so operations  *)
(* do not overlap; but the server may refuse any statement, the connection *)
(* may be lost before or after any statement was executed, transactions    *)
(* may be nested, and insertBatch() goes through several statements.       *)
(* Every step is one round trip to the server, or a local failure.         *)
(* Row values are abstracted: each insert inserts a row of its own.        *)
(* insertPS() binds no parameter, whatever the entity (bindParameter of    *)
(* module EntityPipeline): its statement is always refused.                *)
(***************************************************************************)
EXTENDS PgServer, Naturals, SequencesExt

CONSTANTS
    MaxTxns     \* bound: PgTransaction objects alive at a time

ASSUME BoundsAssumption == MaxTxns \in Nat

VARIABLES
    txns,       \* the live PgTransaction objects, the innermost last
    batch,      \* where the insertBatch() in progress is
    used        \* rows the program has tried to insert

client == <<txns, batch, used>>
vars == <<alive, status, store, pending, txns, batch, used>>

\* A PgTransaction: _active, and for the properties the rows inserted while it
\* was active, whether commit() was called on it and returned, whether a
\* statement was refused in its life and whether a transaction was begun in it.
Txn == [active : BOOLEAN, rows : SUBSET Rows, tried : BOOLEAN, returned : BOOLEAN,
        refused : BOOLEAN, nested : BOOLEAN]
NewTxn == [active |-> TRUE, rows |-> {}, tried |-> FALSE, returned |-> FALSE,
           refused |-> FALSE, nested |-> FALSE]

Phases == {"none", "insert", "commit", "rollback", "returned", "threw"}

TypeOK ==
    /\ ServerTypeOK
    /\ txns \in Seq(Txn)
    /\ batch \in Phases
    /\ used \in SUBSET Rows

Init ==
    /\ ServerInit
    /\ txns = <<>>
    /\ batch = "none"
    /\ used = {}

Free == batch = "none"
Innermost == Len(txns)

-----------------------------------------------------------------------------
(* PgConnection and PgTransaction.                                         *)

\* Mutant: BEGIN is not sent.
Begin_NotSent(reply) ==
    /\ Len(txns) < MaxTxns /\ reply = "commandOk"
    /\ txns' = Append(txns, NewTxn)
    /\ UNCHANGED server

\* beginTransaction(): a PgTransaction exists only if BEGIN succeeded.
Begin(reply) ==
    /\ Len(txns) < MaxTxns
    /\ ExecBegin(reply)
    /\ txns' = IF reply = "commandOk"
               THEN Append([i \in DOMAIN txns |-> [txns[i] EXCEPT !.nested = TRUE]], NewTxn)
               ELSE txns

\* Mutant: the result of COMMIT is not looked at.
Commit_Unchecked(i, reply) ==
    /\ txns[i].active
    /\ ExecCommit(reply)
    /\ txns' = [txns EXCEPT ![i].active = FALSE, ![i].tried = TRUE, ![i].returned = TRUE]

\* commit() throws if inactive; it stays active when COMMIT does not succeed.
Commit(i, reply) ==
    /\ txns[i].active
    /\ ExecCommit(reply)
    /\ txns' = [txns EXCEPT ![i].active = (reply # "commandOk"), ![i].tried = TRUE,
                            ![i].returned = (reply = "commandOk"),
                            ![i].refused = @ \/ reply = "error"]

Rollback(i, reply) ==
    /\ txns[i].active
    /\ ExecRollback(reply)
    /\ txns' = [txns EXCEPT ![i].active = (reply # "commandOk")]

\* Mutant: the destructor does not roll back.
Destroy_Silent == Innermost > 0 /\ txns' = Front(txns) /\ UNCHANGED server

\* ~PgTransaction() of the innermost object; a failed rollback is swallowed.
Destroy ==
    /\ Innermost > 0
    /\ txns' = Front(txns)
    /\ IF Last(txns).active THEN \E reply \in Replies : ExecRollback(reply)
       ELSE UNCHANGED server

\* A statement that fails is a failure in the life of every object.
Noted(reply) == [i \in DOMAIN txns |-> [txns[i] EXCEPT !.refused = @ \/ reply = "error"]]

\* An INSERT the server executed is part of the work of every active object.
Insert(r, reply) ==
    /\ ExecInsert(r, reply)
    /\ used' = used \cup {r}
    /\ txns' = IF reply = "commandOk"
               THEN [i \in DOMAIN txns |->
                       IF txns[i].active THEN [txns[i] EXCEPT !.rows = @ \cup {r}] ELSE txns[i]]
               ELSE Noted(reply)

-----------------------------------------------------------------------------
(* What the program does with them outside insertBatch().                  *)

ProgramBegins ==
    /\ Free
    /\ \E reply \in Replies : Begin(reply)
    /\ UNCHANGED <<batch, used>>

ProgramCommits ==
    /\ Free
    /\ Innermost > 0 /\ \E reply \in Replies : Commit(Innermost, reply)
    /\ UNCHANGED <<batch, used>>

ProgramRollsBack ==
    /\ Free
    /\ Innermost > 0 /\ \E reply \in Replies : Rollback(Innermost, reply)
    /\ UNCHANGED <<batch, used>>

\* A transaction object goes out of scope, by return or by an exception.
ProgramLeavesScope ==
    /\ Free /\ Destroy
    /\ UNCHANGED <<batch, used>>

\* executeUpdate() of a PgPreparedStatement the program has prepared and bound;
\* and Repository::insert(), update() and remove(), whose executeQuery() has the
\* server execute the same and throws whatever it answers.
ProgramInserts(r) ==
    /\ Free /\ r \notin used
    /\ \E reply \in Replies : Insert(r, reply)
    /\ UNCHANGED batch

\* The statement of insertPS() has placeholders and no parameters.
SendUnbound(reply) ==
    /\ Unheard(reply) \/ Refused(reply)
    /\ txns' = Noted(reply)

\* Repository::insertPS().
InsertPS ==
    /\ Free
    /\ \E reply \in Replies : SendUnbound(reply)
    /\ UNCHANGED <<batch, used>>

\* Repository::getAll() and getById().
Select ==
    /\ Free
    /\ \E reply \in {"tuplesOk", "error"} : ExecSelect(reply) /\ txns' = Noted(reply)
    /\ UNCHANGED <<batch, used>>

\* ~PgConnection(), when nothing refers to the connection any more; and the
\* loss of the connection while no statement is under way.
Disconnect ==
    /\ alive
    /\ SessionIs(FALSE, "idle", {})
    /\ UNCHANGED store
    /\ UNCHANGED client

-----------------------------------------------------------------------------
(* Repository::insertBatch(), one statement at a time.                     *)

\* beginTransaction() is outside the try block.  What matters of the rows is
\* whether there is one.
BatchBegin ==
    /\ Free
    /\ \E reply \in Replies :
         /\ Begin(reply)
         /\ IF reply = "commandOk" THEN batch' \in {"insert", "commit"} ELSE UNCHANGED batch
    /\ UNCHANGED used

\* The insertPS() of the first row throws, here or on the server: no other row
\* is reached, and none is ever inserted.
BatchInsert ==
    /\ batch = "insert"
    /\ \/ \E reply \in Replies : SendUnbound(reply)
       \/ UNCHANGED <<server, txns>>
    /\ batch' = "rollback"
    /\ UNCHANGED used

\* A batch without rows commits what its BEGIN has found open.
BatchCommit ==
    /\ batch = "commit"
    /\ \E reply \in Replies :
         /\ Commit(Innermost, reply)
         /\ batch' = IF reply = "commandOk" THEN "returned" ELSE "rollback"
    /\ UNCHANGED used

\* The handler; the exception it ends with is the first one, or rollback()'s.
BatchRollback ==
    /\ batch = "rollback"
    /\ \E reply \in Replies : Rollback(Innermost, reply)
    /\ batch' = "threw"
    /\ UNCHANGED used

\* Unwinding destroys the transaction object.
BatchEnd ==
    /\ batch \in {"returned", "threw"}
    /\ Destroy
    /\ batch' = "none"
    /\ UNCHANGED used

Next ==
    \/ ProgramBegins \/ ProgramCommits \/ ProgramRollsBack \/ ProgramLeavesScope
    \/ \E r \in Rows : ProgramInserts(r)
    \/ InsertPS \/ Select \/ Disconnect
    \/ BatchBegin \/ BatchInsert \/ BatchCommit \/ BatchRollback \/ BatchEnd

Spec == Init /\ [][Next]_vars

-----------------------------------------------------------------------------
(* Properties.                                                             *)

\* A transaction on the server always has a live, active PgTransaction that
\* will end it: none outlives the scope it was begun in (PgTransaction.cpp:12-21). (And TypeOK.)
NoOrphanTransaction == TypeOK /\ (status # "idle" => \E i \in DOMAIN txns : txns[i].active)

\* What was inserted during the life of an object that never saw commit() is
\* not stored when the object has been destroyed active.
Undone(t) == t.active /\ ~t.tried => t.rows \cap store' = {}
LeavesScope == Len(txns') < Len(txns)

\* "Auto-rollback if still active" (PgTransaction.cpp:13), of the objects inside
\* which no other transaction was begun: BEGIN inside one only warns, and the
\* COMMIT of the inner object then commits the work of the outer one.
FlatAutoRollback == [][LeavesScope /\ ~Last(txns).nested => Undone(Last(txns))]_vars

\* commit() returned: what was inserted while the object was active is stored,
\* unless a statement was refused in its life, a first COMMIT included, for the
\* next COMMIT then ends another transaction, or none, with success
\* (PgTransaction.cpp:25-37), or a transaction was begun in it.
CommitReport ==
    \A i \in DOMAIN txns :
        txns[i].returned /\ ~txns[i].refused /\ ~txns[i].nested => txns[i].rows \subseteq store

=============================================================================
