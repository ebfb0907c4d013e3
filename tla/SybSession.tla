----------------------------- MODULE SybSession -----------------------------
(***************************************************************************)
(* A program that works with one SybConnection (src/sybase), its prepared  *)
(* statements and its SybTransaction objects, by one thread.  Every step   *)
(* is a command sent, or a turn of a loop that consumes results.           *)
(* Parameters are text in the command: binding them is local.              *)
(***************************************************************************)
EXTENDS SybServer, FiniteSets, SequencesExt

CONSTANT MaxTxns    \* bound: SybTransaction objects alive at a time

ASSUME TxnsAssumption == MaxTxns \in Nat

VARIABLES
    txns,       \* the live SybTransaction objects, the innermost last
    call,       \* the call that consumes its results
    used        \* rows the program has tried to insert

client == <<txns, call, used>>
vars == <<proc, level, store, pending, txns, call, used>>

\* _active; for the properties: the rows inserted while it was active, whether
\* commit() was called and returned, whether a statement failed in its life
\* and whether another transaction was begun in it.
Txn == [active : BOOLEAN, rows : SUBSET Rows, tried : BOOLEAN, returned : BOOLEAN,
        failed : BOOLEAN, nested : BOOLEAN]
NewTxn == [active |-> TRUE, rows |-> {}, tried |-> FALSE, returned |-> FALSE,
           failed |-> FALSE, nested |-> FALSE]

\* rows: what an executeUpdate() in progress inserts.
Call == [op : {"none", "begin", "commit", "rollback", "destroy", "update"}, rows : SUBSET Rows]
NoCall == [op |-> "none", rows |-> {}]

TypeOK ==
    /\ ServerTypeOK
    /\ txns \in Seq(Txn)
    /\ call \in Call
    /\ used \in SUBSET Rows

Init == ServerInit /\ txns = <<>> /\ call = NoCall /\ used = {}

Free == call.op = "none"
Innermost == Len(txns)
HasActive == Innermost > 0 /\ Last(txns).active

\* dbsqlexec() succeeded: the loop begins.  It failed: the call throws.
Goes(op, rows, reply) == call' = IF reply = "succeed" THEN [op |-> op, rows |-> rows] ELSE NoCall

\* A statement that threw is a failure in the life of every object.
Noted(failed) == [i \in DOMAIN txns |-> [txns[i] EXCEPT !.failed = @ \/ failed]]

-----------------------------------------------------------------------------
(* Commands.                                                               *)

\* Mutant: BEGIN TRAN is not executed.
Begin_NotSent ==
    /\ Free /\ Usable /\ Len(txns) < MaxTxns
    /\ call' = [op |-> "begin", rows |-> {}] /\ proc' = "fetching"
    /\ UNCHANGED <<level, store, pending, txns, used>>

Begin ==
    /\ Free /\ Len(txns) < MaxTxns
    /\ \E reply \in Replies : SendBegin(reply) /\ Goes("begin", {}, reply)
    /\ UNCHANGED <<txns, used>>

\* Mutant: the result of dbsqlexec() is not looked at.
Commit_Unchecked ==
    /\ Free /\ HasActive
    /\ \E reply \in Replies :
         /\ SendCommit(reply)
         /\ IF reply = "succeed" THEN Goes("commit", {}, reply)
            ELSE UNCHANGED call
         /\ txns' = [txns EXCEPT ![Innermost] =
                [@ EXCEPT !.tried = TRUE, !.active = (reply = "succeed"), !.returned = (reply = "fail")]]
    /\ UNCHANGED used

Commit ==
    /\ Free /\ HasActive
    /\ \E reply \in Replies : SendCommit(reply) /\ Goes("commit", {}, reply)
    /\ txns' = [txns EXCEPT ![Innermost].tried = TRUE]
    /\ UNCHANGED used

Rollback ==
    /\ Free /\ HasActive
    /\ \E reply \in Replies : SendRollback(reply) /\ Goes("rollback", {}, reply)
    /\ UNCHANGED <<txns, used>>

\* Mutant: the destructor does not roll back.
Destroy_Silent ==
    /\ Free /\ Innermost > 0
    /\ txns' = Front(txns)
    /\ UNCHANGED <<server, call, used>>

\* ~SybTransaction() of the innermost object; a failed rollback is swallowed.
Destroy ==
    /\ Free /\ Innermost > 0
    /\ \/ /\ HasActive
          /\ \E reply \in Replies :
               /\ SendRollback(reply) /\ Goes("destroy", {}, reply)
               /\ txns' = IF reply = "succeed" THEN txns ELSE Front(txns)
       \/ ~HasActive /\ txns' = Front(txns) /\ UNCHANGED <<server, call>>
    /\ UNCHANGED used

\* SybPreparedStatement::executeUpdate().
Update(r) ==
    /\ Free /\ r \notin used
    /\ \E reply \in Replies :
         /\ SendWrite(r, reply) /\ Goes("update", {r}, reply)
         /\ txns' = Noted(reply = "fail")
    /\ used' = used \cup {r}

\* executeQuery() of the connection or of a statement: it throws in any case,
\* at the latest in the constructor of the SybReader, and consumes nothing.
Query ==
    /\ Free
    /\ \E reply \in Replies : SendQuery(reply)
    /\ txns' = Noted(TRUE)
    /\ UNCHANGED <<call, used>>

\* The same with an INSERT, as Repository::insert() does.
QueryWrite(r) ==
    /\ Free /\ r \notin used
    /\ \E reply \in Replies : SendWrite(r, reply)
    /\ txns' = Noted(TRUE)
    /\ used' = used \cup {r}
    /\ UNCHANGED call

\* ~SybConnection(), or the connection is lost between two calls.
Disconnect ==
    /\ Free /\ proc # "dead"
    /\ SessionEnds /\ UNCHANGED store
    /\ UNCHANGED client

-----------------------------------------------------------------------------
(* The loops: while (dbresults(dbproc) != NO_MORE_RESULTS).                *)

\* The call returns.
Finished(op) ==
    CASE op = "begin" -> Append([i \in DOMAIN txns |-> [txns[i] EXCEPT !.nested = TRUE]], NewTxn)
      [] op = "commit" -> [txns EXCEPT ![Innermost].active = FALSE, ![Innermost].returned = TRUE]
      [] op = "rollback" -> [txns EXCEPT ![Innermost].active = FALSE]
      [] op = "destroy" -> Front(txns)
      [] op = "update" -> [i \in DOMAIN txns |->
              IF txns[i].active THEN [txns[i] EXCEPT !.rows = @ \cup call.rows] ELSE txns[i]]

\* Mutant: the loop tests for the first result instead of the last.
Drain_FirstResult ==
    /\ ~Free
    /\ \E reply \in {"noMore", "fail"} : Fetch(reply)
    /\ UNCHANGED client

\* On FAIL the loop goes on: a dead process never says NO_MORE_RESULTS.
Drain ==
    /\ ~Free
    /\ \E reply \in {"noMore", "fail"} :
         /\ Fetch(reply)
         /\ IF reply = "noMore" THEN txns' = Finished(call.op) /\ call' = NoCall
            ELSE UNCHANGED <<txns, call>>
    /\ UNCHANGED used

Next ==
    \/ Begin \/ Commit \/ Rollback \/ Destroy
    \/ \E r \in Rows : Update(r) \/ QueryWrite(r)
    \/ Query \/ Disconnect \/ Drain

Spec == Init /\ [][Next]_vars

\* A call in progress goes on; nothing is assumed of the program.
FairSpec == Spec /\ WF_vars(Drain)

-----------------------------------------------------------------------------
(* Properties.                                                             *)

\* On a session that can still be used, every open transaction level belongs
\* to an active object: none is left behind by an exception, a commit that
\* failed or a rollback that was swallowed (SybTransaction.cpp:15-24).  (And TypeOK.)
Balanced ==
    /\ TypeOK
    /\ Free /\ Usable => level <= Cardinality({i \in DOMAIN txns : txns[i].active})

\* commit() of the outermost object returned: everything inserted in its life
\* is stored, also after statements that failed in it and objects nested in
\* it, for COMMIT TRAN fails if the transaction is gone (SybTransaction.cpp:39).
CommitReport ==
    \A i \in DOMAIN txns : i = 1 /\ txns[i].returned => txns[i].rows \subseteq store

\* "Auto-rollback if still active" (SybTransaction.cpp:16): what was inserted
\* in the life of an object that leaves its scope without commit() is undone,
\* unless a statement threw in it (the server may have rolled back already) or
\* another transaction was begun in it (whose rollback() ended both).
Undone(t) == t.active /\ ~t.tried /\ ~t.failed /\ ~t.nested => t.rows \cap store' = {}
AutoRollback == [][Len(txns') < Len(txns) => Undone(Last(txns))]_vars

\* A call that consumes results returns, unless the connection is lost under
\* it: then it never does (SybTransaction.cpp:44 and 69, SybConnection.cpp:145,
\* SybPreparedStatement.cpp:112).
CallReturns == ~Free ~> Free \/ proc = "dead"

=============================================================================
