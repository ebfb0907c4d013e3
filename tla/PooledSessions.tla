--------------------------- MODULE PooledSessions ---------------------------
(***************************************************************************)
(* Programs that use the connection pool, transaction objects and the      *)
(* prepared statement cache together, on PostgreSQL connections.  The pool *)
(* and the cache are the atomic ones that ConnectionPool and               *)
(* StatementCache implement (LeasePool, SharedStatements); this module     *)
(* adds the session behind each connection, which the three share:         *)
(*                                                                         *)
(*  - the pool's health check is one SELECT 1.  It fails in a transaction  *)
(*    in which a command failed, and succeeds in one that is merely open;  *)
(*  - a PgTransaction and a PgPreparedStatement keep a plain pointer to    *)
(*    their PgConnection, and the cache is keyed by the SQL text only.     *)
(*                                                                         *)
(* A call through a pointer to a connection that was destroyed is          *)
(* undefined; it is modelled when the object's place was taken by a new    *)
(* connection, which then gets the call, and is left out otherwise.        *)
(***************************************************************************)
EXTENDS Naturals, FiniteSets, SequencesExt

CONSTANTS
    Threads, Conns, PoolSize,
    Sqls,       \* SQL texts that are prepared through the cache
    StmtIds,    \* bound: statements of one text on one connection at a time
    Null

ASSUME PooledAssumption == PoolSize \in Nat /\ Null \notin Conns

Statements == [sql : Sqls, on : Conns, id : StmtIds]

VARIABLES
    queue, held, closed,    \* the pool: idle and lent connections
    session,    \* connection -> "idle", "open", "aborted" (transaction), "dead"
    work,       \* connection -> the threads whose changes are not yet committed
    txn,        \* thread -> the connection of its active PgTransaction, or Null
    current, owns,          \* the statement cache and the statements kept
    misused     \* for properties: connections returned during a transaction, or
                \* used by a thread that had not borrowed them

pool == <<queue, held, closed>>
cache == <<current, owns>>
vars == <<queue, held, closed, session, work, txn, current, owns, misused>>

InUse == ToSet(queue) \cup UNION {held[t] : t \in Threads}
Unhealthy == {c \in InUse : session[c] \in {"aborted", "dead"}}

Pool == INSTANCE LeasePool WITH broken <- Unhealthy
Cache == INSTANCE SharedStatements

\* Sessions, transaction objects and statements refer to connections that exist
\* or existed; nothing else is ever stored in them.
TypeOK ==
    /\ queue \in Seq(Conns) /\ held \in [Threads -> SUBSET Conns] /\ closed \in BOOLEAN
    /\ session \in [Conns -> {"idle", "open", "aborted", "dead"}]
    /\ work \in [Conns -> SUBSET Threads]
    /\ txn \in [Threads -> Conns \cup {Null}]
    /\ owns \in [Threads -> SUBSET Statements]
    /\ current \in [Sqls -> Statements \cup {Null}]
    /\ misused \in SUBSET Conns

\* The constructor of the pool, with every attempt to connect succeeding.
Init ==
    /\ queue \in [1 .. PoolSize -> Conns] /\ IsInjective(queue)
    /\ held = [t \in Threads |-> {}]
    /\ closed = FALSE
    /\ session = [c \in Conns |-> "idle"]
    /\ work = [c \in Conns |-> {}]
    /\ txn = [t \in Threads |-> Null]
    /\ Cache!Init
    /\ misused = {}

-----------------------------------------------------------------------------
(* The pool.  Destroying a connection ends its session.                    *)

\* The connections in C are destroyed, and the server rolls back.
Discard(C) ==
    /\ session' = [c \in Conns |-> IF c \in C THEN "idle" ELSE session[c]]
    /\ work' = [c \in Conns |-> IF c \in C THEN {} ELSE work[c]]
    /\ misused' = misused \ C

Acquire(t) ==
    /\ \/ Discard({}) /\ Pool!LendFront(t)
       \/ queue # <<>> /\ Discard({Head(queue)})
            /\ (Pool!LoseFront \/ \E d \in Conns : Pool!LendReplacement(t, d))
    /\ UNCHANGED <<txn, cache>>

\* release(): the connection is kept if it answers, whatever its transaction.
Release(t, c) ==
    /\ \/ /\ UNCHANGED <<session, work>>
          /\ misused' = IF session[c] = "open" THEN misused \cup {c} ELSE misused
          /\ Pool!Queue(t, c)
       \/ /\ c \in held[t] /\ Discard({c})
          /\ (Pool!Destroy(t, c) \/ \E d \in Conns : Pool!QueueReplacement(t, c, d))
    /\ UNCHANGED <<txn, cache>>

Shutdown ==
    /\ Discard(ToSet(queue))
    /\ Pool!Close
    /\ UNCHANGED <<txn, cache>>

\* The server or the network is gone.
Break(c) ==
    /\ c \in InUse /\ session[c] # "dead"
    /\ session' = [session EXCEPT ![c] = "dead"]
    /\ work' = [work EXCEPT ![c] = {}]
    /\ UNCHANGED <<pool, txn, cache, misused>>

-----------------------------------------------------------------------------
(* Commands, sent by whoever has a pointer to the connection.              *)

Touch(t, c) == misused' = IF c \in held[t] THEN misused ELSE misused \cup {c}

\* One statement.  Outside a transaction it commits by itself or fails; in one
\* its changes wait, and if it fails the whole transaction is aborted.
Run(t, c) ==
    /\ c \in InUse
    /\ Touch(t, c)
    /\ \/ UNCHANGED <<session, work>>
       \/ /\ session[c] = "open"
          /\ work' = [work EXCEPT ![c] = @ \cup {t}]
          /\ session' \in {session, [session EXCEPT ![c] = "aborted"]}
    /\ UNCHANGED <<pool, txn, cache>>

Execute(t, c) == c \in held[t] /\ Run(t, c)

\* Through a prepared statement, on the connection it was prepared on.
ExecuteKept(t, st) == st \in owns[t] /\ Run(t, st.on)

\* beginTransaction() throws on a session that refuses BEGIN.  In an open
\* transaction BEGIN is only a warning.
Begin(t, c) ==
    /\ c \in held[t] /\ txn[t] = Null
    /\ session[c] \in {"idle", "open"}
    /\ session' = [session EXCEPT ![c] = "open"]
    /\ txn' = [txn EXCEPT ![t] = c]
    /\ UNCHANGED <<pool, work, cache, misused>>

\* COMMIT or ROLLBACK reaches the server: the transaction of the session ends,
\* whoever began it and whoever worked in it.
End(t) ==
    /\ txn[t] \in InUse /\ session[txn[t]] # "dead"
    /\ Touch(t, txn[t])
    /\ session' = [session EXCEPT ![txn[t]] = "idle"]
    /\ work' = [work EXCEPT ![txn[t]] = {}]
    /\ UNCHANGED <<pool, cache>>

\* Mutant: the destructor leaves the rollback to the server.
Destructor_Silent(t) ==
    /\ txn[t] \in InUse
    /\ txn' = [txn EXCEPT ![t] = Null]
    /\ UNCHANGED <<pool, session, work, cache, misused>>

\* ~PgTransaction of an active transaction, or rollback() and then it.
Destructor(t) ==
    /\ txn' = [txn EXCEPT ![t] = Null]
    /\ \/ End(t)
       \/ /\ txn[t] \in InUse /\ session[txn[t]] = "dead"
          /\ UNCHANGED <<pool, session, work, cache, misused>>

\* commit(): the object stays active if the server refuses, as it may an open
\* transaction; the COMMIT of an aborted one is answered by a rollback.
Commit(t) ==
    /\ End(t)
    /\ \/ txn' = [txn EXCEPT ![t] = Null]
       \/ session[txn[t]] = "open" /\ UNCHANGED txn

-----------------------------------------------------------------------------
(* The cache.                                                              *)

\* cache.get(sql, factory): the factory would prepare on the caller's c.
Get(t, c, s) ==
    /\ c \in held[t]
    /\ \/ Cache!Share(t, s)
       \/ \E id \in StmtIds : Cache!Prepare(t, s, [sql |-> s, on |-> c, id |-> id])
    /\ UNCHANGED <<pool, session, work, txn, misused>>

LetGo(t, st) == Cache!LetGo(t, st) /\ UNCHANGED <<pool, session, work, txn, misused>>
Clear == Cache!Forget /\ UNCHANGED <<pool, session, work, txn, misused>>

Next ==
    \/ \E t \in Threads :
         \/ Acquire(t) \/ Destructor(t) \/ Commit(t)
         \/ \E c \in Conns :
              \/ Release(t, c) \/ Execute(t, c) \/ Begin(t, c)
              \/ \E s \in Sqls : Get(t, c, s)
         \/ \E st \in owns[t] : ExecuteKept(t, st) \/ LetGo(t, st)
    \/ \E c \in Conns : Break(c)
    \/ Shutdown \/ Clear

Spec == Init /\ [][Next]_vars

-----------------------------------------------------------------------------
(* Properties.                                                             *)

\* Changes wait for a commit only in the transaction of the thread that made
\* them, on a connection that thread has borrowed: unless the connection was
\* returned with a transaction in progress, or a statement or transaction
\* object was used on it without a lease, no COMMIT takes along, and no ROLLBACK
\* undoes, what another thread did.  (And TypeOK.)
OwnWork ==
    /\ TypeOK
    /\ \A c \in InUse \ misused : \A u \in work[c] : c \in held[u] /\ txn[u] = c

\* A borrower finds the connection outside any transaction, with the same
\* exceptions; so one thread's failed transaction never reaches another.
CleanLease ==
    [][\A t \in Threads : \A c \in held'[t] \ held[t] :
         session'[c] = "idle" \/ c \in misused]_vars
=============================================================================
