--------------------------- MODULE StatementCache ---------------------------
(***************************************************************************)
(* The prepared statement cache of                                         *)
(* include/hft/db/PreparedStatementCache.hpp.  get() runs with the mutex   *)
(* held, but the owners of a statement drop their shared_ptr without it:   *)
(* a statement can die between any two steps of get(), in particular       *)
(* between expired() and lock() of the weak_ptr the cache keeps.  The map  *)
(* is keyed by the SQL text.                                               *)
(***************************************************************************)
EXTENDS Naturals, FiniteSets

CONSTANTS
    Threads,
    Sqls,           \* SQL texts
    Null,           \* null pointer, no thread, no entry
    MaxStatements   \* bound: statements prepared

ASSUME StatementCacheAssumption ==
    /\ Null \notin Threads
    /\ Null \notin [id : Nat, sql : Sqls, era : Nat]
    /\ MaxStatements \in Nat

VARIABLES
    entry,      \* _cache: SQL -> statement its weak_ptr refers to
    owner,      \* the thread that holds _mutex
    pc,         \* where a thread is in get()
    asked,      \* the SQL it asks for
    owns,       \* the statements a thread holds a shared_ptr to
    got,        \* what its last get() returned, until it lets go of it
    prepared,   \* the statements ever prepared
    era         \* for a property: how many times clear() has run

vars == <<entry, owner, pc, asked, owns, got, prepared, era>>

\* A statement: its text, and the clear() after which it was prepared.
Statement == [id : 1 .. MaxStatements, sql : Sqls, era : 0 .. MaxStatements]

Live == UNION {owns[t] : t \in Threads}     \* use count above zero

TypeOK ==
    /\ entry \in [Sqls -> Statement \cup {Null}]
    /\ owner \in Threads \cup {Null}
    /\ pc \in [Threads -> {"idle", "get", "lock", "make"}]
    /\ asked \in [Threads -> Sqls]
    /\ owns \in [Threads -> SUBSET Statement]
    /\ got \in [Threads -> Statement \cup {Null}]
    /\ prepared \in SUBSET Statement
    /\ era \in 0 .. MaxStatements

Init ==
    /\ entry = [s \in Sqls |-> Null]
    /\ owner = Null
    /\ pc = [t \in Threads |-> "idle"]
    /\ asked \in [Threads -> Sqls]
    /\ owns = [t \in Threads |-> {}]
    /\ got = [t \in Threads |-> Null]
    /\ prepared = {}
    /\ era = 0

Goto(t, l) == pc' = [pc EXCEPT ![t] = l]

\* Mutant: the null pointer is counted as a statement.
Return_Null(t, st) ==
    /\ owner' = Null
    /\ got' = [got EXCEPT ![t] = st]
    /\ owns' = [owns EXCEPT ![t] = @ \cup {st}]
    /\ Goto(t, "idle")

Return(t, st) ==
    /\ owner' = Null
    /\ got' = [got EXCEPT ![t] = st]
    /\ owns' = [owns EXCEPT ![t] = @ \cup ({st} \ {Null})]
    /\ Goto(t, "idle")

CallGet(t, s) ==
    /\ pc[t] = "idle"
    /\ asked' = [asked EXCEPT ![t] = s]
    /\ got' = [got EXCEPT ![t] = Null]
    /\ Goto(t, "get")
    /\ UNCHANGED <<entry, owner, owns, prepared, era>>

\* Mutant: get() does not take the mutex.
Find_Unlocked(t) ==
    /\ pc[t] = "get"
    /\ Goto(t, IF entry[asked[t]] \in Live THEN "lock" ELSE "make")
    /\ UNCHANGED <<entry, owner, asked, owns, got, prepared, era>>

\* Mutant: every call prepares a statement of its own.
Find_Remakes(t) ==
    /\ pc[t] = "get" /\ owner = Null
    /\ owner' = t
    /\ Goto(t, "make")
    /\ UNCHANGED <<entry, asked, owns, got, prepared, era>>

\* find() and expired().
Find(t) ==
    /\ pc[t] = "get" /\ owner = Null
    /\ owner' = t
    /\ Goto(t, IF entry[asked[t]] \in Live THEN "lock" ELSE "make")
    /\ UNCHANGED <<entry, asked, owns, got, prepared, era>>

\* lock(): a null pointer if the last owner let go since.
Lock(t) ==
    /\ pc[t] = "lock"
    /\ Return(t, IF entry[asked[t]] \in Live THEN entry[asked[t]] ELSE Null)
    /\ UNCHANGED <<entry, asked, prepared, era>>

\* The factory makes a statement, and the cache keeps a weak_ptr to it.
Make(t) ==
    /\ pc[t] = "make" /\ Cardinality(prepared) < MaxStatements
    /\ LET st == [id |-> Cardinality(prepared) + 1, sql |-> asked[t], era |-> era]
       IN  /\ prepared' = prepared \cup {st}
           /\ entry' = [entry EXCEPT ![asked[t]] = st]
           /\ Return(t, st)
    /\ UNCHANGED <<asked, era>>

\* The factory throws: nothing is cached.
MakeFails(t) ==
    /\ pc[t] = "make"
    /\ owner' = Null
    /\ Goto(t, "idle")
    /\ UNCHANGED <<entry, asked, owns, got, prepared, era>>

\* An owner destroys its shared_ptr, at any time and without the mutex.
Drop(t, st) ==
    /\ pc[t] = "idle" /\ st \in owns[t]
    /\ owns' = [owns EXCEPT ![t] = @ \ {st}]
    /\ got' = [got EXCEPT ![t] = IF @ = st THEN Null ELSE @]
    /\ UNCHANGED <<entry, owner, pc, asked, prepared, era>>

Clear ==
    /\ owner = Null /\ era < MaxStatements
    /\ entry' = [s \in Sqls |-> Null]
    /\ era' = era + 1
    /\ UNCHANGED <<owner, pc, asked, owns, got, prepared>>

Next ==
    \/ \E t \in Threads :
         \/ \E s \in Sqls : CallGet(t, s)
         \/ Find(t) \/ Lock(t) \/ Make(t) \/ MakeFails(t)
         \/ \E st \in owns[t] : Drop(t, st)
    \/ Clear

Spec == Init /\ [][Next]_vars

\* What the class promises its callers: whoever asks for a text shares the
\* statement in use, and only when there is none is one prepared.
Promise == INSTANCE SharedStatements WITH current <- entry, Statements <- Statement

-----------------------------------------------------------------------------
(* Properties.                                                             *)

\* Between two clear() calls there is at most one live statement per SQL text:
\* everyone who asks while it is in use shares it.
OneLiveStatement ==
    \A a, b \in Live : a.sql = b.sql /\ a.era = b.era => a = b

\* What get() returns was prepared from the text that was asked for, and since
\* the last clear(): a clear() that other threads' statements survive (line 39
\* only forgets them) is final for every later get().
RightAnswer ==
    [][\A t \in Threads :
         pc[t] \in {"lock", "make"} /\ pc'[t] = "idle" /\ got'[t] # Null
           => got'[t].sql = asked[t] /\ got'[t].era = era]_vars

\* A call of get() is one step of the atomic cache, or none when it returns
\* null or throws, though owners let go of statements while it runs.
RefinesPromise == Promise!Spec

\* "Get or create a prepared statement" (PreparedStatementCache.hpp:16): get()
\* returns a statement, or throws.
NeverNull == [][\A t \in Threads : pc[t] = "lock" /\ pc'[t] = "idle" => got'[t] # Null]_vars
=============================================================================
