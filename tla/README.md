# A TLA+ model of the HFT Legacy Migration Framework

Paths are relative to the repository root. The repository holds two database
layers that do not share code, two small process-wide caches, a connection
pool, two repositories, two catalogs, code generators and a Boost.Asio SQL
service.

## 1. Inventory

| Component | Code | State it keeps | Operations | What is hard |
|---|---|---|---|---|
| Connection pool | `include/hft/db/ConnectionPool.hpp` | `_availableConnections` (FIFO), `_shutdown`, a mutex, a condition variable | constructor (pre-creation), `acquire`, `release`, `shutdown`, `availableConnections`, `PooledConnection` | waiters, timeouts and releases interleave; the health check and the factory run while the mutex is held and may fail after the connection has left the queue |
| Statement cache | `include/hft/db/PreparedStatementCache.hpp` | `_cache`: SQL -> `weak_ptr`, a mutex | `get`, `clear`, `size` | the last owner drops its `shared_ptr` without the mutex, between `expired()` and `lock()`; the key does not name the connection |
| Query cache | `include/hft/db/QueryResultCache.hpp` | `_cache`: key -> (data, expiry), `_enabled`, a mutex | `put`, `get`, `contains`, `clear`, `cleanup`, `size`, `setEnabled`, `isEnabled` | check-then-act on `contains`/`get`, a slow fill that arrives after `clear` or `setEnabled(false)` |
| PostgreSQL session (new API) | `src/pg/*.cpp`, `include/hft/pg/*.hpp` | `_conn`, `PgTransaction::_active`, reader position, bound parameters; on the server: transaction status, committed and pending rows | `executeQuery`, `prepare`, `beginTransaction`, `bind*`, `executeUpdate`, `commit`, `rollback`, destructors | a statement that the server executed and the client reports as failed; an aborted transaction; a connection lost between two steps |
| Repository (new API) | `include/hft/repository/Repository.hpp` | none beyond the connection reference | `getAll`, `getById`, `insert`, `update`, `remove`, `insertPS`, `insertBatch` | the transaction of a batch when its first row, the commit or the rollback fails |
| Sybase session (new API) | `src/sybase/*.cpp` | `_dbproc`, `_initialized`, `SybTransaction::_active`; in DB-Lib: pending results | as above over `dbcmd`/`dbsqlexec`/`dbresults` | results left pending by an exception; the loops that wait for `NO_MORE_RESULTS` |
| PostgreSQL layer (`hft::db`) | `src/db/PostgreSQLConnection.cpp` | `conn_`, `lastError_`, the global `statementCounter`, per statement `prepared_` and the parameter vectors, per transaction `active_` | `open`, `close`, `execute`, `createStatement`, `bind*`, `executeQuery`, `executeUpdate`, `reset`, `beginTransaction`, `commit`, `rollback` | `BEGIN` whose failure is ignored; transaction objects that share the one transaction of the server; an unsynchronised counter that names statements; a statement that outlives its server session |
| Sybase layer (`hft::db`) | `src/db/SybaseConnection.cpp` | `login_`, `dbproc_`, `initialized_`, parameters | the same interface | placeholder substitution in SQL text; a `COMMIT` or `ROLLBACK` called while rows are unread is never sent |
| ORM repository | `include/hft/orm/Repository.h` | the connection | `findById`, `findAll`, `insert`, `update`, `deleteById`, `deleteAll` | "not found" and "failed" are the same answer |
| Catalogs | `src/catalog/Catalog.cpp`, `include/hft/catalog/Catalog.h` | table metadata | load from a database, `registerTable`, DDL generation | order of the substring tests in the type mapping; conversion of a boolean column |
| Code generators | `src/codegen/*.cpp`, `include/hft/codegen/CodeGenerator.h` | none | text generation | the fragment that wins the type of a member; how the generated traits are bound |
| SQL service | `asio-sql-service/**` | per session: socket, header and payload buffers; server: acceptor | `accept`, `read_header`, `read_payload`, `handle_request`, `send_response`, client `query_*` | callbacks of several sessions on one loop, buffers that must outlive an asynchronous write, an exception that leaves a handler, a stream that loses message framing |
| Logger, exceptions, entities | `include/hft/db/Logger.hpp`, `DBException.hpp`, `include/hft/entity/**` | log level and file | `log`, setters | `_logLevel` is read without the mutex |

### How the components interact

- A program holds one connection per thread. `ConnectionPool` hands connections
  out and takes them back; on the way it calls the factory and `SELECT 1` of the
  connection itself, with its mutex held.
- `PreparedStatementCache` and `QueryResultCache` are process-wide singletons that
  the program uses next to a connection. Neither calls a connection: the
  statement cache calls a factory it is given, the query cache stores what it is
  given.
- `repository::Repository` calls `IDBConnection` of the new API (`src/pg`,
  `src/sybase`); `orm::Repository` calls `hft::db::IConnection` (`src/db`). The two
  stacks share no code. Failures are exceptions in the first and return values in
  the second.
- Both PostgreSQL stacks talk to a server that keeps the transaction; the objects
  `PgTransaction` and `PostgreSQLTransaction` only keep a flag. The properties of
  these layers relate the flag, the server and what the program was told.
- The catalogs and the generators decide the type of a column and of the member
  that is to hold it, hence what the repositories can bind, store and read back.
- The SQL service is a program of its own: one thread, one `io_context`, a `Session`
  per socket kept alive by the handlers that refer to it, and a blocking client.

### What makes each component correct

- **Pool**: a connection is in one place only; never more connections than the
  pool was made for; no waiter sleeps on a connection nobody is going for;
  nothing is lent after `shutdown()`; every call returns; together, the pool
  behaves as an atomic pool.
- **Statement cache**: callers that ask for a text while a statement of it is alive
  share it; an answer is of the text asked for and younger than the last `clear()`;
  `get()` never answers with nothing.
- **Query cache**: nothing is served at or after its expiry; lazy removal of expired
  entries is invisible; a `clear()` is final.
- **Sessions and transactions (three layers)**: what the program was told about a
  write or a commit is what the server did, unless the connection was lost under
  it; a transaction on the server always has an object that will end it; the work
  of an object destroyed without `commit()` is undone.  Across threads: changes
  wait only in the transaction of the thread that made them.
- **Entities**: a member comes back from the server with the value it went with; a
  statement is refused, or hits another row, only for a reason that can be named.
- **SQL service**: an answer belongs to the query that is waiting; a failed query
  leaves nothing in the stream; an answer that the socket takes at once arrives
  whole although its buffers die; a session ends with its client; a query is
  answered; a client that leaves does not stop the server.

## 2. Modules

| Module | Models | Notes |
|---|---|---|
| `ConnectionPool` | `ConnectionPool.hpp` | at the granularity of the mutex |
| `LeasePool` | what the pool promises | abstract; `ConnectionPool!Promise` is the instance |
| `ConnectionPoolProofs` | | proofs: invariants; the refinement of `LeasePool` |
| `StatementCache` | `PreparedStatementCache.hpp` | `get()` in its steps |
| `SharedStatements` | what the statement cache promises | abstract; `StatementCache!Promise` |
| `PooledSessions`, `PooledSessionsProofs` | programs that use pool, transactions and statement cache together | composes `LeasePool` and `SharedStatements` over PostgreSQL sessions |
| `QueryCache`, `QueryCacheProofs` | `QueryResultCache.hpp` and its documented use | one step per operation |
| `TtlMap` | what a cache with a time to live promises | abstract; `QueryCache!Promise` |
| `PgServer` | one PostgreSQL session as libpq shows it | external |
| `PgSession`, `PgSessionProofs` | `src/pg`, `include/hft/repository/Repository.hpp` | extends `PgServer` |
| `PgLayer` | `src/db/PostgreSQLConnection.cpp` | extends `PgServer` with named statements |
| `Orm`, `OrmProofs` | `include/hft/orm/Repository.h` and a program | extends `PgLayer` |
| `SybServer` | one Sybase session as DB-Library (FreeTDS) shows it | external |
| `SybSession` | `src/sybase` | extends `SybServer` |
| `SybLayer` | `src/db/SybaseConnection.cpp` and a program | extends `SybServer` |
| `SybProofs` | | proofs about both; `Session` is the instance of `SybSession` |
| `Substitution` | the placeholder replacement of both Sybase statement classes | functions on sequences of tokens |
| `TypeMaps` | the type tables of the catalogs and of `EntityGenerator` | functions |
| `EntityPipeline` | an entity from its declaration to a row and back, in both APIs | extends the two |
| `StatementProofs` | | proofs about `StatementCache` and `EntityPipeline` |
| `SqlService`, `SqlServiceProofs` | `asio-sql-service` | server, client and stream |
| `MC*` | | symmetry sets for TLC; the configurations give the bounds |

Operators that start with the name of another one and an underscore
(`Take_NoPop`, `Begin_NotSent`) are marked `Mutant`: each is the definition with a
plausible bug, used to show that a property notices it. No specification uses them.

### Connection pool

The variables are the fields (`available`, `shutdown`, `owner` for the mutex), the wait
set (`pc[t] = "asleep"`), the local `unique_ptr` of a call (`hand`), the leases, and
the health of connections (`broken`). A critical section without a call out of the
class is one step. The health check and the factory are calls out of it and are
steps of their own with `owner` set, so that everybody else can be seen waiting for
them. `acquire()` is `CallAcquire`, then `Wait`/`Deadline`/`TimerWakes`/`SpuriousWake` for
`wait_for` (the standard loop over the predicate), then `TimeOut`, `Refuse` or `Take`, then
`HandOver`, or `FindBroken` followed by `HandOverNew` or `HandOverNothing`. `release()` is
`CallRelease`, `ReleaseClosed` or `ReleaseOpen`, then `PutBack`, or `NoticeBroken` followed
by `PutNew` or `PutNothing`; the last three notify one waiter, any of them.
`PooledConnection` and its destructor are a lease and `CallRelease`. A connection can
stop answering anywhere (`Break`).

### Statement cache

`get()` is `CallGet`, `Find` (takes the mutex, tests `expired()`), then `Lock`, `Make` or
`MakeFails`. `Drop` is an owner that destroys its `shared_ptr`; it needs no mutex and can
come between `Find` and `Lock`. `era` counts `clear()` calls so that properties can tell
a statement made before one from a statement made after.

### Query cache

`Contains`, `Get`, `Query`, `Put`, `Finish` are the loop of `PRODUCTION_FEATURES.md:353-363`;
`Clear`, `Cleanup`, `SetEnabled` come at any time, `Change` changes the data and `Tick` moves
`steady_clock`. A result is the version of the data it was read from.

### PostgreSQL, new API

`PgServer` says what a statement does and what `PQexec` reports: executed and
answered, refused (which dooms an open transaction), or the connection is lost
before or after the server executed it. `PgSession` adds the stack of `PgTransaction`
objects and the program: `ProgramBegins`, `ProgramCommits`, `ProgramRollsBack`,
`ProgramLeavesScope` (the destructor), `ProgramInserts` (`insertPS()`; and `insert()`,
`update()` and `remove()`, whose statement the server executes all the same although
`executeQuery()` throws afterwards), `Select`, and `insertBatch()` as `BatchBegin`,
`BatchInsert`, `BatchCommit`, `BatchRollback`, `BatchEnd`. Each step is one round trip. A
batch may run inside a transaction of the program. No row of a batch is ever executed:
`insertPS()` binds nothing, so `BatchInsert` is its first row being refused, and only a
batch without rows reaches `BatchCommit`. Objects are ended innermost first, as local
variables are; so are those of `SybSession` and `SybLayer`.

### PostgreSQL, `hft::db`, and the ORM repository

`PgLayer` models every object of `PostgreSQLConnection.cpp`: `open()` and `close()`,
statements that are prepared under a counter's name at their first execution and
deallocated by their destructor, and any number of transaction objects, whose `BEGIN`
nobody looks at and which are ended in any order: the server has one transaction for
all of them, a `BEGIN` inside it only warns, and the first `COMMIT` or `ROLLBACK` ends it. `Orm` is
a program that uses a `Repository` (each method is a statement created, executed and
destroyed) and statements and transactions of its own. `told` is what the return
values said; `life` is what happened in the life of each transaction object, up to the
moment another one ends or the connection is opened (`overtaken`).

### Sybase, new API

`SybServer` has the counted transactions of the server and the state of a `DBPROCESS`:
ready, results to fetch, rows unread, dead. In `SybSession` a call that succeeded in
`dbsqlexec()` goes on in `Drain`, the loop `while (dbresults() != NO_MORE_RESULTS)`.

### Sybase, `hft::db`

`SybLayer` has a connection that is opened, closed and opened again, the repository's
writes, queries whose rows wait on the `DBPROCESS`, and nested `SybaseTransaction`
objects. A failure is a return value. `stuck` records that a `COMMIT` or `ROLLBACK` met
unread rows on this session; each object keeps what happened in its life.

### Pool, sessions and statements together

`PooledSessions` uses the atomic pool and the atomic cache, which the detailed modules
are shown to implement, and gives every connection a session: idle, in a transaction,
in a failed one, dead. The health check is `SELECT 1` on that session, so `broken` of
`LeasePool` becomes the sessions that are aborted or dead. `work[c]` are the threads
whose changes wait in the transaction of `c`.

### Entities

`EntityPipeline` follows one entity of up to `MaxCols` members: `HftDeclare` and
`PlainDeclare` (registration or loading, the generated type, the table made by the
catalog or by a script of the program), `HftInsert`, `HftUpdate`, `HftFind`, `PlainInsert`,
`PlainUpdate`, `PlainInsertPS`, `PlainFind`. Values are kinds of contents (`wide` needs 64
bits, `digits` is a text of digits, `ref` contains `$2`), and each conversion says what
becomes of a kind. `OwnStatement` sends a program's own Sybase text through
`BuildSQL` or `BuildFinalSQL` of `Substitution`. `decl.where` says whether the column `id`, which
every statement of the `hft` repository names, is the key, another column or none;
`Selected` is what becomes of the `WHERE`, the key read through an `int64_t*` included.

### SQL service

A stream is a sequence of headers and payloads. The server's handlers are actions
of a session (`ReadHeader`, `RefusePayload`, one action per `handle_query_*`, `Written`,
`IOFails`) and of the acceptor (`AcceptConnection`, `AcceptFails`, `AcceptThrows`); the
client's blocking calls are `Query`, `SendPayload`, `ReceiveHeader`, `ReceivePayload` and
`Disappointed` (an exception). `Send` contains what can go wrong with the buffers of
`send_response()`. One write takes at most 64 KB and no more than there is room for, so
something can be left of an answer that is `long`, or that meets unread bytes; it is
written when the buffers are gone, and arrives as `junk` or, when the memory cannot be
read any more, makes the write fail (`cut`, `WriteFails`). A client that reads `junk` where a
header should be takes its size for anything (`lost`, `ReceiveAnything`). `framed` becomes false when a payload is refused and
the session reads the unread payload as a header (`Misread`).

## 3. What is checked

| Run | Question | Size |
|---|---|---|
| `pool` | Is a connection in one place only, is no wake-up lost, does every call return, and is it the atomic pool of `LeasePool` (within capacity, nothing lent after `shutdown()`)? | 2 threads, 3 objects, `PoolSize` 2, 3 calls per thread |
| `statement_cache` | One live statement per text between two `clear()`; refinement of `SharedStatements` (the right answer) | 2 threads, 2 texts, 3 statements |
| `statement_null` | Does `get()` always return a statement? It does not | 2 threads, 1 text |
| `query_cache` | Finality of a quiet `clear()`, refinement of `TtlMap` (nothing served at its expiry) | 2 clients, 2 keys, 2 lifetimes, 2 changes, 3 ticks |
| `pooled` | Do changes wait only in the transaction of the thread that made them? Does a borrower find the connection outside a transaction? | 2 threads, 2 connections and a spare object, 1 text |
| `pg_session` | Commits told as they are, no orphan transaction beside and inside batches, auto-rollback | 3 rows, up to 3 nested objects |
| `orm` | What `true` and `false` of a write and of `commit()` mean; auto-rollback; statement names | 2 rows, 2 statements, 2 transaction objects, 1 reopening |
| `syb_session` | No transaction left behind on a usable session, truthful commit, auto-rollback, calls return | 3 rows, 2 nested objects |
| `syb_layer` | The same of the `hft::db` layer, with its repository and reopened connections | 2 rows, 2 nested objects, 2 sessions, 3 levels |
| `entities` | Which members survive, why a statement is refused, whose row an update hits, when a Sybase text is the one meant | all entities of up to 4 columns, all texts of up to 3 places |
| `sql_service` | Answers match queries, nothing is left over, an answer an idle socket takes at once is whole, sessions end, queries are answered | 2 clients, 2 requests between them, all four query types |
| `service_down` | Does a client that leaves stop the server? It does if it leaves before its accept handler runs | 2 clients |

A module's type invariant is the first conjunct of its main invariant (`Balanced`,
`NoOrphanTransaction`, `IdleIsQuiet`, `OwnWork`, `RoundTrip`); the pool and the statement
cache check it by itself. `MutexDiscipline`, `CapacityBound`, `NoLeaseAfterShutdown`,
`RightAnswer` and `ServedInTime` are not listed in a configuration: the refinements
that are imply what they say about calls, and they are theorems (section 4).

Many properties have exceptions (`~stuck`, `~life[o].stale`, `misused`, ...). Each
exception is a behaviour of the code that section 6 lists. In `PgSession`, `Orm`,
`SybSession`, `SybLayer`, `PooledSessions` and `EntityPipeline` each one is needed:
with any one of them taken away TLC finds a violation in the same configuration.

The runs whose answer is "it does not" are the findings of section 6.

### Bounds, and why they are enough

- `MaxCalls` 3 with two threads: a thread can hold both connections, return one,
  ask again and be shut down by the other; two threads can wait for each other's
  leases. What needs a third thread (a notified waiter overtaken by a newcomer while
  another one sleeps) is covered by the proofs, which hold for any number.
- `Conns` is one more than `PoolSize`, so that the factory can make a replacement while
  every other object is in use, and can also find none (then it only fails).
- `MaxStatements` 3 with two texts: one is made, dies, is made again while the other
  lives; `clear()` may run as often.
- `MaxTime` 3 with lifetimes 1 and 2: an entry is stored, replaced, seen one instant
  before, at, and after its expiry. `MaxVersion` 2: a result is older than the data by
  one change and by two.
- `Rows` 3 and `MaxTxns` 3 in `pg_session`: two objects of the program inside each other,
  which is where the server's single level shows, with the one of a batch inside both,
  and an insert before, inside and after it.
- `Objects` 2 in `orm`: one transaction object beside another, begun in its life and ended
  before or after it. `Rows` 2: a write reported in the life of each.
- `MaxOpens` 1 in `orm`: one session before and one after a reconnection, which
  statements and a transaction object can outlive. `syb_layer` starts without a session
  and opens 2. `MaxLevel` 2 there: a level is begun on top of two that are open, one of
  them possibly left behind.
- `StmtIds` 1 in `pooled`: one statement of a text on each connection; `Conns` has an
  object to replace a connection that died, so that pointers to the old one meet the
  new one.
- `MaxCols` 4: a key and three members, so that a member lies before, at and behind a
  `bool`, and a text with `$2` meets a second and a third parameter. `OwnRefs` {1, 2, 10}
  and `MaxOwn` 3: `$1` beside `$10`, a repeated place, places out of order.
- `MaxRequests` 2 between two clients: two sessions at work at once, one client with a second
  query after a failed, cut or lost answer, or one session after the other has ended. A
  session handles one request at a time, so more requests repeat these. `Programs` gives
  each client's first and second request a type of its own, so that all four handlers
  interleave; what a handler does depends on the type in nothing but the type it answers with.

Deadlock is not checked where programs may stop: all calls used up, a connection
lost for good, a client that has disconnected.

### Fairness

- `pool`: weak fairness of each thread's own steps and of its deadline. The code has no
  unbounded wait: `wait_for` has a timeout, and each health check and factory call
  returns (libpq and DB-Library calls are taken to return). Nothing is assumed of
  which thread gets a contended mutex: a thread that keeps losing it forever would
  need others to keep calling, and calls are bounded by `MaxCalls`. Hence `CallReturns`
  says nothing of starvation under unbounded contention.
- `sql_service`: `io_context::run()` runs each handler that is ready, and a client inside
  `query_*()` goes on. Nothing is assumed of when clients query or hang up.
- `syb_session`: a call that is consuming results goes on. Nothing is assumed of the
  program or of the network.

## 4. What is proved

TLAPS proves the following for every value of the constants that satisfies the named
assumptions (`ThreadsAssumption`, `ConnsAssumption`, `SizesAssumption`,
`StatementCacheAssumption`, `QueryCacheAssumption`, `PooledAssumption`,
`PipelineAssumption`, `BoundsAssumption`, `LayerAssumption`, `ServiceAssumption`: finiteness
of the set of threads, natural bounds, and distinct values for "none").

**Pool.** The inductive invariant is built in layers; each layer uses the ones before.

1. Types and `MutexDiscipline`: exactly the thread in a critical section owns the
   mutex, and a call has a connection in hand exactly between taking it and giving it
   away (`TypeCorrect`, `MutexDisciplined`). The other invariants need it because the
   health check and the factory run in the middle of `acquire()` and `release()`.
2. `ClosedIsEmpty`: from the mutex follows that `shutdown()` never runs under a call that
   is about to queue or to take a connection (`ClosedStaysEmpty`); the action property
   `NoLateLease` follows.
3. `NoLostWakeup` is inductive with the first two: as long as somebody sleeps there are
   at most as many queued connections as awake waiters, since `release()` adds one of
   each and a taker removes one connection (`WakeupsNotLost`).
4. `ExclusiveOwnership`, and with it `CapacityBound`: the set of live connections only
   grows by a fresh one that replaces one in hand (`OwnershipExclusive`,
   `CapacityBounded`; `PopFacts`, `PushFacts`, `SwapFacts` are the lemmas on queues and
   cardinalities).

**Statement cache.** `OneLiveStatement` is not inductive. `Sharing` adds that the map finds
every live statement made since the last `clear()` (`Findable`), that an entry is of its
key's text and of this era (`Keyed`), and that a thread about to make a statement has
found none alive and holds the mutex (`Guarded`). `Shared` and `AnswersRight` follow.
`QuietStep` takes care of `Drop`, the step that the mutex does not protect: it only makes
statements die.

**Query cache.** `Floored` (nothing in the cache or about to be stored is older than the
last quiet `clear()`) gives `ClearIsFinal`; `Timed` (an entry expires its time to live
after it was stored) gives `NothingServedLate`; `Implements` shows that every step of
`QueryCache` is a step or a stutter of `TtlMap` under the mapping that hides expired
entries.

**The atomic pool.** `ConnectionPoolProofs.Implements`: under the mapping in which a connection
on its way out still counts as the front of the queue, and one on its way in as still
leased, until the call unlocks the mutex, every step of
`ConnectionPool` is a step or a stutter of `LeasePool`. It rests on the invariants of the
pool: the mutex makes the mapped queue well defined (at most one call has taken the
front and not yet decided), and `ExclusiveOwnership` makes a replacement an object that
is nowhere else. Likewise `StatementProofs.Implements` for `SharedStatements`, where a
lookup that finds a live statement and the creation of one are the two visible steps
(`StepRefines`), and a statement just made is one that nobody has (`MadeIsNew`).
So what `PooledSessions` builds on, the two atomic modules, is proved and not only checked.

**Pool, sessions and statements together.** `OwnWork` is inductive only with its
neighbours (`Disciplined`): a connection is in one place (`OnePlace`), changes wait only
in a transaction (`WorkInside`), a transaction on a connection nobody misused is that of
the borrower (`OwnTransaction`), and what is not in use has no session (`UnusedIsNew`).
The argument for `OwnTransaction`: only a borrower can begin; a connection that is
returned in a transaction counts as misused; a session in a failed transaction does
not pass the health check; a destroyed connection loses its session. `OwnWorkHolds` and
`LeasesClean` follow.

**PostgreSQL session.** `Truthful`: only the innermost object may be free of nested ones,
and it speaks for the session (`TopSpeaks`: while it is active, untroubled and the
connection lives, the session is in a transaction that contains its rows); a
transaction has an active object (`Owned`); each row is inserted once (`RowsOnce`).
`BeginSpeaks`, `EndSpeaks`, `DestroySpeaks`, `FailureSpeaks` and `InsertSpeaks` are the
operations. `NoneOrphaned`, `CommitsTold` and `FlatRolledBack` follow, for any depth of
nesting.

**ORM repository on PostgreSQL.** Two layers. `Calls`: numbers are given once, and a live
session knows every live statement prepared on it (`NamesKept`); a statement of an
earlier session is dropped in a transaction only if the life of the object records it
(`DropsOwn`); a row is written by the call that asked for it (`AskedFirst`). `Truth`
needs them: each object in whose life nothing was opened and no other object ended speaks
for the session (`Speaks`: the session is in a transaction, none of the object's rows is
stored, and while no call has failed and no such statement was dropped they are all
pending), however many such objects there are. What makes this inductive with several
objects is that the end of any one overtakes all the others, whatever the server
answered (`EndTruth`), and that a `BEGIN` inside a transaction leaves the rows of the outer
objects pending (`BeginTruth`); nothing is pending outside a transaction that can still
commit, and a transaction has an active object (`Owned`); a row is written once (`WritesOnce`).
A `DEALLOCATE` of an unknown name is the one failure nobody is told of, which `DropsOwn`
makes visible. Steps fall in four kinds,
each with a lemma: those that write nothing (`QuietStep`), a failure that is reported
(`FailureTold`), a write answered (`SuccessTold`), and a write whose answer is lost
(`LossTold`). `OpenEnds` is what a step that ends an object's life in the open leaves behind.
`NeverOrphan`, `NamesAgree`, `WritesReported`, `CommitsReported` and `RolledBack` follow, for
any number of rows, statements, transaction objects and connections opened, and from
`NamesKept` the action property `NamesGone`: only a destructor takes a statement away
(`StatementsStay`), and however its `DEALLOCATE` ends, the session keeps the name only if
its transaction had failed.

**SQL service.** `InStep`: on a connection that kept its framing, where the client is
determines what the two streams hold and how far the session is (`Exchange`): nobody has
read the header of the query, or the session has and waits for the payload (`Reading`),
or it has answered and the client has not read all of it. An answer can be short of a
payload for good only if its session is gone or about to go (`Cut`), and only what is `long`
is replaced by other bytes (`Payloads`): by the invariant the stream to the client is empty
whenever a session that kept its framing answers. It needs `Queued` (a new
connection waits for one session and is in the queue once, so that an accept never
restarts a session) and `Numbered`. `ClientExchange`, `SessionExchange` and
`AcceptExchange` are the three sides. `IdleQuiet`, `AnswersMatched` and the action property
`ShortAnswersArrive` follow, for any number of clients and requests.

**Sybase, both classes.** One module, since the argument is one: a session counts its
levels, each active object has one, and whoever looks at the objects knows what the
server holds as long as the two counts agree.

- `Orderly` is the invariant of `SybLayer`. `Covered` (the levels are at most the active
  objects, unless a call was stuck) is half of `Balanced`, and the rest is what makes the
  other properties inductive: `OutermostHolds` says that *while the two counts are
  equal* the outermost object's rows are on the server. If the server ends a transaction
  behind the program's back the counts differ from then on, and by `Covered` they can
  never become equal again while the outermost object is active, so its `COMMIT` finds no
  level and answers false. `InnermostOpen` says that an object with nothing nested in it
  and no failure in its life is in a transaction, so that none of its rows is
  stored. `Unwritten` (the server has no row the program has not tried to write) and
  `Quiet` (no level, no pending rows) serve `WriteReport`. `EndKeeps` is the central
  lemma: `commit()` and `rollback()` of the innermost object, whatever is answered.
  `LayerWritesTold`, `LayerBalanced`, `LayerCommitsTold` and `LayerRolledBack` follow;
  `OthersStay` shows that only the destructor makes the list of objects shorter.
- `Steady` is the invariant of `SybSession`. A call takes two steps or more there: the
  server has begun a level before the object exists, and has ended one before the object
  knows it. `Accounted` and `Whole` therefore add what the call in progress owes
  (`Accounted` is `Balanced` through the loops), and both speak of a usable session only: an object destroyed
  while rows are unread leaves its level behind until the session dies. `ThrowsKeep` (the
  call throws), `GoesKeep` (it goes on to its loop), `DropKeeps` (an object goes out of
  scope), `ClosedKeeps` and `BegunKeeps` (the loop has ended) are the kinds of steps.
  `SessionBalanced`, `SessionCommitsTold` and `SessionRolledBack` follow: they state
  `Balanced`, `CommitReport` and `AutoRollback` of `SybSession`.

TLC checked both invariants on the instances of `syb_layer` and `syb_session`, and
`Steady` with three objects at a time, before they were proved.

**Entities.** `StatementProofs` proves the four invariants of `EntityPipeline` for tables of
any number of columns and programs' statements of any length. (Its definitions are named
`PipelineInit`, `PipelineNext`, ... because the module extends `StatementCache` too.)

- *Sequences.* The builders are folds of the library, and its induction theorems take a
  predicate as a parameter, which the provers cannot instantiate. Induction is therefore
  stated about sets: a set of numbers that holds 0 and every successor is all of them
  (`NumberInduction`), a set of sequences closed under `Append` is all of them
  (`SequenceInduction`). Both rest on the theorem that the order of the numbers is well
  founded. What the folds compute follows (`FlattenIs`, `FoldsExist`, `BuildSQLSteps`,
  `BuildFinalSQLSteps`), and with it the laws of `FlatMap`, to which `Select`, the
  replacements and the statement that is meant are reduced.
- *Substitution.* After k parameters the statement is the original one with the
  references up to k filled (`Filled`). For `buildFinalSQL()` (`BuildFinalSQLExact`) that
  needs placeholders below 10 and no value that refers to a later parameter; for
  `buildSQL()`, which replaces the first place it finds, no such value and placeholders that
  rise, so that what stands before the place is clean of k (`ReplaceBehind`, `TailExact`,
  `BuildSQLExact`).
  `SubstitutionIsExact` is the theorem.
- *Places.* In a statement of the repository the column of a placeholder holds its own
  parameter (`Place`), unless the first parameter is a text with `$2` and the place is one
  of the first two; in that case too the places from the third on are right, because
  what the first two replacements leave behind has no reference above 2.
  `bindEntityToStatement()` binds the members before the first bool in place
  (`BindEntityInPlace`), and the key behind them moves none (`WithKey`).
- *Rows.* `ColumnTaken` and `TextsStored` say what a server makes of a member at its
  place, type by type; `WriteKeeps` carries this to `RoundTrip` and `RefusedForCause`, and
  `SelectedIs` and `KeyRefused` say when the `WHERE` of an update is the cause.
  They are inductive only together, with `DeclIs` (the columns are columns the catalogs,
  generators or scripts make, so the types of member and column fit) and `RowIs` (nothing
  is written or found without a table): `PipelineInv`. `PipelineSafe` has one lemma per action,
  and `EntitiesRoundTrip`, `RefusalsHaveACause` and `UpdatesOwnRow` follow.

TLC checked `PipelineInv` on all entities of up to three columns before it was proved.

**Only model-checked.** Liveness (`CallReturns` of the pool and of `SybSession`,
`SessionEnds` and `Answered` of `SqlService`), which needs fairness: the provers do not handle it.

## 5. Assumptions about code outside the repository

- **PostgreSQL and libpq** (`PgServer`): a statement is atomic; outside a transaction it
  commits by itself; an error in a transaction dooms it; `BEGIN` in a transaction and
  `COMMIT` or `ROLLBACK` outside one only warn; `COMMIT` of a doomed transaction rolls
  back and reports `PGRES_COMMAND_OK`; a lost connection makes every later call fail.
- **Sybase and FreeTDS** (`SybServer`): unread rows make the next command fail, unread
  results without rows are consumed by it; the error of a single statement shows in
  `dbsqlexec()`; `BEGIN` adds a level, `COMMIT` takes one away and makes the work permanent with the
  last, `ROLLBACK` ends all of them, and a `COMMIT` or `ROLLBACK` without a level is an error,
  which `dbsqlexec()` reports (the `CommitReport`s of both Sybase modules rest on it); a server may
  end the whole transaction under any statement; a dead process fails every call; a text column of the repository's
  Sybase tables takes 255 characters and an `int` column refuses a quoted text.
- **C++ library**: `wait_for` with a predicate is the standard loop; `weak_ptr::lock()` is
  atomic.
- **Boost.Asio**: handlers run one at a time on the one thread that calls `run()`; a write
  is started at once and takes at most 64 KB, and no more than the socket has room for; the
  rest is written later, from the memory the buffers point to, which by then holds other
  bytes or cannot be read any more. An idle socket has room for an answer that is not `long`.
- Memory is not exhausted, but for the one place where the size comes from a message
  (`RefusePayload`).

## 6. Findings

| Run | Code | What the run shows |
|---|---|---|
| `statement_null` | `PreparedStatementCache.hpp:25` | `get()` returns a null pointer when the last owner lets go between `expired()` and `lock()` |
| `service_down` | `sql_server.hpp:494` | a peer that has gone makes `remote_endpoint()` throw, and the exception ends the server |

Seen while modelling, stated by a property's exception or by a definition's comment,
and not given a run of its own:

Pool and caches
- The pool loses a slot for good when a broken connection cannot be replaced, and
  `acquire()` passes on a null connection if the factory returns one.
- A connection returned in mid-transaction passes `SELECT 1` and is lent on with its
  transaction; a transaction or statement object that outlives its lease works on
  whoever has the connection then (`misused` in `PooledSessions`).
- The statement cache is keyed by text alone: a statement of one thread's connection is
  handed to a thread that works on another (`PRODUCTION_FEATURES.md:319-336` describes the
  sharing, :544 one connection per thread). It keeps only `weak_ptr`s: a statement
  that nobody holds is prepared again.
- `setEnabled(false)` empties the query cache and does not stop `put()`; `get()` may be
  empty after `contains()` was true.

PostgreSQL
- `executeQuery()` accepts only `PGRES_TUPLES_OK` (`PgConnection.cpp:48`): `insert()`,
  `update()` and `remove()` of the plain repository throw after the server has executed
  the statement; `PRODUCTION_FEATURES.md:132` uses `insert()` as an operation that succeeds.
- `COMMIT` of a transaction in which a statement failed is answered by a rollback and
  `PGRES_COMMAND_OK`. In `src/db` a refused query is reported as "not found", and
  `commit()` then returns true for what was rolled back (`PostgreSQLConnection.cpp:283`,
  `ITransaction.h:14`); the exceptions in both `CommitReport`.
- `BEGIN` inside a transaction only warns: the inner object's `commit()` commits the
  outer object's work (`FlatAutoRollback` excepts such objects). In `src/db` too: after an
  inner `rollback()` the outer `commit()` returns true with nothing stored, and what is
  written after an inner `commit()` commits by itself (`overtaken`, the exception in `AutoRollback`
  and `CommitReport` of `Orm`).
- `insertPS()` binds no member, so no row of a batch is ever executed: `insertBatch()` throws
  unless the batch is empty.
- A statement destroyed in a failed transaction leaves its name on the server for
  the life of the session (`NamesReleased`); `open()` on an open connection leaks the
  session (`overtaken` again).

Sybase
- The reader's constructor throws in the code compiled with Sybase support
  (`SybReader.cpp:15`): every query throws, its rows stay unread until the session
  dies, since nobody has the reader that could take them, and no command can be sent before
  that, the rollback of the destructor included.
- In `src/db` a `COMMIT` or `ROLLBACK` called while a result set is unread is not sent,
  the object becomes inactive, and the level stays open (`stuck`).
- The loops of `src/sybase` over results never end when the connection is lost under
  them (the exception in `CallReturns`).
- Values are put into the text one after another, so `$2` inside the first value is
  replaced by the second; an `UPDATE` whose only member is such a text can hit another
  row (`OwnRowOnly`). `$1` is found in `$10` by `buildFinalSQL()`.

SQL service
- `send_response()` gives `async_write()` buffers that refer to its locals (`sql_server.hpp:426-434`),
  so the part of an answer that the first write does not take is sent from freed memory:
  the exception in `ShortAnswersWhole`. `README.md:639` of the service recommends streamed
  answers for "large result sets".
- A request whose payload cannot be allocated is answered, and its payload then read as a
  header (`framed`).

Entities
- A `bool` member is skipped without advancing the index: the members behind it are
  bound to the column before theirs (`orm/Repository.h:208`).
- An `int32` key is read through an `int64_t*` (`orm/Repository.h:119`), so that its upper half is
  whatever lies behind it. The number is then no `int4`: PostgreSQL refuses the `update()`, and
  on Sybase it misses its row.
- Every `WHERE` names the column `id` (`orm/Repository.h:28`, `:130`, `:143`): without such a column the
  statement is refused, and if it is not the key, other rows are found and changed
  (`RefusedForCause`, `OwnRowOnly`).
- A table made by the `hft` catalog gives its key no default, and `insert()` leaves the key
  out (`orm/Repository.h:76` says "Skip auto-increment primary key"), so no insert is taken;
  two key columns give two `PRIMARY KEY` clauses.
- The plain repository prints text members without quotes, and `insertPS()` binds
  nothing: PostgreSQL refuses it, and Sybase stores the numbers of the placeholders.
- Doubles are printed with six decimals; `VARCHAR(255)` cuts longer texts.
- `Catalog::loadPostgres()` throws on the first boolean column, `loadSybase()` when it asks
  for the columns while the list of tables is being read: neither can succeed with
  the repository's drivers.

## 7. Not modelled

- The destruction of a pool that is in use, and the lifetime of the pool a
  `PooledConnection` refers to: nothing in the repository owns a pool.
- Calls through a pointer to a destroyed connection whose place no other connection
  has taken; two result sets read in turns from one `DBPROCESS`; the upper half of an
  `int32` key beyond "no `int4`" when it is not zero.
- Keys of other types than `int32` and `int64`, the order of several key members, and
  `update()` of an entity without another member (`ScriptRow` makes no row for it).
- Transaction objects of `src/pg`, `src/sybase` and the `hft::db` Sybase layer that are not ended
  innermost first; in the `hft::db` PostgreSQL layer any order is modelled.
- A client of the SQL service that runs out of memory over the size in a junk header (for
  `Answered`, reading junk to the end counts as an answer), and payloads over 4 GB, whose
  size the header cannot hold.
- The branches under `WITH_POSTGRESQL` of the service's handlers, which use a
  constructor and a `connect()` that `PostgreSQLConnection` does not have; the model takes
  what a handler answers as an answer of its type, short or `long`, or an error, which covers
  both branches. (The mock answers of the other branch are short.)
- The unsynchronised increment of `statementCounter` between threads: `NamesMatch` is
  about one thread.
- Wording: the SQL keywords, JSON and binary encodings of the service, the text that
  `RepositoryGenerator` and `UnitTestGenerator` write around names, `main_codegen`, whose
  stand-in connection returns null readers.
- `Logger` (its one hazard is an unsynchronised read of the log level, which decides
  only what is printed), exceptions and entities, which have no operations; the
  example programs, which only call what is modelled.
- Vendored headers: `include/nlohmann/json.hpp` and `include/cxxopts/cxxopts.hpp` are four
  fifths of all lines under `src/` and no part of this system. Of the rest, most of
  what keeps state is mapped.

## 8. Order of the work

The modules were written in this order: the pool, with its abstract specification
and the proofs of its safety; the two caches with their proofs; the PostgreSQL session
and the repository; the SQL service; the `hft::db` layer with the ORM repository; the
Sybase session; the Sybase `hft::db` layer; pool, sessions and statement cache together;
the way of an entity, and last its proofs. Still open: two threads that increment
`statementCounter` (needs a composition of two `PgLayer` sessions).
