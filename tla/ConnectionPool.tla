--------------------------- MODULE ConnectionPool ---------------------------
(***************************************************************************)
(* The connection pool of include/hft/db/ConnectionPool.hpp: a FIFO of     *)
(* idle connections guarded by one mutex and one condition variable.       *)
(* Several threads call acquire(), release() and shutdown().               *)
(*                                                                         *)
(* A step is what a thread does between two points where another thread,   *)
(* the network or the clock may act.  Everything a thread does to the      *)
(* pool's fields it does while it holds the mutex, so a critical section   *)
(* without a call out of the class is one step; the health check and the   *)
(* factory are calls out of it, made with the mutex held, and are steps of *)
(* their own.  wait_for(lock, timeout, predicate) is the standard loop: it *)
(* re-evaluates the predicate with the mutex held after every wake-up,     *)
(* whatever caused it, and gives up only if the deadline has passed and    *)
(* the predicate is still false.                                           *)
(***************************************************************************)
EXTENDS Naturals, FiniteSets, SequencesExt

CONSTANTS
    Threads,    \* the threads that use the pool
    Conns,      \* connection objects; one that was destroyed may come back
    NoThread,   \* the mutex is free
    NoConn,     \* a null unique_ptr
    PoolSize,   \* _poolSize
    MaxCalls    \* bound: the calls of acquire() and shutdown() of one thread

ASSUME ThreadsAssumption == IsFiniteSet(Threads) /\ NoThread \notin Threads
ASSUME ConnsAssumption == NoConn \notin Conns
ASSUME SizesAssumption == PoolSize \in Nat /\ MaxCalls \in Nat

VARIABLES
    available,  \* _availableConnections
    shutdown,   \* _shutdown
    owner,      \* the thread that holds _mutex
    pc,         \* where a thread is in the pool's code
    hand,       \* the unique_ptr a call in progress works on
    leases,     \* the connections a thread has acquired and not returned
    expired,    \* the deadline of a thread's wait_for has passed
    broken,     \* live connections on which SELECT 1 fails: the network or the
                \* server is gone, or a command failed in an open transaction
    calls       \* calls a thread has made so far

vars == <<available, shutdown, owner, pc, hand, leases, expired, broken, calls>>

Outside == {"idle", "acquire", "asleep", "woken", "release", "shutdown"}
CheckedOut == {"checkOut", "makeOut"}      \* inside acquire, mutex held
CheckedIn == {"checkIn", "makeIn"}         \* inside release, mutex held
Inside == CheckedOut \cup CheckedIn
Carrying == Inside \cup {"release"}        \* states in which hand is set

Asleep == {t \in Threads : pc[t] = "asleep"}    \* the wait set of _cv
Woken == {t \in Threads : pc[t] = "woken"}      \* left it, want the mutex

\* Every connection object that exists.
Live == ToSet(available)
          \cup (UNION {leases[t] : t \in Threads})
          \cup ({hand[t] : t \in Threads} \ {NoConn})

TypeOK ==
    /\ available \in Seq(Conns)
    /\ shutdown \in BOOLEAN
    /\ owner \in Threads \cup {NoThread}
    /\ pc \in [Threads -> Outside \cup Inside]
    /\ hand \in [Threads -> Conns \cup {NoConn}]
    /\ leases \in [Threads -> SUBSET Conns]
    /\ expired \in [Threads -> BOOLEAN]
    /\ broken \in SUBSET Conns
    /\ calls \in [Threads -> Nat]

\* The constructor: PoolSize attempts, of which any number may fail.
Init ==
    /\ \E n \in 0 .. PoolSize :
         \E s \in [1 .. n -> Conns] : IsInjective(s) /\ available = s
    /\ shutdown = FALSE
    /\ owner = NoThread
    /\ pc = [t \in Threads |-> "idle"]
    /\ hand = [t \in Threads |-> NoConn]
    /\ leases = [t \in Threads |-> {}]
    /\ expired = [t \in Threads |-> FALSE]
    /\ broken = {}
    /\ calls = [t \in Threads |-> 0]

-----------------------------------------------------------------------------
(* Pieces shared by the operations.                                        *)

Goto(t, l) == pc' = [pc EXCEPT ![t] = l]

\* The caller's predicate of wait_for.
Ready == available # <<>> \/ shutdown

\* A thread in acquire() that can evaluate the predicate once it has the mutex.
MayLook(t) == pc[t] \in {"acquire", "woken"} /\ owner = NoThread

\* The call returns or throws: unlock and go.  Nothing stays in its hands.
Leave(t) ==
    /\ owner' = NoThread
    /\ hand' = [hand EXCEPT ![t] = NoConn]
    /\ Goto(t, "idle")

\* Mutant: the connection is put back but nobody is told.
LeaveNotifying_Silent(t) == Leave(t)

\* The same for release(): notify_one() under the mutex, then unlock.  Any
\* one waiting thread leaves the wait set; with none the signal is lost.
LeaveNotifying(t) ==
    /\ owner' = NoThread
    /\ hand' = [hand EXCEPT ![t] = NoConn]
    /\ \/ Asleep = {} /\ Goto(t, "idle")
       \/ \E w \in Asleep : pc' = [pc EXCEPT ![t] = "idle", ![w] = "woken"]

\* The factory returns a connection object that is not in use, and it works.
Fresh(c) == c \in Conns \ Live /\ broken' = broken \ {c}

-----------------------------------------------------------------------------
(* acquire()                                                               *)

CallAcquire(t) ==
    /\ pc[t] = "idle" /\ calls[t] < MaxCalls
    /\ calls' = [calls EXCEPT ![t] = @ + 1]
    /\ expired' = [expired EXCEPT ![t] = FALSE]
    /\ Goto(t, "acquire")
    /\ UNCHANGED <<available, shutdown, owner, hand, leases, broken>>

\* The predicate is false before the deadline: enter the wait set and unlock.
Wait(t) ==
    /\ MayLook(t) /\ ~Ready /\ ~expired[t]
    /\ Goto(t, "asleep")
    /\ UNCHANGED <<available, shutdown, owner, hand, leases, expired, broken, calls>>

\* The deadline passes; the thread may be asleep, or already queueing for the mutex.
Deadline(t) ==
    /\ pc[t] \in {"asleep", "woken"} /\ ~expired[t]
    /\ expired' = [expired EXCEPT ![t] = TRUE]
    /\ UNCHANGED <<available, shutdown, owner, pc, hand, leases, broken, calls>>

\* A wait ends without a notification: its time is up,
TimerWakes(t) ==
    /\ pc[t] = "asleep" /\ expired[t]
    /\ Goto(t, "woken")
    /\ UNCHANGED <<available, shutdown, owner, hand, leases, expired, broken, calls>>

\* or for no reason, as condition variables may.
SpuriousWake(t) ==
    /\ pc[t] = "asleep" /\ ~expired[t]
    /\ Goto(t, "woken")
    /\ UNCHANGED <<available, shutdown, owner, hand, leases, expired, broken, calls>>

\* throw "Connection pool timeout"
TimeOut(t) ==
    /\ MayLook(t) /\ ~Ready /\ expired[t]
    /\ Goto(t, "idle")
    /\ UNCHANGED <<available, shutdown, owner, hand, leases, expired, broken, calls>>

\* throw "Connection pool is shutting down"
Refuse(t) ==
    /\ MayLook(t) /\ shutdown
    /\ Goto(t, "idle")
    /\ UNCHANGED <<available, shutdown, owner, hand, leases, expired, broken, calls>>

\* Mutant: the front is read but not popped.
Take_NoPop(t) ==
    /\ MayLook(t) /\ Ready /\ ~shutdown
    /\ hand' = [hand EXCEPT ![t] = Head(available)]
    /\ owner' = t
    /\ Goto(t, "checkOut")
    /\ UNCHANGED <<available, shutdown, leases, expired, broken, calls>>

\* Pop the front; the mutex stays locked for the health check.
Take(t) ==
    /\ MayLook(t) /\ Ready /\ ~shutdown
    /\ hand' = [hand EXCEPT ![t] = Head(available)]
    /\ available' = Tail(available)
    /\ owner' = t
    /\ Goto(t, "checkOut")
    /\ UNCHANGED <<shutdown, leases, expired, broken, calls>>

\* Mutant: no health check.
HandOver_Unchecked(t) ==
    /\ pc[t] = "checkOut"
    /\ leases' = [leases EXCEPT ![t] = @ \cup {hand[t]}]
    /\ Leave(t)
    /\ UNCHANGED <<available, shutdown, expired, broken, calls>>

HandOver(t) ==
    /\ pc[t] = "checkOut" /\ hand[t] \notin broken
    /\ leases' = [leases EXCEPT ![t] = @ \cup {hand[t]}]
    /\ Leave(t)
    /\ UNCHANGED <<available, shutdown, expired, broken, calls>>

FindBroken(t) ==
    /\ pc[t] = "checkOut" /\ hand[t] \in broken
    /\ Goto(t, "makeOut")
    /\ UNCHANGED <<available, shutdown, owner, hand, leases, expired, broken, calls>>

\* The old connection is destroyed when the new one is assigned over it.
HandOverNew(t, c) ==
    /\ pc[t] = "makeOut" /\ Fresh(c)
    /\ leases' = [leases EXCEPT ![t] = @ \cup {c}]
    /\ Leave(t)
    /\ UNCHANGED <<available, shutdown, expired, calls>>

\* Mutant: the null pointer counts as a lease.
HandOverNothing_LeasesNull(t) ==
    /\ pc[t] = "makeOut"
    /\ leases' = [leases EXCEPT ![t] = @ \cup {NoConn}]
    /\ Leave(t)
    /\ UNCHANGED <<available, shutdown, expired, broken, calls>>

\* Mutant: the exception leaves the mutex locked.
HandOverNothing_StaysLocked(t) ==
    /\ pc[t] = "makeOut"
    /\ hand' = [hand EXCEPT ![t] = NoConn]
    /\ Goto(t, "idle")
    /\ UNCHANGED <<available, shutdown, owner, leases, expired, broken, calls>>

\* The factory throws, which the caller sees, or returns null, which acquire()
\* returns.  Either way the popped connection is destroyed and nothing is leased.
HandOverNothing(t) ==
    /\ pc[t] = "makeOut"
    /\ Leave(t)
    /\ UNCHANGED <<available, shutdown, leases, expired, broken, calls>>

-----------------------------------------------------------------------------
(* release(): called by the holder, or by the destructor of its            *)
(* PooledConnection.                                                       *)

CallRelease(t, c) ==
    /\ pc[t] = "idle" /\ c \in leases[t]
    /\ leases' = [leases EXCEPT ![t] = @ \ {c}]
    /\ hand' = [hand EXCEPT ![t] = c]
    /\ Goto(t, "release")
    /\ UNCHANGED <<available, shutdown, owner, expired, broken, calls>>

\* After shutdown() the connection is destroyed and nobody is notified.
ReleaseClosed(t) ==
    /\ pc[t] = "release" /\ owner = NoThread /\ shutdown
    /\ Leave(t)
    /\ UNCHANGED <<available, shutdown, leases, expired, broken, calls>>

\* Mutant: _shutdown is not looked at.
ReleaseOpen_EvenClosed(t) ==
    /\ pc[t] = "release" /\ owner = NoThread
    /\ owner' = t
    /\ Goto(t, "checkIn")
    /\ UNCHANGED <<available, shutdown, hand, leases, expired, broken, calls>>

ReleaseOpen(t) ==
    /\ pc[t] = "release" /\ owner = NoThread /\ ~shutdown
    /\ owner' = t
    /\ Goto(t, "checkIn")
    /\ UNCHANGED <<available, shutdown, hand, leases, expired, broken, calls>>

PutBack(t) ==
    /\ pc[t] = "checkIn" /\ hand[t] \notin broken
    /\ available' = Append(available, hand[t])
    /\ LeaveNotifying(t)
    /\ UNCHANGED <<shutdown, leases, expired, broken, calls>>

NoticeBroken(t) ==
    /\ pc[t] = "checkIn" /\ hand[t] \in broken
    /\ Goto(t, "makeIn")
    /\ UNCHANGED <<available, shutdown, owner, hand, leases, expired, broken, calls>>

PutNew(t, c) ==
    /\ pc[t] = "makeIn" /\ Fresh(c)
    /\ available' = Append(available, c)
    /\ LeaveNotifying(t)
    /\ UNCHANGED <<shutdown, leases, expired, calls>>

\* The factory fails: nothing is queued, and a waiter is notified all the same.
PutNothing(t) ==
    /\ pc[t] = "makeIn"
    /\ LeaveNotifying(t)
    /\ UNCHANGED <<available, shutdown, leases, expired, broken, calls>>

-----------------------------------------------------------------------------
(* shutdown(), and the world around the pool.                              *)

CallShutdown(t) ==
    /\ pc[t] = "idle" /\ calls[t] < MaxCalls
    /\ calls' = [calls EXCEPT ![t] = @ + 1]
    /\ Goto(t, "shutdown")
    /\ UNCHANGED <<available, shutdown, owner, hand, leases, expired, broken>>

Shutdown(t) ==
    /\ pc[t] = "shutdown" /\ owner = NoThread
    /\ shutdown' = TRUE
    /\ available' = <<>>
    /\ pc' = [u \in Threads |-> IF u = t THEN "idle"
                                ELSE IF u \in Asleep THEN "woken" ELSE pc[u]]
    /\ UNCHANGED <<owner, hand, leases, expired, broken, calls>>

\* A connection stops answering, wherever it is.
Break(c) ==
    /\ c \in Live \ broken
    /\ broken' = broken \cup {c}
    /\ UNCHANGED <<available, shutdown, owner, pc, hand, leases, expired, calls>>

\* It answers again: the transaction that failed was rolled back.
Heal(c) ==
    /\ c \in Live \cap broken
    /\ broken' = broken \ {c}
    /\ UNCHANGED <<available, shutdown, owner, pc, hand, leases, expired, calls>>

\* What a thread does on its way through a call it has started.
Advance(t) ==
    \/ Wait(t) \/ TimerWakes(t) \/ TimeOut(t) \/ Refuse(t) \/ Take(t)
    \/ HandOver(t) \/ FindBroken(t) \/ HandOverNothing(t)
    \/ ReleaseClosed(t) \/ ReleaseOpen(t)
    \/ PutBack(t) \/ NoticeBroken(t) \/ PutNothing(t)
    \/ Shutdown(t)
    \/ \E c \in Conns : HandOverNew(t, c) \/ PutNew(t, c)

Next ==
    \/ \E t \in Threads :
         \/ Advance(t) \/ Deadline(t) \/ SpuriousWake(t)
         \/ CallAcquire(t) \/ CallShutdown(t)
         \/ \E c \in Conns : CallRelease(t, c)
    \/ \E c \in Conns : Break(c) \/ Heal(c)

Spec == Init /\ [][Next]_vars

\* A thread that is not blocked runs on, its deadline passes and its timer
\* fires; calls to the database return.  Nothing is assumed of who gets a
\* contended mutex, of notifications, of the callers or of the network.
Fairness ==
    \A t \in Threads : WF_vars(Advance(t)) /\ WF_vars(Deadline(t))

FairSpec == Spec /\ Fairness

-----------------------------------------------------------------------------
(* What the class promises its callers: an atomic pool (module LeasePool). *)
(* A call takes effect when it unlocks the mutex: until then a connection  *)
(* on its way out still counts as the front of the queue, and one on its   *)
(* way in still counts as leased; one that failed its check counts as      *)
(* broken until it is destroyed, even if it would answer again by then.    *)

Promise == INSTANCE LeasePool WITH
    queue <- IF owner # NoThread /\ pc[owner] \in CheckedOut
             THEN <<hand[owner]>> \o available ELSE available,
    held <- [t \in Threads |-> IF pc[t] \in CheckedIn \cup {"release"}
                               THEN leases[t] \cup {hand[t]} ELSE leases[t]],
    closed <- shutdown,
    broken <- Live \cap
              (broken \cup {hand[t] : t \in {u \in Threads : pc[u] \in {"makeOut", "makeIn"}}})

-----------------------------------------------------------------------------
(* Properties.                                                             *)

\* Exactly the thread in a critical section holds the mutex, and exactly the
\* calls that carry a connection have one in hand (acquire from line 55 on,
\* release from its start): the strengthening the other invariants rest on.
MutexDiscipline ==
    /\ \A t \in Threads : pc[t] \in Inside <=> owner = t
    /\ \A t \in Threads : pc[t] \in Carrying <=> hand[t] # NoConn

\* A connection is in one place only: at one position of the queue, in one
\* call, or leased by one thread (a unique_ptr moved through lines 55, 79, 86).
ExclusiveOwnership ==
    /\ IsInjective(available)
    /\ \A t \in Threads : leases[t] \cap ToSet(available) = {}
    /\ \A t \in Threads : hand[t] \notin ToSet(available)
    /\ \A t, u \in Threads : hand[t] \notin leases[u]
    /\ \A t, u \in Threads : t # u => leases[t] \cap leases[u] = {}
    /\ \A t, u \in Threads : t # u /\ hand[t] # NoConn => hand[t] # hand[u]

\* There are never more connections than _poolSize, counting the ones out on
\* lease and the replacements the factory made (lines 61 and 83).
CapacityBound == IsFiniteSet(Live) /\ Cardinality(Live) <= PoolSize

\* While a thread sleeps on _cv, every queued connection has a thread awake
\* that will look for it: one notify_one() per release() is enough although
\* newcomers may overtake the notified thread (lines 44-48, 92 and 115).
NoLostWakeup == Asleep # {} => Len(available) <= Cardinality(Woken)

\* Once shut down the pool is empty and nobody sleeps or is half way through
\* taking or returning a connection (lines 50, 73 and 106-116).
ClosedIsEmpty ==
    shutdown => available = <<>> /\ owner = NoThread /\ Asleep = {}

\* After shutdown() no call leases a connection out.
NoLeaseAfterShutdown ==
    [][shutdown => shutdown' /\ \A t \in Threads : leases'[t] \subseteq leases[t]]_vars

\* acquire(), release() and shutdown() return: through contention, lost
\* capacity, a factory that fails and threads that wait for each other's
\* leases, which only the timeout of line 44 ends.
CallReturns == \A t \in Threads : pc[t] # "idle" ~> pc[t] = "idle"

\* The pool behaves as the atomic pool of its documentation would.
RefinesPromise == Promise!Spec
=============================================================================
