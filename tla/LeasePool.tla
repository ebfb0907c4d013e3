----------------------------- MODULE LeasePool -----------------------------
(***************************************************************************)
(* What a connection pool promises, without mutex, waiting or phases: a    *)
(* closed list of atomic effects a call can have.  A connection is lent to *)
(* one thread at a time, first in first out; a connection found broken on  *)
(* its way out or in is replaced or lost; nothing is lent once the pool is *)
(* closed.  ConnectionPool implements it (ConnectionPool!Promise).         *)
(***************************************************************************)
EXTENDS Naturals, FiniteSets, SequencesExt

CONSTANTS Threads, Conns, PoolSize

VARIABLES
    queue,      \* idle connections, oldest first
    held,       \* the connections lent to a thread
    closed,
    broken      \* connections in use that a health check would reject

vars == <<queue, held, closed, broken>>

InUse == ToSet(queue) \cup (UNION {held[t] : t \in Threads})

Init ==
    /\ queue \in Seq(Conns) /\ IsInjective(queue) /\ Len(queue) <= PoolSize
    /\ held = [t \in Threads |-> {}]
    /\ closed = FALSE
    /\ broken = {}

Lend(t, c) == held' = [held EXCEPT ![t] = @ \cup {c}]
TakeBack(t, c) == c \in held[t] /\ held' = [held EXCEPT ![t] = @ \ {c}]
Unused(d) == d \in Conns \ InUse

\* Mutant: the front connection is not checked.
LendFront_Unchecked(t) ==
    /\ ~closed /\ queue # <<>>
    /\ Lend(t, Head(queue))
    /\ queue' = Tail(queue)
    /\ UNCHANGED <<closed, broken>>

\* acquire: the front connection, a replacement for it, or nothing.
LendFront(t) ==
    /\ ~closed /\ queue # <<>> /\ Head(queue) \notin broken
    /\ Lend(t, Head(queue))
    /\ queue' = Tail(queue)
    /\ UNCHANGED <<closed, broken>>

LendReplacement(t, d) ==
    /\ ~closed /\ queue # <<>> /\ Head(queue) \in broken
    /\ Unused(d) /\ Lend(t, d)
    /\ queue' = Tail(queue)
    /\ broken' = broken \ {Head(queue)}
    /\ UNCHANGED closed

LoseFront ==
    /\ ~closed /\ queue # <<>> /\ Head(queue) \in broken
    /\ queue' = Tail(queue)
    /\ UNCHANGED <<held, closed>>
    /\ broken' = broken \ {Head(queue)}

\* release: the connection is queued, replaced, or destroyed.
Queue(t, c) ==
    /\ ~closed /\ c \notin broken
    /\ TakeBack(t, c)
    /\ queue' = Append(queue, c)
    /\ UNCHANGED <<closed, broken>>

QueueReplacement(t, c, d) ==
    /\ ~closed /\ c \in broken
    /\ TakeBack(t, c)
    /\ Unused(d)
    /\ queue' = Append(queue, d)
    /\ broken' = broken \ {c}
    /\ UNCHANGED closed

Destroy(t, c) ==
    /\ closed \/ c \in broken
    /\ TakeBack(t, c)
    /\ UNCHANGED <<queue, closed>>
    /\ broken' = broken \ {c}

Close ==
    /\ closed' = TRUE
    /\ queue' = <<>>
    /\ UNCHANGED held
    /\ broken' = broken \ ToSet(queue)

Break(c) ==
    /\ c \in InUse \ broken
    /\ broken' = broken \cup {c}
    /\ UNCHANGED <<queue, held, closed>>

Heal(c) ==
    /\ c \in InUse \cap broken
    /\ broken' = broken \ {c}
    /\ UNCHANGED <<queue, held, closed>>

Next ==
    \/ \E t \in Threads :
         \/ LendFront(t)
         \/ \E d \in Conns : LendReplacement(t, d)
         \/ \E c \in Conns :
              \/ Queue(t, c) \/ Destroy(t, c)
              \/ \E d \in Conns : QueueReplacement(t, c, d)
    \/ LoseFront \/ Close
    \/ \E c \in Conns : Break(c) \/ Heal(c)

Spec == Init /\ [][Next]_vars
=============================================================================
