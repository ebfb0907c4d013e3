------------------------ MODULE PooledSessionsProofs ------------------------
(***************************************************************************)
(* Proofs about PooledSessions, for any number of threads, connections and *)
(* statements: the exceptions that OwnWork and CleanLease name are the     *)
(* only ways in which one thread's transaction can reach another thread.   *)
(***************************************************************************)
EXTENDS PooledSessions, SequenceTheorems, TLAPS

-----------------------------------------------------------------------------
(* The queue of idle connections, a sequence without repetition.           *)

\* Popping the front removes exactly that element (ConnectionPool.hpp:55-56).
LEMMA PopFacts ==
  ASSUME NEW S, NEW s \in Seq(S), s # <<>>, IsInjective(s)
  PROVE  /\ Head(s) \in S /\ Head(s) \in ToSet(s)
         /\ Tail(s) \in Seq(S) /\ Len(Tail(s)) = Len(s) - 1
         /\ IsInjective(Tail(s))
         /\ ToSet(Tail(s)) = ToSet(s) \ {Head(s)}
<1>1. /\ Len(s) \in Nat \ {0} /\ DOMAIN s = 1 .. Len(s)
      /\ Head(s) = s[1]
  BY EmptySeq, LenProperties
<1>2. /\ Head(s) \in S /\ Tail(s) \in Seq(S) /\ Len(Tail(s)) = Len(s) - 1
      /\ \A i \in 1 .. Len(Tail(s)) : Tail(s)[i] = s[i + 1]
  BY HeadTailProperties
<1>3. DOMAIN Tail(s) = 1 .. Len(s) - 1
  BY <1>2, LenProperties
<1>4. Head(s) \in ToSet(s)
  BY <1>1 DEF ToSet
<1>5. IsInjective(Tail(s))
  BY <1>1, <1>2, <1>3 DEF IsInjective
<1>6. ToSet(Tail(s)) \subseteq ToSet(s) \ {Head(s)}
  BY <1>1, <1>2, <1>3 DEF ToSet, IsInjective
<1>7. ASSUME NEW x \in ToSet(s) \ {Head(s)} PROVE x \in ToSet(Tail(s))
  <2>1. PICK i \in 1 .. Len(s) : x = s[i] /\ i # 1
    BY <1>1 DEF ToSet
  <2>2. i - 1 \in DOMAIN Tail(s) /\ Tail(s)[i - 1] = x
    BY <1>1, <1>2, <1>3, <2>1
  <2> QED  BY <2>2 DEF ToSet
<1> QED  BY <1>2, <1>4, <1>5, <1>6, <1>7

\* Pushing adds exactly the new element (ConnectionPool.hpp:79 and 86).
LEMMA PushFacts ==
  ASSUME NEW S, NEW s \in Seq(S), NEW e \in S
  PROVE  /\ Append(s, e) \in Seq(S) /\ Len(Append(s, e)) = Len(s) + 1
         /\ Append(s, e) # <<>>
         /\ ToSet(Append(s, e)) = ToSet(s) \cup {e}
         /\ IsInjective(s) /\ e \notin ToSet(s) => IsInjective(Append(s, e))
<1>1. /\ Append(s, e) \in Seq(S) /\ Len(Append(s, e)) = Len(s) + 1
      /\ Append(s, e) # <<>>
      /\ \A i \in 1 .. Len(s) : Append(s, e)[i] = s[i]
      /\ Append(s, e)[Len(s) + 1] = e
  BY AppendProperties
<1>2. /\ Len(s) \in Nat /\ DOMAIN s = 1 .. Len(s)
      /\ DOMAIN Append(s, e) = 1 .. Len(s) + 1
  BY <1>1, LenProperties
<1>3. ToSet(Append(s, e)) = ToSet(s) \cup {e}
  BY <1>1, <1>2 DEF ToSet
<1>4. IsInjective(s) /\ e \notin ToSet(s) => IsInjective(Append(s, e))
  BY <1>1, <1>2 DEF ToSet, IsInjective
<1> QED  BY <1>1, <1>3, <1>4

\* The queue of a pool that was shut down.
LEMMA EmptyQueue ==
  ASSUME NEW S
  PROVE  <<>> \in Seq(S) /\ Len(<<>>) = 0 /\ ToSet(<<>>) = {} /\ IsInjective(<<>>)
BY EmptySeq DEF ToSet, IsInjective

-----------------------------------------------------------------------------
(* The inductive invariant.                                                *)

\* A connection is idle in the pool or lent to one thread.
OnePlace ==
    /\ IsInjective(queue)
    /\ \A t \in Threads : held[t] \cap ToSet(queue) = {}
    /\ \A t, u \in Threads : t # u => held[t] \cap held[u] = {}

\* Changes wait only in a transaction.
WorkInside == \A c \in Conns : work[c] # {} => session[c] \in {"open", "aborted"}

\* A transaction is that of the borrower.
OwnTransaction ==
    \A c \in InUse \ misused : session[c] \in {"open", "aborted"} =>
        \E t \in Threads : c \in held[t] /\ txn[t] = c

\* What is not in use has no session.
UnusedIsNew == \A c \in Conns \ InUse : session[c] = "idle" /\ work[c] = {}

\* The second part of OwnWork.
OwnChanges == \A c \in InUse \ misused : \A u \in work[c] : c \in held[u] /\ txn[u] = c

Disciplined == OnePlace /\ WorkInside /\ OwnTransaction /\ UnusedIsNew /\ OwnChanges

-----------------------------------------------------------------------------
(* The pool.                                                               *)

\* What LeasePool says of its queue, in the words used here.
LEMMA Members ==
  /\ \A s : Pool!ToSet(s) = ToSet(s)
  /\ \A c : c \in InUse <=> c \in ToSet(queue) \/ \E t \in Threads : c \in held[t]
  /\ \A c : c \in InUse' <=> c \in ToSet(queue') \/ \E t \in Threads : c \in held'[t]
  /\ Pool!InUse = InUse
BY DEF Pool!ToSet, ToSet, InUse, Pool!InUse

-----------------------------------------------------------------------------
(* Types.                                                                  *)

LEMMA InitTyped == Init => TypeOK
<1> SUFFICES ASSUME Init PROVE TypeOK
  OBVIOUS
<1>1. queue \in Seq(Conns)
  BY SeqDef, PooledAssumption DEF Init
<1> QED  BY <1>1 DEF Init, TypeOK, Cache!Init

LEMMA InitDisciplined == Init => Disciplined
<1> SUFFICES ASSUME Init PROVE Disciplined
  OBVIOUS
<1>1. /\ IsInjective(queue) /\ \A t \in Threads : held[t] = {}
      /\ \A c \in Conns : session[c] = "idle" /\ work[c] = {}
  BY DEF Init
<1>2. \A c \in InUse : c \in ToSet(queue) /\ c \in Conns
  BY <1>1, Members DEF Init, ToSet
<1> QED
  BY <1>1, <1>2 DEF Disciplined, OnePlace, WorkInside, OwnTransaction, UnusedIsNew, OwnChanges

\* The effects of the pool that PooledSessions uses.
LEMMA PoolEffects ==
  ASSUME NEW t \in Threads
  PROVE  /\ Pool!LendFront(t) =>
              /\ queue # <<>> /\ Head(queue) \notin Unhealthy
              /\ held' = [held EXCEPT ![t] = @ \cup {Head(queue)}]
              /\ queue' = Tail(queue) /\ closed' = closed
         /\ Pool!LoseFront => queue' = Tail(queue) /\ held' = held /\ closed' = closed
         /\ Pool!Close => queue' = <<>> /\ held' = held /\ closed' = TRUE
BY DEF Pool!LendFront, Pool!Lend, Pool!LoseFront, Pool!Close

LEMMA ExchangeEffects ==
  ASSUME NEW t \in Threads, NEW c \in Conns, NEW d \in Conns
  PROVE  /\ Pool!LendReplacement(t, d) =>
              /\ d \notin InUse /\ held' = [held EXCEPT ![t] = @ \cup {d}]
              /\ queue' = Tail(queue) /\ closed' = closed
         /\ Pool!Queue(t, c) =>
              /\ c \notin Unhealthy /\ c \in held[t]
              /\ held' = [held EXCEPT ![t] = @ \ {c}]
              /\ queue' = Append(queue, c) /\ closed' = closed
         /\ Pool!QueueReplacement(t, c, d) =>
              /\ d \notin InUse /\ held' = [held EXCEPT ![t] = @ \ {c}]
              /\ queue' = Append(queue, d) /\ closed' = closed
         /\ Pool!Destroy(t, c) =>
              held' = [held EXCEPT ![t] = @ \ {c}] /\ queue' = queue /\ closed' = closed
BY Members DEF Pool!LendReplacement, Pool!Lend, Pool!Unused, Pool!Queue,
   Pool!QueueReplacement, Pool!Destroy, Pool!TakeBack

LEMMA NextTyped == TypeOK /\ [Next]_vars => TypeOK'
<1> SUFFICES ASSUME TypeOK, [Next]_vars PROVE TypeOK'
  OBVIOUS
<1> USE DEF TypeOK, pool, cache
<1>1. ASSUME NEW C, Discard(C)
      PROVE  /\ session' \in [Conns -> {"idle", "open", "aborted", "dead"}]
             /\ work' \in [Conns -> SUBSET Threads] /\ misused' \in SUBSET Conns
  BY <1>1 DEF Discard
<1>2. ASSUME NEW t \in Threads, Acquire(t) PROVE TypeOK'
  <2>1. /\ queue # <<>> /\ UNCHANGED <<txn, current, owns>> /\ \E C : Discard(C)
        /\ Pool!LendFront(t) \/ Pool!LoseFront \/ \E d \in Conns : Pool!LendReplacement(t, d)
    BY <1>2, PoolEffects DEF Acquire
  <2>2. Head(queue) \in Conns /\ Tail(queue) \in Seq(Conns)
    BY <2>1, HeadTailProperties
  <2>3. /\ queue' = Tail(queue) /\ closed' = closed
        /\ held' = held \/ \E c \in Conns : held' = [held EXCEPT ![t] = @ \cup {c}]
    BY <2>1, <2>2, PoolEffects, ExchangeEffects
  <2> QED  BY <1>1, <2>1, <2>2, <2>3
<1>3. ASSUME NEW t \in Threads, NEW c \in Conns, Release(t, c) PROVE TypeOK'
  <2>1. /\ UNCHANGED <<txn, current, owns>>
        /\ (\E C : Discard(C)) \/ (UNCHANGED <<session, work>> /\ misused' \in {misused, misused \cup {c}})
        /\ \/ Pool!Queue(t, c) \/ Pool!Destroy(t, c)
           \/ \E d \in Conns : Pool!QueueReplacement(t, c, d)
    BY <1>3 DEF Release
  <2>2. /\ closed' = closed /\ held' = [held EXCEPT ![t] = @ \ {c}]
        /\ queue' = queue \/ \E d \in Conns : queue' = Append(queue, d)
    BY <2>1, ExchangeEffects
  <2>3. queue' \in Seq(Conns)
    <3>1. ASSUME NEW d \in Conns, queue' = Append(queue, d) PROVE queue' \in Seq(Conns)
      BY <3>1, PushFacts
    <3> QED  BY <2>2, <3>1
  <2>4. /\ session' \in [Conns -> {"idle", "open", "aborted", "dead"}]
        /\ work' \in [Conns -> SUBSET Threads] /\ misused' \in SUBSET Conns
    BY <1>1, <2>1
  <2> QED  BY <2>1, <2>2, <2>3, <2>4
<1>4. CASE Shutdown
  <2>1. queue' = <<>> /\ held' = held /\ closed' = TRUE
    BY <1>4, PoolEffects DEF Shutdown, Pool!Close
  <2> QED  BY <1>1, <1>4, <2>1, EmptySeq DEF Shutdown
<1>5. ASSUME NEW c \in Conns, Break(c) PROVE TypeOK'
  BY <1>5 DEF Break
<1>6. ASSUME NEW t \in Threads, NEW c \in Conns, Run(t, c) PROVE TypeOK'
  BY <1>6 DEF Run, Touch
<1>7. ASSUME NEW t \in Threads, NEW c \in Conns, Begin(t, c) PROVE TypeOK'
  BY <1>7 DEF Begin
<1>8. ASSUME NEW t \in Threads, Destructor(t) \/ Commit(t) PROVE TypeOK'
  <2>1. /\ UNCHANGED <<queue, held, closed, current, owns>>
        /\ txn' \in {txn, [txn EXCEPT ![t] = Null]}
        /\ End(t) \/ UNCHANGED <<session, work, misused>>
    BY <1>8 DEF Destructor, Commit, End
  <2>2. /\ session' \in [Conns -> {"idle", "open", "aborted", "dead"}]
        /\ work' \in [Conns -> SUBSET Threads]
    BY <2>1 DEF End
  <2>3. misused' \in SUBSET Conns
    <3>1. CASE End(t) /\ txn[t] \in Conns
      BY <3>1 DEF End, Touch
    <3>2. CASE End(t) /\ txn[t] = Null
      <4>1. Null \notin InUse
        BY Members, PooledAssumption DEF ToSet
      <4> QED  BY <3>2, <4>1 DEF End
    <3> QED  BY <2>1, <3>1, <3>2
  <2> QED  BY <2>1, <2>2, <2>3
<1>9. ASSUME NEW t \in Threads, NEW c \in Conns, NEW s \in Sqls, Get(t, c, s) PROVE TypeOK'
  <2>1. CASE Cache!Share(t, s)
    <3>1. PICK u \in Threads : current[s] \in owns[u]
      BY <2>1 DEF Cache!Share, Cache!Live
    <3> QED  BY <1>9, <2>1, <3>1 DEF Get, Cache!Share, Cache!Keep
  <2>2. ASSUME NEW st \in Statements, Cache!Prepare(t, s, st) PROVE TypeOK'
    BY <1>9, <2>2 DEF Get, Cache!Prepare, Cache!Keep
  <2> QED  BY <1>9, <2>1, <2>2 DEF Get, Statements
<1>10. ASSUME NEW t \in Threads, NEW st \in owns[t], LetGo(t, st) PROVE TypeOK'
  BY <1>10 DEF LetGo, Cache!LetGo
<1>11. CASE Clear
  BY <1>11 DEF Clear, Cache!Forget
<1>12. CASE UNCHANGED vars
  BY <1>12 DEF vars
<1>13. ASSUME NEW t \in Threads, NEW st \in owns[t] PROVE st.on \in Conns
  BY DEF Statements
<1> QED
  BY <1>2, <1>3, <1>4, <1>5, <1>6, <1>7, <1>8, <1>9, <1>10, <1>11, <1>12, <1>13
     DEF Next, Execute, ExecuteKept
-----------------------------------------------------------------------------
(* The invariant is kept.                                                  *)

\* A destroyed connection leaves nothing behind.
LEMMA DiscardEffects ==
  ASSUME TypeOK, NEW C, Discard(C)
  PROVE  \A c \in Conns :
           /\ c \in C => session'[c] = "idle" /\ work'[c] = {} /\ c \notin misused'
           /\ c \notin C => /\ session'[c] = session[c] /\ work'[c] = work[c]
                            /\ c \in misused' <=> c \in misused
BY DEF Discard, TypeOK

\* What is in use is a connection.
LEMMA InUseTyped == TypeOK => InUse \subseteq Conns
BY Members DEF TypeOK, ToSet

\* Popping the front.
LEMMA FrontTaken ==
  ASSUME TypeOK, OnePlace, queue # <<>>
  PROVE  /\ Head(queue) \in Conns /\ Head(queue) \in ToSet(queue)
         /\ \A t \in Threads : Head(queue) \notin held[t]
         /\ IsInjective(Tail(queue)) /\ ToSet(Tail(queue)) = ToSet(queue) \ {Head(queue)}
BY PopFacts DEF TypeOK, OnePlace

\* A session that is used on a lease, on which nobody intruded, is in a
\* transaction only if that transaction is the borrower's.
LEMMA BorrowersOwn ==
  ASSUME TypeOK, Disciplined, NEW t \in Threads, NEW c \in Conns,
         c \in held[t], c \notin misused, session[c] \in {"open", "aborted"}
  PROVE  txn[t] = c
<1>1. c \in InUse \ misused
  BY Members
<1>2. PICK u \in Threads : c \in held[u] /\ txn[u] = c
  BY <1>1 DEF Disciplined, OwnTransaction
<1> QED  BY <1>2 DEF Disciplined, OnePlace

LEMMA AcquireDisciplined ==
  ASSUME TypeOK, Disciplined, NEW t \in Threads, Acquire(t)
  PROVE  Disciplined'
<1> DEFINE h == Head(queue)
<1>1. queue # <<>> /\ txn' = txn
  BY PoolEffects DEF Acquire
<1>2. /\ h \in Conns /\ h \in ToSet(queue)
      /\ \A u \in Threads : h \notin held[u]
      /\ IsInjective(Tail(queue)) /\ ToSet(Tail(queue)) = ToSet(queue) \ {h}
  BY <1>1, FrontTaken DEF Disciplined
<1>3. InUse \subseteq Conns
  BY InUseTyped
<1> HIDE DEF h
<1>a. /\ \A c \in Conns : work[c] # {} => session[c] \in {"open", "aborted"}
      /\ \A c \in Conns \ InUse : session[c] = "idle" /\ work[c] = {}
      /\ \A u, v \in Threads : u # v => held[u] \cap held[v] = {}
  BY DEF Disciplined, OnePlace, WorkInside, UnusedIsNew
<1>b. \A c \in InUse : c \notin misused /\ session[c] \in {"open", "aborted"} =>
         \E u \in Threads : c \in held[u] /\ txn[u] = c
  BY DEF Disciplined, OwnTransaction
<1>c. \A c \in InUse : c \notin misused =>
         \A u \in work[c] : u \in Threads /\ c \in held[u] /\ txn[u] = c
  BY <1>3 DEF Disciplined, OwnChanges, TypeOK
<1>4. CASE Discard({}) /\ Pool!LendFront(t)
  <2>1. held' = [held EXCEPT ![t] = @ \cup {h}] /\ queue' = Tail(queue)
    BY <1>4, PoolEffects DEF h
  <2>2. \A u \in Threads : held'[u] = IF u = t THEN held[u] \cup {h} ELSE held[u]
    BY <2>1 DEF TypeOK
  <2>3. \A c : c \in InUse' <=> c \in InUse
    <3>1. \A c : (\E u \in Threads : c \in held'[u]) <=> c = h \/ \E u \in Threads : c \in held[u]
      BY <2>2
    <3> QED  BY <1>2, <2>1, <3>1, Members
  <2>4. \A c \in Conns : /\ session'[c] = session[c] /\ work'[c] = work[c]
                         /\ c \in misused' <=> c \in misused
    BY <1>4, DiscardEffects
  <2>5. OnePlace'
    BY <1>2, <1>a, <2>1, <2>2 DEF Disciplined, OnePlace
  <2>6. WorkInside' /\ UnusedIsNew'
    <3>1. WorkInside'
      BY <1>a, <2>4 DEF WorkInside
    <3>2. UnusedIsNew'
      BY <1>a, <2>3, <2>4 DEF UnusedIsNew
    <3> QED  BY <3>1, <3>2
  <2>7. OwnTransaction' /\ OwnChanges'
    <3>1. OwnTransaction'
      <4> SUFFICES ASSUME NEW c \in InUse' \ misused', session'[c] \in {"open", "aborted"}
                   PROVE  \E u \in Threads : c \in held'[u] /\ txn'[u] = c
        BY DEF OwnTransaction
      <4>1. PICK u \in Threads : c \in held[u] /\ txn[u] = c
        BY <1>3, <1>b, <2>3, <2>4
      <4> QED  BY <1>1, <2>2, <4>1
    <3>2. OwnChanges'
      <4> SUFFICES ASSUME NEW c \in InUse' \ misused', NEW u \in work'[c]
                   PROVE  c \in held'[u] /\ txn'[u] = c
        BY DEF OwnChanges
      <4>1. u \in Threads /\ c \in held[u] /\ txn[u] = c
        BY <1>3, <1>c, <2>3, <2>4
      <4> QED  BY <1>1, <2>2, <4>1
    <3> QED  BY <3>1, <3>2
  <2> QED  BY <2>5, <2>6, <2>7 DEF Disciplined
<1>5. CASE Discard({h}) /\ (Pool!LoseFront \/ \E d \in Conns : Pool!LendReplacement(t, d))
  <2>1. /\ queue' = Tail(queue)
        /\ \/ held' = held
           \/ \E d \in Conns : d \notin InUse /\ held' = [held EXCEPT ![t] = @ \cup {d}]
    BY <1>5, PoolEffects, ExchangeEffects
  <2>2. PICK N \in SUBSET Conns :
          /\ N \cap InUse = {} /\ held' = [held EXCEPT ![t] = @ \cup N]
    <3>1. \A d \in Conns : d \notin InUse /\ held' = [held EXCEPT ![t] = @ \cup {d}]
            => \E N \in SUBSET Conns : N \cap InUse = {} /\ held' = [held EXCEPT ![t] = @ \cup N]
      OBVIOUS
    <3>2. held' = held => held' = [held EXCEPT ![t] = @ \cup {}] /\ {} \in SUBSET Conns
      BY DEF TypeOK
    <3> QED  BY <2>1, <3>1, <3>2
  <2>3. \A u \in Threads : held'[u] = IF u = t THEN held[u] \cup N ELSE held[u]
    BY <2>2 DEF TypeOK
  <2>4. \A c : c \in InUse' <=> (c \in InUse /\ c # h) \/ c \in N
    <3>1. \A c : (\E u \in Threads : c \in held'[u]) <=> c \in N \/ \E u \in Threads : c \in held[u]
      BY <2>3
    <3> QED  BY <1>2, <2>1, <2>2, <3>1, Members
  <2>5. \A c \in Conns :
           /\ c = h => session'[c] = "idle" /\ work'[c] = {}
           /\ c # h => /\ session'[c] = session[c] /\ work'[c] = work[c]
                       /\ c \in misused' <=> c \in misused
    BY <1>5, DiscardEffects
  <2>6. \A c \in N : session'[c] = "idle" /\ work'[c] = {}
    BY <1>a, <2>2, <2>5
  <2>7. OnePlace'
    <3>1. \A u \in Threads, c \in N : c \notin held[u] /\ c \notin ToSet(queue)
      BY <2>2, Members
    <3>2. /\ IsInjective(queue')
          /\ \A u \in Threads : held'[u] \cap ToSet(queue') = {}
          /\ \A u, v \in Threads : u # v => held'[u] \cap held'[v] = {}
      <4>1. IsInjective(queue')
        BY <1>2, <2>1
      <4>2. \A u \in Threads : held[u] \cap ToSet(queue) = {}
        BY DEF Disciplined, OnePlace
      <4>3. \A u \in Threads : held'[u] \cap ToSet(queue') = {}
        BY <1>2, <2>1, <2>3, <3>1, <4>2
      <4>4. \A u, v \in Threads : u # v => held'[u] \cap held'[v] = {}
        BY <1>a, <2>3, <3>1
      <4> QED  BY <4>1, <4>3, <4>4
    <3> QED  BY <3>2 DEF OnePlace
  <2>8. WorkInside' /\ UnusedIsNew'
    <3>1. WorkInside'
      BY <1>a, <2>5 DEF WorkInside
    <3>2. UnusedIsNew'
      BY <1>a, <2>4, <2>5 DEF UnusedIsNew
    <3> QED  BY <3>1, <3>2
  <2>9. OwnTransaction'
    <3> SUFFICES ASSUME NEW c \in InUse' \ misused', session'[c] \in {"open", "aborted"}
                 PROVE  \E u \in Threads : c \in held'[u] /\ txn'[u] = c
      BY DEF OwnTransaction
    <3>1. c \in Conns /\ c \notin N /\ c # h
      BY <1>3, <2>2, <2>4, <2>5, <2>6
    <3>2. PICK u \in Threads : c \in held[u] /\ txn[u] = c
      BY <1>b, <2>4, <2>5, <3>1
    <3> QED  BY <1>1, <2>3, <3>2
  <2>10. OwnChanges'
    <3> SUFFICES ASSUME NEW c \in InUse' \ misused', NEW u \in work'[c]
                 PROVE  c \in held'[u] /\ txn'[u] = c
      BY DEF OwnChanges
    <3>1. c \in Conns /\ c \notin N /\ c # h
      BY <1>3, <2>2, <2>4, <2>5, <2>6
    <3>2. u \in Threads /\ c \in held[u] /\ txn[u] = c
      BY <1>c, <2>4, <2>5, <3>1
    <3> QED  BY <1>1, <2>3, <3>2
  <2> QED  BY <2>7, <2>8, <2>9, <2>10 DEF Disciplined
<1> QED  BY <1>4, <1>5 DEF Acquire, h
\* Disciplined, in the form its uses need.
LEMMA Parts ==
  ASSUME TypeOK, Disciplined
  PROVE  /\ \A c \in Conns : work[c] # {} => session[c] \in {"open", "aborted"}
         /\ \A c \in Conns \ InUse : session[c] = "idle" /\ work[c] = {}
         /\ \A u, v \in Threads : u # v => held[u] \cap held[v] = {}
         /\ \A u \in Threads : held[u] \cap ToSet(queue) = {}
         /\ \A c \in InUse : c \notin misused /\ session[c] \in {"open", "aborted"} =>
              \E u \in Threads : c \in held[u] /\ txn[u] = c
         /\ \A c \in InUse : c \notin misused =>
              \A u \in work[c] : u \in Threads /\ c \in held[u] /\ txn[u] = c
         /\ InUse \subseteq Conns
BY InUseTyped DEF Disciplined, OnePlace, WorkInside, OwnTransaction, UnusedIsNew, OwnChanges, TypeOK

LEMMA ReleaseDisciplined ==
  ASSUME TypeOK, Disciplined, NEW t \in Threads, NEW c \in Conns, Release(t, c)
  PROVE  Disciplined'
<1>1. /\ txn' = txn /\ c \in held[t]
      /\ held' = [held EXCEPT ![t] = @ \ {c}]
  BY ExchangeEffects DEF Release, Pool!Queue, Pool!TakeBack
<1>2. \A u \in Threads : held'[u] = IF u = t THEN held[u] \ {c} ELSE held[u]
  BY <1>1 DEF TypeOK
<1>3. \A x : x # c => ((\E u \in Threads : x \in held'[u]) <=> \E u \in Threads : x \in held[u])
  BY <1>2
<1>4. /\ \A u \in Threads : u # t => c \notin held[u]
      /\ \A u \in Threads : c \notin held'[u]
      /\ c \notin ToSet(queue) /\ c \in InUse
  BY <1>1, <1>2, Parts, Members
<1>5. CASE /\ UNCHANGED <<session, work>>
           /\ misused' = IF session[c] = "open" THEN misused \cup {c} ELSE misused
           /\ Pool!Queue(t, c)
  <2>1. queue' = Append(queue, c) /\ session[c] \notin {"aborted", "dead"}
    BY <1>4, <1>5, ExchangeEffects DEF Unhealthy
  <2>2. ToSet(queue') = ToSet(queue) \cup {c} /\ IsInjective(queue')
    BY <1>4, <2>1, PushFacts DEF TypeOK, Disciplined, OnePlace
  <2>3. \A x : x \in InUse' <=> x \in InUse
    BY <1>3, <1>4, <2>2, Members
  <2>4. OnePlace'
    <3>1. ASSUME NEW u \in Threads, NEW x \in held'[u], x \in ToSet(queue') PROVE FALSE
      <4>1. x \in held[u] /\ x # c
        BY <1>2, <1>4, <3>1
      <4> QED  BY <2>2, <3>1, <4>1, Parts
    <3> QED  BY <1>2, <2>2, <3>1, Parts DEF OnePlace
  <2>5. WorkInside'
    BY <1>5, Parts DEF WorkInside
  <2>6. UnusedIsNew'
    BY <1>5, <2>3, Parts DEF UnusedIsNew
  <2>7. c \notin misused' => session[c] \notin {"open", "aborted"} /\ work[c] = {}
    BY <1>5, <2>1, Parts
  <2>8. OwnTransaction'
    <3> SUFFICES ASSUME NEW x \in InUse' \ misused', session'[x] \in {"open", "aborted"}
                 PROVE  \E u \in Threads : x \in held'[u] /\ txn'[u] = x
      BY DEF OwnTransaction
    <3>1. x # c /\ x \in InUse /\ x \notin misused /\ session[x] \in {"open", "aborted"}
      BY <1>5, <2>3, <2>7
    <3>2. PICK u \in Threads : x \in held[u] /\ txn[u] = x
      BY <3>1, Parts
    <3> QED  BY <1>1, <1>2, <3>1, <3>2
  <2>9. OwnChanges'
    <3> SUFFICES ASSUME NEW x \in InUse' \ misused', NEW u \in work'[x]
                 PROVE  x \in held'[u] /\ txn'[u] = x
      BY DEF OwnChanges
    <3>1. x # c /\ x \in InUse /\ x \notin misused /\ u \in work[x]
      BY <1>5, <2>3, <2>7
    <3>2. u \in Threads /\ x \in held[u] /\ txn[u] = x
      BY <3>1, Parts
    <3> QED  BY <1>1, <1>2, <3>1, <3>2
  <2> QED  BY <2>4, <2>5, <2>6, <2>8, <2>9 DEF Disciplined
<1>6. CASE Discard({c}) /\ (Pool!Destroy(t, c) \/ \E d \in Conns : Pool!QueueReplacement(t, c, d))
  <2>1. \/ queue' = queue
        \/ \E d \in Conns : d \notin InUse /\ queue' = Append(queue, d)
    BY <1>6, ExchangeEffects
  <2>2. PICK N \in SUBSET Conns :
          /\ N \cap InUse = {}
          /\ ToSet(queue') = ToSet(queue) \cup N /\ IsInjective(queue')
    <3>1. CASE queue' = queue
      <4>1. {} \in SUBSET Conns /\ {} \cap InUse = {} /\ ToSet(queue') = ToSet(queue) \cup {}
        BY <3>1
      <4> QED  BY <3>1, <4>1 DEF Disciplined, OnePlace
    <3>2. ASSUME NEW d \in Conns, d \notin InUse, queue' = Append(queue, d)
          PROVE  /\ {d} \in SUBSET Conns /\ {d} \cap InUse = {}
                 /\ ToSet(queue') = ToSet(queue) \cup {d} /\ IsInjective(queue')
      <4>1. d \notin ToSet(queue)
        BY <3>2, Members
      <4> QED  BY <3>2, <4>1, PushFacts DEF TypeOK, Disciplined, OnePlace
    <3> QED  BY <2>1, <3>1, <3>2
  <2>3. \A x : x \in InUse' <=> (x \in InUse /\ x # c) \/ x \in N
    BY <1>3, <1>4, <2>2, Members
  <2>4. \A x \in Conns :
           /\ x = c => session'[x] = "idle" /\ work'[x] = {}
           /\ x # c => /\ session'[x] = session[x] /\ work'[x] = work[x]
                       /\ x \in misused' <=> x \in misused
    BY <1>6, DiscardEffects
  <2>5. \A x \in N : session'[x] = "idle" /\ work'[x] = {}
    BY <2>2, <2>4, Parts
  <2>6. OnePlace'
    <3>1. \A u \in Threads, x \in N : x \notin held[u]
      BY <2>2, Members
    <3>2. ASSUME NEW u \in Threads, NEW x \in held'[u], x \in ToSet(queue') PROVE FALSE
      <4>1. x \in held[u]
        BY <1>2, <3>2
      <4> QED  BY <2>2, <3>1, <3>2, <4>1, Parts
    <3>3. \A u, v \in Threads : u # v => held'[u] \cap held'[v] = {}
      BY <1>2, Parts
    <3> QED  BY <2>2, <3>2, <3>3 DEF OnePlace
  <2>7. WorkInside'
    BY <2>4, Parts DEF WorkInside
  <2>8. UnusedIsNew'
    BY <2>3, <2>4, Parts DEF UnusedIsNew
  <2>9. OwnTransaction'
    <3> SUFFICES ASSUME NEW x \in InUse' \ misused', session'[x] \in {"open", "aborted"}
                 PROVE  \E u \in Threads : x \in held'[u] /\ txn'[u] = x
      BY DEF OwnTransaction
    <3>1. x \in Conns /\ x \notin N /\ x # c /\ x \in InUse
      BY <2>2, <2>3, <2>4, <2>5, Parts
    <3>2. PICK u \in Threads : x \in held[u] /\ txn[u] = x
      BY <2>4, <3>1, Parts
    <3> QED  BY <1>1, <1>2, <3>1, <3>2
  <2>10. OwnChanges'
    <3> SUFFICES ASSUME NEW x \in InUse' \ misused', NEW u \in work'[x]
                 PROVE  x \in held'[u] /\ txn'[u] = x
      BY DEF OwnChanges
    <3>1. x \in Conns /\ x \notin N /\ x # c /\ x \in InUse
      BY <2>2, <2>3, <2>4, <2>5, Parts
    <3>2. u \in Threads /\ x \in held[u] /\ txn[u] = x
      BY <2>4, <3>1, Parts
    <3> QED  BY <1>1, <1>2, <3>1, <3>2
  <2> QED  BY <2>6, <2>7, <2>8, <2>9, <2>10 DEF Disciplined
<1> QED  BY <1>5, <1>6 DEF Release

LEMMA ShutdownDisciplined ==
  ASSUME TypeOK, Disciplined, Shutdown
  PROVE  Disciplined'
<1>1. queue' = <<>> /\ held' = held /\ txn' = txn /\ Discard(ToSet(queue))
  BY PoolEffects DEF Shutdown, Pool!Close
<1>2. ToSet(queue') = {} /\ IsInjective(queue')
  BY <1>1, EmptyQueue
<1>3. \A x : x \in InUse' <=> x \in InUse /\ x \notin ToSet(queue)
  BY <1>1, <1>2, Members, Parts
<1>4. \A x \in Conns :
         /\ x \in ToSet(queue) => session'[x] = "idle" /\ work'[x] = {}
         /\ x \notin ToSet(queue) => /\ session'[x] = session[x] /\ work'[x] = work[x]
                                     /\ x \in misused' <=> x \in misused
  BY <1>1, DiscardEffects
<1>5. OnePlace'
  BY <1>1, <1>2, Parts DEF OnePlace
<1>6. WorkInside'
  BY <1>4, Parts DEF WorkInside
<1>7. UnusedIsNew'
  BY <1>3, <1>4, Parts DEF UnusedIsNew
<1>8. OwnTransaction'
  BY <1>1, <1>3, <1>4, Parts DEF OwnTransaction
<1>9. OwnChanges'
  <2> SUFFICES ASSUME NEW x \in InUse' \ misused', NEW u \in work'[x]
               PROVE  x \in held'[u] /\ txn'[u] = x
    BY DEF OwnChanges
  <2>1. x \in InUse /\ x \notin misused /\ u \in work[x]
    BY <1>3, <1>4, Parts
  <2> QED  BY <1>1, <2>1, Parts
<1> QED  BY <1>5, <1>6, <1>7, <1>8, <1>9 DEF Disciplined
\* Steps that leave the pool alone.
LEMMA PoolKept ==
  ASSUME TypeOK, Disciplined, UNCHANGED pool
  PROVE  OnePlace' /\ InUse' = InUse
<1> USE DEF pool
<1>1. OnePlace'
  BY DEF Disciplined, OnePlace
<1> QED  BY <1>1 DEF InUse

LEMMA BreakDisciplined ==
  ASSUME TypeOK, Disciplined, NEW c \in Conns, Break(c)
  PROVE  Disciplined'
<1>1. /\ UNCHANGED pool /\ held' = held /\ txn' = txn /\ misused' = misused /\ c \in InUse
      /\ \A x \in Conns : /\ session'[x] = IF x = c THEN "dead" ELSE session[x]
                          /\ work'[x] = IF x = c THEN {} ELSE work[x]
  BY DEF Break, TypeOK, pool
<1>2. OnePlace' /\ InUse' = InUse
  BY <1>1, PoolKept
<1>3. WorkInside' /\ UnusedIsNew'
  BY <1>1, <1>2, Parts DEF WorkInside, UnusedIsNew
<1>4. OwnTransaction'
  BY <1>1, <1>2, Parts DEF OwnTransaction
<1>5. OwnChanges'
  BY <1>1, <1>2, Parts DEF OwnChanges
<1> QED  BY <1>2, <1>3, <1>4, <1>5 DEF Disciplined

\* A statement works in the borrower's transaction or marks the connection.
LEMMA RunDisciplined ==
  ASSUME TypeOK, Disciplined, NEW t \in Threads, NEW c \in Conns, Run(t, c)
  PROVE  Disciplined'
<1>1. /\ UNCHANGED pool /\ held' = held /\ txn' = txn /\ c \in InUse
      /\ misused' = IF c \in held[t] THEN misused ELSE misused \cup {c}
  BY DEF Run, Touch, pool
<1>2. OnePlace' /\ InUse' = InUse
  BY <1>1, PoolKept
<1>3. CASE UNCHANGED <<session, work>>
  <2>1. WorkInside' /\ UnusedIsNew'
    BY <1>2, <1>3, Parts DEF WorkInside, UnusedIsNew
  <2>2. OwnTransaction'
    BY <1>1, <1>2, <1>3, Parts DEF OwnTransaction
  <2>3. OwnChanges'
    BY <1>1, <1>2, <1>3, Parts DEF OwnChanges
  <2> QED  BY <1>2, <2>1, <2>2, <2>3 DEF Disciplined
<1>4. CASE /\ session[c] = "open"
           /\ work' = [work EXCEPT ![c] = @ \cup {t}]
           /\ session' \in {session, [session EXCEPT ![c] = "aborted"]}
  <2>1. \A x \in Conns :
          /\ x # c => session'[x] = session[x] /\ work'[x] = work[x]
          /\ x = c => session'[x] \in {"open", "aborted"} /\ work'[x] = work[x] \cup {t}
    BY <1>4 DEF TypeOK
  <2>2. WorkInside' /\ UnusedIsNew'
    BY <1>1, <1>2, <2>1, Parts DEF WorkInside, UnusedIsNew
  <2>3. c \notin misused' => c \in held[t] /\ txn[t] = c
    <3> SUFFICES ASSUME c \notin misused' PROVE c \in held[t] /\ txn[t] = c
      OBVIOUS
    <3>1. c \in held[t] /\ c \notin misused
      BY <1>1
    <3> QED  BY <1>4, <3>1, BorrowersOwn
  <2>4. OwnTransaction'
    <3> SUFFICES ASSUME NEW x \in InUse' \ misused', session'[x] \in {"open", "aborted"}
                 PROVE  \E u \in Threads : x \in held'[u] /\ txn'[u] = x
      BY DEF OwnTransaction
    <3>1. CASE x = c
      BY <1>1, <2>3, <3>1
    <3>2. CASE x # c
      BY <1>1, <1>2, <2>1, <3>2, Parts
    <3> QED  BY <3>1, <3>2
  <2>5. OwnChanges'
    <3> SUFFICES ASSUME NEW x \in InUse' \ misused', NEW u \in work'[x]
                 PROVE  x \in held'[u] /\ txn'[u] = x
      BY DEF OwnChanges
    <3>1. x \in InUse /\ x \in Conns /\ x \notin misused
      BY <1>1, <1>2, Parts
    <3>2. CASE u \in work[x]
      BY <1>1, <3>1, <3>2, Parts
    <3>3. CASE u \notin work[x]
      <4>1. x = c /\ u = t
        BY <2>1, <3>1, <3>3
      <4> QED  BY <1>1, <2>3, <4>1
    <3> QED  BY <3>2, <3>3
  <2> QED  BY <1>2, <2>2, <2>4, <2>5 DEF Disciplined
<1> QED  BY <1>3, <1>4 DEF Run

LEMMA BeginDisciplined ==
  ASSUME TypeOK, Disciplined, NEW t \in Threads, NEW c \in Conns, Begin(t, c)
  PROVE  Disciplined'
<1>1. /\ UNCHANGED pool /\ held' = held /\ work' = work /\ misused' = misused
      /\ c \in held[t] /\ txn[t] = Null
      /\ \A x \in Conns : session'[x] = IF x = c THEN "open" ELSE session[x]
      /\ \A u \in Threads : txn'[u] = IF u = t THEN c ELSE txn[u]
  BY DEF Begin, TypeOK, pool
<1>2. OnePlace' /\ InUse' = InUse /\ c \in InUse
  BY <1>1, PoolKept, Members
<1>3. WorkInside' /\ UnusedIsNew'
  BY <1>1, <1>2, Parts DEF WorkInside, UnusedIsNew
<1>4. \A u \in Threads : \A x \in Conns : txn[u] = x => u # t
  BY <1>1, PooledAssumption
<1>5. OwnTransaction'
  <2> SUFFICES ASSUME NEW x \in InUse' \ misused', session'[x] \in {"open", "aborted"}
               PROVE  \E u \in Threads : x \in held'[u] /\ txn'[u] = x
    BY DEF OwnTransaction
  <2>1. CASE x = c
    BY <1>1, <2>1
  <2>2. CASE x # c
    <3>1. x \in Conns /\ x \in InUse /\ session[x] \in {"open", "aborted"} /\ x \notin misused
      BY <1>1, <1>2, <2>2, Parts
    <3>2. PICK u \in Threads : x \in held[u] /\ txn[u] = x
      BY <3>1, Parts
    <3> QED  BY <1>1, <1>4, <3>1, <3>2
  <2> QED  BY <2>1, <2>2
<1>6. OwnChanges'
  <2> SUFFICES ASSUME NEW x \in InUse' \ misused', NEW u \in work'[x]
               PROVE  x \in held'[u] /\ txn'[u] = x
    BY DEF OwnChanges
  <2>1. u \in Threads /\ x \in held[u] /\ txn[u] = x /\ x \in Conns
    BY <1>1, <1>2, Parts
  <2> QED  BY <1>1, <1>4, <2>1
<1> QED  BY <1>2, <1>3, <1>5, <1>6 DEF Disciplined

\* The end of a transaction, with the transaction object emptied or not, and a
\* destructor on a session that is gone.
LEMMA EndDisciplined ==
  ASSUME TypeOK, Disciplined, NEW t \in Threads, Destructor(t) \/ Commit(t)
  PROVE  Disciplined'
<1>1. txn[t] \in InUse
  BY DEF Destructor, Commit, End
<1>2. PICK c \in Conns : c = txn[t] /\ c \in InUse
  BY <1>1, Parts
<1>3. /\ UNCHANGED pool /\ held' = held
      /\ \A u \in Threads : u # t => txn'[u] = txn[u]
  BY DEF Destructor, Commit, End, TypeOK, pool
<1>4. /\ \A x \in misused : x \in misused'
      /\ \A x \in Conns : x # c => session'[x] = session[x] /\ work'[x] = work[x]
      /\ session'[c] \in {"idle", "dead"} /\ work'[c] = {}
  <2>1. CASE End(t)
    BY <1>2, <2>1 DEF End, Touch, TypeOK
  <2>2. CASE session[txn[t]] = "dead" /\ UNCHANGED <<session, work, misused>>
    BY <1>2, <2>2, Parts
  <2> QED  BY <2>1, <2>2 DEF Destructor, Commit
<1>5. OnePlace' /\ InUse' = InUse
  BY <1>3, PoolKept
<1>6. WorkInside' /\ UnusedIsNew'
  BY <1>2, <1>4, <1>5, Parts DEF WorkInside, UnusedIsNew
<1>7. OwnTransaction'
  <2> SUFFICES ASSUME NEW x \in InUse' \ misused', session'[x] \in {"open", "aborted"}
               PROVE  \E u \in Threads : x \in held'[u] /\ txn'[u] = x
    BY DEF OwnTransaction
  <2>1. x # c /\ x \in InUse /\ x \notin misused /\ session[x] \in {"open", "aborted"}
    BY <1>4, <1>5, Parts
  <2>2. PICK u \in Threads : x \in held[u] /\ txn[u] = x
    BY <2>1, Parts
  <2> QED  BY <1>2, <1>3, <2>1, <2>2
<1>8. OwnChanges'
  <2> SUFFICES ASSUME NEW x \in InUse' \ misused', NEW u \in work'[x]
               PROVE  x \in held'[u] /\ txn'[u] = x
    BY DEF OwnChanges
  <2>1. x # c /\ x \in InUse /\ x \notin misused /\ u \in work[x]
    BY <1>4, <1>5, Parts
  <2>2. u \in Threads /\ x \in held[u] /\ txn[u] = x
    BY <2>1, Parts
  <2> QED  BY <1>2, <1>3, <2>1, <2>2
<1> QED  BY <1>5, <1>6, <1>7, <1>8 DEF Disciplined

LEMMA NextDisciplined == TypeOK /\ Disciplined /\ [Next]_vars => Disciplined'
<1> SUFFICES ASSUME TypeOK, Disciplined, [Next]_vars PROVE Disciplined'
  OBVIOUS
<1>1. ASSUME UNCHANGED <<pool, session, work, txn, misused>> PROVE Disciplined'
  <2>1. OnePlace' /\ InUse' = InUse
    BY <1>1, PoolKept
  <2>2. held' = held
    BY <1>1 DEF pool
  <2>3. WorkInside' /\ UnusedIsNew' /\ OwnTransaction' /\ OwnChanges'
    BY <1>1, <2>1, <2>2
       DEF Disciplined, WorkInside, UnusedIsNew, OwnTransaction, OwnChanges
  <2> QED  BY <2>1, <2>3 DEF Disciplined
<1>2. ASSUME NEW t \in Threads, NEW c \in Conns, NEW s \in Sqls, Get(t, c, s) PROVE Disciplined'
  BY <1>1, <1>2 DEF Get
<1>3. ASSUME NEW t \in Threads, NEW st \in owns[t], LetGo(t, st) PROVE Disciplined'
  BY <1>1, <1>3 DEF LetGo
<1>4. CASE Clear \/ UNCHANGED vars
  BY <1>1, <1>4 DEF Clear, vars, pool
<1>5. ASSUME NEW t \in Threads, NEW st \in owns[t] PROVE st.on \in Conns
  BY DEF TypeOK, Statements
<1> QED
  BY <1>2, <1>3, <1>4, <1>5, AcquireDisciplined, ReleaseDisciplined, ShutdownDisciplined,
     BreakDisciplined, RunDisciplined, BeginDisciplined, EndDisciplined
     DEF Next, Execute, ExecuteKept

-----------------------------------------------------------------------------
(* The theorems.                                                           *)

LEMMA Inductive == Spec => [](TypeOK /\ Disciplined)
<1>1. Init => TypeOK /\ Disciplined
  BY InitTyped, InitDisciplined
<1>2. TypeOK /\ Disciplined /\ [Next]_vars => (TypeOK /\ Disciplined)'
  BY NextTyped, NextDisciplined
<1> QED  BY <1>1, <1>2, PTL DEF Spec

\* Uncommitted changes are those of the borrower, in the borrower's transaction
\* (PgTransaction.hpp:12-41, ConnectionPool.hpp:67-91).
THEOREM OwnWorkHolds == Spec => []OwnWork
<1>1. TypeOK /\ Disciplined => OwnWork
  BY DEF Disciplined, OwnChanges, OwnWork
<1> QED  BY <1>1, Inductive, PTL

LEMMA LentClean ==
  ASSUME TypeOK, Disciplined, [Next]_vars, NEW t \in Threads, NEW c \in held'[t] \ held[t]
  PROVE  session'[c] = "idle" \/ c \in misused
<1>1. CASE Discard({}) /\ Pool!LendFront(t)
  <2>1. /\ queue # <<>> /\ Head(queue) \notin Unhealthy
        /\ held' = [held EXCEPT ![t] = @ \cup {Head(queue)}]
    BY <1>1, PoolEffects
  <2>2. held'[t] = held[t] \cup {Head(queue)}
    BY <2>1 DEF TypeOK
  <2>3. c = Head(queue)
    BY <2>2
  <2>4. c \in Conns /\ c \in ToSet(queue) /\ \A u \in Threads : c \notin held[u]
    BY <2>1, <2>3, FrontTaken DEF Disciplined
  <2>5. c \in InUse
    BY <2>4, Members
  <2>6. session'[c] = session[c]
    BY <1>1, <2>4, DiscardEffects
  <2>7. session[c] \notin {"aborted", "dead"}
    BY <2>1, <2>3, <2>5 DEF Unhealthy
  <2>8. session[c] \in {"idle", "open"}
    BY <2>4, <2>7 DEF TypeOK
  <2> QED  BY <2>4, <2>5, <2>6, <2>8, Parts
<1>2. ASSUME NEW d \in Conns, Discard({Head(queue)}), Pool!LendReplacement(t, d)
      PROVE  session'[c] = "idle"
  <2>1. d \notin InUse /\ held' = [held EXCEPT ![t] = @ \cup {d}]
    BY <1>2, ExchangeEffects
  <2>2. held'[t] = held[t] \cup {d}
    BY <2>1 DEF TypeOK
  <2>3. c = d /\ session[c] = "idle"
    BY <2>1, <2>2, Parts
  <2>4. \/ c \in {Head(queue)} /\ session'[c] = "idle"
        \/ c \notin {Head(queue)} /\ session'[c] = session[c]
    BY <1>2, <2>3, DiscardEffects
  <2> QED  BY <2>3, <2>4
<1>3. held' # held
  OBVIOUS
<1>4. ASSUME NEW u \in Threads, Acquire(u) PROVE u = t
  <2>1. Pool!LendFront(u) \/ Pool!LoseFront \/ \E d \in Conns : Pool!LendReplacement(u, d)
    BY <1>4 DEF Acquire
  <2>2. held' = held \/ \E S : held' = [held EXCEPT ![u] = S]
    BY <2>1, PoolEffects, ExchangeEffects
  <2>3. u # t => held'[t] = held[t]
    BY <2>2 DEF TypeOK
  <2> QED  BY <2>3
<1>5. ASSUME Acquire(t) PROVE session'[c] = "idle" \/ c \in misused
  BY <1>1, <1>2, <1>3, <1>5, PoolEffects DEF Acquire
<1>6. ASSUME NEW u \in Threads, NEW x \in Conns, Release(u, x) PROVE FALSE
  <2>1. held' = [held EXCEPT ![u] = @ \ {x}]
    BY <1>6, ExchangeEffects DEF Release
  <2>2. held'[t] \subseteq held[t]
    BY <2>1 DEF TypeOK
  <2> QED  BY <2>2
<1>7. ~ Shutdown
  BY <1>3, PoolEffects DEF Shutdown, Pool!Close
<1>8. ~ UNCHANGED pool
  BY <1>3 DEF pool
<1>9. ~ UNCHANGED vars
  BY <1>3 DEF vars
<1>10. \A u \in Threads : ~ Destructor(u) /\ ~ Commit(u)
  BY <1>8 DEF Destructor, Commit, End
<1>11. \A u \in Threads, x \in Conns :
          /\ ~ Begin(u, x) /\ ~ Run(u, x) /\ ~ Break(x)
          /\ \A s \in Sqls : ~ Get(u, x, s)
  BY <1>8 DEF Begin, Run, Break, Get
<1>12. \A u \in Threads, st \in Statements : ~ Run(u, st.on) /\ ~ LetGo(u, st)
  BY <1>8 DEF Run, LetGo
<1>13. ~ Clear
  BY <1>8 DEF Clear
<1>14. \A u \in Threads : owns[u] \subseteq Statements
  BY DEF TypeOK
<1> QED
  BY <1>4, <1>5, <1>6, <1>7, <1>9, <1>10, <1>11, <1>12, <1>13, <1>14
     DEF Next, Execute, ExecuteKept

\* acquire() lends a session outside any transaction (ConnectionPool.hpp:45-65).
THEOREM LeasesClean == Spec => CleanLease
<1>1. TypeOK /\ Disciplined /\ [Next]_vars =>
        \A t \in Threads : \A c \in held'[t] \ held[t] : session'[c] = "idle" \/ c \in misused
  BY LentClean
<1> QED  BY <1>1, Inductive, PTL DEF Spec, CleanLease
=============================================================================
