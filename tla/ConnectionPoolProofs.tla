------------------------ MODULE ConnectionPoolProofs ------------------------
(***************************************************************************)
(* Proofs about ConnectionPool for any number of threads, connections and  *)
(* calls and any pool size.  The inductive invariant is built in layers,   *)
(* each one proved with the help of those before it; the last part shows   *)
(* that the pool implements the atomic pool of LeasePool.                  *)
(***************************************************************************)
EXTENDS ConnectionPool, SequenceTheorems, FiniteSetTheorems, TLAPS

-----------------------------------------------------------------------------
(* The queue, a sequence without repetition.                              *)

\* Popping the front removes exactly that element (ConnectionPool.hpp:55-56).
LEMMA PopFacts ==
  ASSUME NEW S, NEW s \in Seq(S), s # <<>>, IsInjective(s)
  PROVE  /\ Head(s) \in S /\ Head(s) \in ToSet(s)
         /\ Tail(s) \in Seq(S) /\ Len(Tail(s)) = Len(s) - 1
         /\ IsInjective(Tail(s))
         /\ ToSet(Tail(s)) = ToSet(s) \ {Head(s)}
<1>1. /\ Len(s) \in Nat \ {0} /\ DOMAIN s = 1 .. Len(s)
      /\ Head(s) = s[1]
  BY EmptySeq, LenProperties
<1>2. /\ Head(s) \in S /\ Tail(s) \in Seq(S) /\ Len(Tail(s)) = Len(s) - 1
      /\ \A i \in 1 .. Len(Tail(s)) : Tail(s)[i] = s[i + 1]
  BY HeadTailProperties
<1>3. DOMAIN Tail(s) = 1 .. Len(s) - 1
  BY <1>2, LenProperties
<1>4. Head(s) \in ToSet(s)
  BY <1>1 DEF ToSet
<1>5. IsInjective(Tail(s))
  BY <1>1, <1>2, <1>3 DEF IsInjective
<1>6. ToSet(Tail(s)) \subseteq ToSet(s) \ {Head(s)}
  BY <1>1, <1>2, <1>3 DEF ToSet, IsInjective
<1>7. ASSUME NEW x \in ToSet(s) \ {Head(s)} PROVE x \in ToSet(Tail(s))
  <2>1. PICK i \in 1 .. Len(s) : x = s[i] /\ i # 1
    BY <1>1 DEF ToSet
  <2>2. i - 1 \in DOMAIN Tail(s) /\ Tail(s)[i - 1] = x
    BY <1>1, <1>2, <1>3, <2>1
  <2> QED  BY <2>2 DEF ToSet
<1> QED  BY <1>2, <1>4, <1>5, <1>6, <1>7

\* Pushing adds exactly the new element (ConnectionPool.hpp:79 and 86).
LEMMA PushFacts ==
  ASSUME NEW S, NEW s \in Seq(S), NEW e \in S
  PROVE  /\ Append(s, e) \in Seq(S) /\ Len(Append(s, e)) = Len(s) + 1
         /\ Append(s, e) # <<>>
         /\ ToSet(Append(s, e)) = ToSet(s) \cup {e}
         /\ IsInjective(s) /\ e \notin ToSet(s) => IsInjective(Append(s, e))
<1>1. /\ Append(s, e) \in Seq(S) /\ Len(Append(s, e)) = Len(s) + 1
      /\ Append(s, e) # <<>>
      /\ \A i \in 1 .. Len(s) : Append(s, e)[i] = s[i]
      /\ Append(s, e)[Len(s) + 1] = e
  BY AppendProperties
<1>2. /\ Len(s) \in Nat /\ DOMAIN s = 1 .. Len(s)
      /\ DOMAIN Append(s, e) = 1 .. Len(s) + 1
  BY <1>1, LenProperties
<1>3. ToSet(Append(s, e)) = ToSet(s) \cup {e}
  BY <1>1, <1>2 DEF ToSet
<1>4. IsInjective(s) /\ e \notin ToSet(s) => IsInjective(Append(s, e))
  BY <1>1, <1>2 DEF ToSet, IsInjective
<1> QED  BY <1>1, <1>3, <1>4

\* The queue of a pool that was shut down.
LEMMA EmptyQueue ==
  ASSUME NEW S
  PROVE  <<>> \in Seq(S) /\ Len(<<>>) = 0 /\ ToSet(<<>>) = {} /\ IsInjective(<<>>)
BY EmptySeq DEF ToSet, IsInjective

\* A connection in front of the queue.
LEMMA FrontFacts ==
  ASSUME NEW S, NEW s \in Seq(S), NEW e \in S
  PROVE  /\ <<e>> \o s \in Seq(S) /\ <<e>> \o s # <<>>
         /\ Head(<<e>> \o s) = e /\ Tail(<<e>> \o s) = s
         /\ ToSet(<<e>> \o s) = {e} \cup ToSet(s)
<1> DEFINE q == <<e>> \o s
<1>1. /\ q \in Seq(S) /\ Len(q) = Len(s) + 1 /\ Len(s) \in Nat
      /\ q[1] = e /\ \A i \in 1 .. Len(s) : q[i + 1] = s[i]
  OBVIOUS
<1>2. q # <<>> /\ DOMAIN q = 1 .. Len(s) + 1 /\ DOMAIN s = 1 .. Len(s)
  BY <1>1, LenProperties, EmptySeq
<1> HIDE DEF q
<1>3. Head(q) = e
  BY <1>1, <1>2, HeadTailProperties
<1>4. Tail(q) = s
  <2>1. /\ Tail(q) \in Seq(S) /\ Len(Tail(q)) = Len(s)
        /\ \A i \in 1 .. Len(Tail(q)) : Tail(q)[i] = q[i + 1]
    BY <1>1, <1>2, HeadTailProperties
  <2> QED  BY <1>1, <2>1, SeqEqual
<1>5. ToSet(q) = {e} \cup ToSet(s)
  <2>1. ASSUME NEW x \in ToSet(q) PROVE x \in {e} \cup ToSet(s)
    <3>1. PICK i \in 1 .. Len(s) + 1 : x = q[i]
      BY <1>2 DEF ToSet
    <3>2. CASE i = 1
      BY <1>1, <3>1, <3>2
    <3>3. CASE i # 1
      <4>1. i - 1 \in 1 .. Len(s) /\ q[(i - 1) + 1] = s[i - 1] /\ (i - 1) + 1 = i
        BY <1>1, <3>1, <3>3
      <4> QED  BY <1>2, <3>1, <4>1 DEF ToSet
    <3> QED  BY <3>2, <3>3
  <2>2. e \in ToSet(q)
    BY <1>1, <1>2 DEF ToSet
  <2>3. ASSUME NEW x \in ToSet(s) PROVE x \in ToSet(q)
    <3>1. PICK i \in 1 .. Len(s) : x = s[i]
      BY <1>2 DEF ToSet
    <3>2. i + 1 \in 1 .. Len(s) + 1 /\ q[i + 1] = x
      BY <1>1, <3>1
    <3> QED  BY <1>2, <3>2 DEF ToSet
  <2> QED  BY <2>1, <2>2, <2>3
<1> QED  BY <1>1, <1>2, <1>3, <1>4, <1>5 DEF q

\* Popping and putting in front is nothing.
LEMMA PopFront ==
  ASSUME NEW S, NEW s \in Seq(S), s # <<>>
  PROVE  <<Head(s)>> \o Tail(s) = s
<1>1. /\ Head(s) \in S /\ Head(s) = s[1] /\ Tail(s) \in Seq(S)
      /\ Len(Tail(s)) = Len(s) - 1 /\ Len(s) \in Nat \ {0}
      /\ \A i \in 1 .. Len(Tail(s)) : Tail(s)[i] = s[i + 1]
  BY HeadTailProperties, EmptySeq, LenProperties
<1> DEFINE q == <<Head(s)>> \o Tail(s)
<1>2. /\ q \in Seq(S) /\ Len(q) = Len(s) /\ q[1] = Head(s)
      /\ \A i \in 1 .. Len(Tail(s)) : q[i + 1] = Tail(s)[i]
  BY <1>1
<1>3. ASSUME NEW i \in 1 .. Len(s) PROVE q[i] = s[i]
  <2>1. CASE i = 1
    BY <1>1, <1>2, <2>1
  <2>2. CASE i # 1
    <3>1. i - 1 \in 1 .. Len(Tail(s)) /\ (i - 1) + 1 = i
      BY <1>1, <2>2
    <3> QED  BY <1>1, <1>2, <3>1
  <2> QED  BY <2>1, <2>2
<1> HIDE DEF q
<1>4. q = s
  BY <1>2, <1>3, SeqEqual
<1> QED  BY <1>4 DEF q

-----------------------------------------------------------------------------
(* Counting connections.                                                   *)

\* Replacing an element of a finite set does not make it larger.
LEMMA SwapFacts ==
  ASSUME NEW S, IsFiniteSet(S), NEW x \in S, NEW y
  PROVE  /\ IsFiniteSet((S \ {x}) \cup {y})
         /\ Cardinality((S \ {x}) \cup {y}) <= Cardinality(S)
<1> DEFINE R == S \ {x}
<1>1. IsFiniteSet(R)
      /\ Cardinality(R) = IF x \in S THEN Cardinality(S) - 1 ELSE Cardinality(S)
  BY FS_RemoveElement
<1>2. IsFiniteSet(R \cup {y})
      /\ Cardinality(R \cup {y}) = IF y \in R THEN Cardinality(R) ELSE Cardinality(R) + 1
  BY <1>1, FS_AddElement
<1>3. Cardinality(S) \in Nat /\ Cardinality(R) \in Nat
  BY <1>1, FS_CardinalityType
<1> QED  BY <1>1, <1>2, <1>3

-----------------------------------------------------------------------------
(* Layer 1: types and the mutex.                                           *)

Layer1 == TypeOK /\ MutexDiscipline

LEMMA InitLayer1 == Init => Layer1
<1> SUFFICES ASSUME Init PROVE Layer1
  OBVIOUS
<1>1. available \in Seq(Conns)
  BY SeqDef DEF Init
<1>2. NoThread \notin Threads
  BY ThreadsAssumption
<1> QED
  BY <1>1, <1>2 DEF Init, Layer1, TypeOK, MutexDiscipline, Outside, Inside,
     CheckedOut, CheckedIn, Carrying

LEMMA NextLayer1 == Layer1 /\ [Next]_vars => Layer1'
<1> SUFFICES ASSUME Layer1, [Next]_vars PROVE Layer1'
  OBVIOUS
<1> USE ThreadsAssumption, ConnsAssumption
<1> USE DEF Layer1, TypeOK, MutexDiscipline, Outside, Inside, CheckedOut,
    CheckedIn, Carrying, Goto, Leave, MayLook
<1>1. ASSUME NEW t \in Threads, CallAcquire(t) PROVE Layer1'
  BY <1>1 DEF CallAcquire
<1>2. ASSUME NEW t \in Threads, CallShutdown(t) PROVE Layer1'
  BY <1>2 DEF CallShutdown
<1>3. ASSUME NEW t \in Threads, NEW c \in Conns, CallRelease(t, c) PROVE Layer1'
  BY <1>3 DEF CallRelease
<1>4. ASSUME NEW t \in Threads, Deadline(t) PROVE Layer1'
  BY <1>4 DEF Deadline
<1>5. ASSUME NEW t \in Threads, Wait(t) \/ TimerWakes(t) \/ SpuriousWake(t) PROVE Layer1'
  BY <1>5 DEF Wait, TimerWakes, SpuriousWake
<1>6. ASSUME NEW t \in Threads, TimeOut(t) \/ Refuse(t) PROVE Layer1'
  BY <1>6 DEF TimeOut, Refuse
<1>7. ASSUME NEW t \in Threads, Take(t) PROVE Layer1'
  <2>1. available # <<>>
    BY <1>7 DEF Take, Ready
  <2>2. Head(available) \in Conns /\ Tail(available) \in Seq(Conns)
    BY <2>1, HeadTailProperties
  <2> QED  BY <1>7, <2>2 DEF Take
<1>8. ASSUME NEW t \in Threads, HandOver(t) \/ HandOverNothing(t) PROVE Layer1'
  <2>1. CASE HandOver(t)
    <3>1. hand[t] \in Conns
      BY <2>1 DEF HandOver
    <3> QED  BY <2>1, <3>1 DEF HandOver
  <2>2. CASE HandOverNothing(t)
    BY <2>2 DEF HandOverNothing
  <2> QED  BY <1>8, <2>1, <2>2
<1>9. ASSUME NEW t \in Threads, NEW c \in Conns, HandOverNew(t, c) PROVE Layer1'
  BY <1>9 DEF HandOverNew, Fresh
<1>10. ASSUME NEW t \in Threads, FindBroken(t) \/ NoticeBroken(t) PROVE Layer1'
  BY <1>10 DEF FindBroken, NoticeBroken
<1>11. ASSUME NEW t \in Threads, ReleaseClosed(t) PROVE Layer1'
  BY <1>11 DEF ReleaseClosed
<1>12. ASSUME NEW t \in Threads, ReleaseOpen(t) PROVE Layer1'
  BY <1>12 DEF ReleaseOpen
<1>13. ASSUME NEW t \in Threads, LeaveNotifying(t), pc[t] \in CheckedIn,
              available' \in Seq(Conns), broken' \in SUBSET Conns,
              UNCHANGED <<shutdown, leases, expired, calls>>
       PROVE  Layer1'
  <2>1. CASE Asleep = {} /\ Goto(t, "idle")
    BY <1>13, <2>1 DEF LeaveNotifying
  <2>2. ASSUME NEW w \in Asleep, pc' = [pc EXCEPT ![t] = "idle", ![w] = "woken"]
        PROVE  Layer1'
    <3>1. w \in Threads /\ pc[w] = "asleep" /\ w # t
      BY <1>13, <2>2 DEF Asleep
    <3> QED  BY <1>13, <2>2, <3>1 DEF LeaveNotifying
  <2> QED  BY <1>13, <2>1, <2>2 DEF LeaveNotifying
<1>14. ASSUME NEW t \in Threads, PutBack(t) PROVE Layer1'
  <2>1. hand[t] \in Conns
    BY <1>14 DEF PutBack
  <2>2. available' \in Seq(Conns)
    BY <1>14, <2>1, AppendProperties DEF PutBack
  <2> QED  BY <1>13, <1>14, <2>2 DEF PutBack
<1>15. ASSUME NEW t \in Threads, NEW c \in Conns, PutNew(t, c) PROVE Layer1'
  <2>1. available' \in Seq(Conns)
    BY <1>15, AppendProperties DEF PutNew
  <2> QED  BY <1>13, <1>15, <2>1 DEF PutNew, Fresh
<1>16. ASSUME NEW t \in Threads, PutNothing(t) PROVE Layer1'
  BY <1>13, <1>16 DEF PutNothing
<1>17. ASSUME NEW t \in Threads, Shutdown(t) PROVE Layer1'
  BY <1>17, EmptySeq DEF Shutdown, Asleep
<1>18. ASSUME NEW c \in Conns, Break(c) \/ Heal(c) PROVE Layer1'
  BY <1>18 DEF Break, Heal
<1>19. CASE UNCHANGED vars
  BY <1>19 DEF vars
<1> QED
  BY <1>1, <1>2, <1>3, <1>4, <1>5, <1>6, <1>7, <1>8, <1>9, <1>10, <1>11, <1>12,
     <1>14, <1>15, <1>16, <1>17, <1>18, <1>19 DEF Next, Advance

\* Every variable keeps its type: a call carries a connection exactly between
\* taking it and giving it away, so no null pointer is leased or queued.
THEOREM TypeCorrect == Spec => []TypeOK
<1>1. Layer1 => TypeOK
  BY DEF Layer1
<1> QED  BY InitLayer1, NextLayer1, <1>1, PTL DEF Spec

\* The pool's critical sections exclude each other, through the health checks
\* and factory calls made inside them.
THEOREM MutexDisciplined == Spec => []MutexDiscipline
<1>1. Layer1 => MutexDiscipline
  BY DEF Layer1
<1> QED  BY InitLayer1, NextLayer1, <1>1, PTL DEF Spec

-----------------------------------------------------------------------------
(* Layer 2: the pool that was shut down.                                   *)

Layer2 == Layer1 /\ ClosedIsEmpty

LEMMA NextClosedIsEmpty == Layer2 /\ [Next]_vars => ClosedIsEmpty'
<1> SUFFICES ASSUME Layer2, [Next]_vars PROVE ClosedIsEmpty'
  OBVIOUS
<1> USE DEF Layer2, Layer1, TypeOK, MutexDiscipline, ClosedIsEmpty, Asleep, Goto
<1>1. ASSUME pc' \in [Threads -> Outside \cup Inside],
             \A u \in Threads : pc'[u] = "asleep" => pc[u] = "asleep",
             shutdown' = shutdown, shutdown => available' = <<>> /\ owner' = NoThread
      PROVE  ClosedIsEmpty'
  BY <1>1
<1>2. ASSUME NEW t \in Threads, CallAcquire(t) \/ CallShutdown(t) PROVE ClosedIsEmpty'
  BY <1>1, <1>2 DEF CallAcquire, CallShutdown, Outside
<1>3. ASSUME NEW t \in Threads, NEW c \in Conns, CallRelease(t, c) PROVE ClosedIsEmpty'
  BY <1>1, <1>3 DEF CallRelease, Outside
<1>4. ASSUME NEW t \in Threads, Deadline(t) PROVE ClosedIsEmpty'
  BY <1>4 DEF Deadline
<1>5. ASSUME NEW t \in Threads, TimerWakes(t) \/ SpuriousWake(t) PROVE ClosedIsEmpty'
  BY <1>1, <1>5 DEF TimerWakes, SpuriousWake, Outside
<1>6. ASSUME NEW t \in Threads, Wait(t) PROVE ClosedIsEmpty'
  BY <1>6 DEF Wait, Ready
<1>7. ASSUME NEW t \in Threads, TimeOut(t) \/ Refuse(t) PROVE ClosedIsEmpty'
  BY <1>1, <1>7 DEF TimeOut, Refuse, Outside
<1>8. ASSUME NEW t \in Threads, Take(t) PROVE ClosedIsEmpty'
  BY <1>8 DEF Take
<1>9. ASSUME NEW t \in Threads, pc[t] \in Inside, shutdown' = shutdown PROVE ClosedIsEmpty'
  <2>1. ~shutdown
    BY <1>9, ThreadsAssumption
  <2> QED  BY <1>9, <2>1
<1>10. ASSUME NEW t \in Threads,
              HandOver(t) \/ FindBroken(t) \/ HandOverNothing(t) \/ PutBack(t)
                \/ NoticeBroken(t) \/ PutNothing(t)
       PROVE  ClosedIsEmpty'
  BY <1>9, <1>10 DEF HandOver, FindBroken, HandOverNothing, PutBack, NoticeBroken,
     PutNothing, Inside, CheckedOut, CheckedIn
<1>11. ASSUME NEW t \in Threads, NEW c \in Conns, HandOverNew(t, c) \/ PutNew(t, c)
       PROVE  ClosedIsEmpty'
  BY <1>9, <1>11 DEF HandOverNew, PutNew, Inside, CheckedOut, CheckedIn
<1>12. ASSUME NEW t \in Threads, ReleaseClosed(t) PROVE ClosedIsEmpty'
  BY <1>1, <1>12 DEF ReleaseClosed, Leave, Outside
<1>13. ASSUME NEW t \in Threads, ReleaseOpen(t) PROVE ClosedIsEmpty'
  BY <1>13 DEF ReleaseOpen
<1>14. ASSUME NEW t \in Threads, Shutdown(t) PROVE ClosedIsEmpty'
  BY <1>14 DEF Shutdown
<1>15. ASSUME NEW c \in Conns, Break(c) \/ Heal(c) PROVE ClosedIsEmpty'
  BY <1>15 DEF Break, Heal
<1>16. CASE UNCHANGED vars
  BY <1>16 DEF vars
<1> QED
  BY <1>2, <1>3, <1>4, <1>5, <1>6, <1>7, <1>8, <1>10, <1>11, <1>12, <1>13, <1>14,
     <1>15, <1>16 DEF Next, Advance

LEMMA SpecLayer2 == Spec => []Layer2
<1>1. Init => ClosedIsEmpty
  BY DEF Init, ClosedIsEmpty
<1>2. Layer2 /\ [Next]_vars => Layer2'
  BY NextLayer1, NextClosedIsEmpty DEF Layer2
<1>3. Init => Layer2
  BY <1>1, InitLayer1 DEF Layer2
<1> QED  BY <1>2, <1>3, PTL DEF Spec

\* A pool that was shut down stays empty, and no thread sleeps in it or is
\* half way through taking or returning a connection.
THEOREM ClosedStaysEmpty == Spec => []ClosedIsEmpty
<1>1. Layer2 => ClosedIsEmpty
  BY DEF Layer2
<1> QED  BY SpecLayer2, <1>1, PTL

\* No call leases a connection out once shutdown() has run.
THEOREM NoLateLease == Spec => NoLeaseAfterShutdown
<1> DEFINE Late == shutdown => shutdown' /\ \A t \in Threads : leases'[t] \subseteq leases[t]
<1>1. Layer2 /\ [Next]_vars => [Late]_vars
  <2> SUFFICES ASSUME Layer2, Next, shutdown PROVE Late
    BY DEF vars
  <2> USE DEF Layer2, Layer1, TypeOK, MutexDiscipline, ClosedIsEmpty
  <2>1. \A t \in Threads : pc[t] \notin Inside
    BY ThreadsAssumption
  <2>2. ASSUME NEW t \in Threads, NEW c \in Conns, CallRelease(t, c) PROVE Late
    BY <2>2 DEF CallRelease
  <2>3. ASSUME NEW t \in Threads, Shutdown(t) PROVE Late
    BY <2>3 DEF Shutdown
  <2>4. CASE UNCHANGED <<shutdown, leases>>
    BY <2>4
  <2> QED
    BY <2>1, <2>2, <2>3, <2>4 DEF Next, Advance, CallAcquire, CallShutdown, Deadline,
       Wait, TimerWakes, SpuriousWake, TimeOut, Refuse, Take, HandOver, FindBroken,
       HandOverNew, HandOverNothing, ReleaseClosed, ReleaseOpen, PutBack, NoticeBroken,
       PutNew, PutNothing, Break, Heal, Inside, CheckedOut, CheckedIn
<1> QED  BY <1>1, SpecLayer2, PTL DEF Spec, NoLeaseAfterShutdown

-----------------------------------------------------------------------------
(* Layer 3: wake-ups.                                                      *)

Layer3 == Layer2 /\ NoLostWakeup

LEMMA NextNoLostWakeup == Layer3 /\ [Next]_vars => NoLostWakeup'
<1> SUFFICES ASSUME Layer3, [Next]_vars PROVE NoLostWakeup'
  OBVIOUS
<1> USE ThreadsAssumption DEF Layer3, Layer2, Layer1, TypeOK, NoLostWakeup, Goto
<1>1. /\ IsFiniteSet(Woken) /\ Cardinality(Woken) \in Nat
      /\ IsFiniteSet(Woken') /\ Cardinality(Woken') \in Nat
      /\ Len(available) \in Nat
  BY FS_Subset, FS_CardinalityType, LenProperties DEF Woken
\* Steps that leave the queue alone and in which nobody falls asleep, and no
\* thread stops looking unless there is nothing to find.
<1>2. ASSUME Asleep' \subseteq Asleep, Woken \subseteq Woken', available' = available
      PROVE  NoLostWakeup'
  BY <1>1, <1>2, FS_Subset
<1>3. ASSUME available' = <<>> PROVE NoLostWakeup'
  BY <1>1, <1>3, EmptyQueue
\* The end of a release(): one more connection at most, and one more thread
\* awake unless nobody sleeps.
<1>4. ASSUME NEW t \in Threads, pc[t] \in CheckedIn, LeaveNotifying(t),
             \/ available' = available
             \/ \E c \in Conns : available' = Append(available, c)
      PROVE  NoLostWakeup'
  <2>1. Len(available') <= Len(available) + 1 /\ Len(available') \in Nat
    BY <1>1, <1>4, PushFacts
  <2>2. CASE Asleep = {} /\ Goto(t, "idle")
    BY <2>2 DEF Asleep
  <2>3. ASSUME NEW w \in Asleep, pc' = [pc EXCEPT ![t] = "idle", ![w] = "woken"]
        PROVE  NoLostWakeup'
    <3>1. w \notin Woken /\ Woken' = Woken \cup {w}
      BY <1>4, <2>3 DEF Asleep, Woken, CheckedIn
    <3>2. Cardinality(Woken') = Cardinality(Woken) + 1
      BY <1>1, <3>1, FS_AddElement
    <3> QED  BY <1>1, <2>1, <2>3, <3>2
  <2> QED  BY <1>4, <2>2, <2>3 DEF LeaveNotifying
\* A taker removes one connection and at most itself from the woken threads.
<1>5. ASSUME NEW t \in Threads, Take(t) PROVE NoLostWakeup'
  <2>1. available # <<>> /\ available' = Tail(available) /\ pc' = [pc EXCEPT ![t] = "checkOut"]
    BY <1>5 DEF Take, Ready, Layer2, ClosedIsEmpty
  <2>2. Len(available') = Len(available) - 1
    BY <2>1, HeadTailProperties
  <2>3. Asleep' = Asleep /\ Woken' = Woken \ {t}
    BY <1>5, <2>1 DEF Asleep, Woken, Take, MayLook
  <2>4. Cardinality(Woken') >= Cardinality(Woken) - 1
    <3>1. Cardinality(Woken \ {t}) =
            IF t \in Woken THEN Cardinality(Woken) - 1 ELSE Cardinality(Woken)
      BY <1>1, FS_RemoveElement
    <3> QED  BY <1>1, <2>3, <3>1
  <2> QED  BY <1>1, <2>2, <2>3, <2>4
<1>6. ASSUME NEW t \in Threads, Wait(t) \/ TimeOut(t) PROVE NoLostWakeup'
  BY <1>3, <1>6 DEF Wait, TimeOut, Ready
<1>7. ASSUME NEW t \in Threads, Refuse(t) PROVE NoLostWakeup'
  BY <1>3, <1>7 DEF Refuse, ClosedIsEmpty
<1>8. ASSUME NEW t \in Threads,
             CallAcquire(t) \/ CallShutdown(t) \/ Deadline(t) \/ TimerWakes(t)
               \/ SpuriousWake(t) \/ HandOver(t) \/ FindBroken(t) \/ HandOverNothing(t)
               \/ ReleaseClosed(t) \/ ReleaseOpen(t) \/ NoticeBroken(t)
      PROVE  NoLostWakeup'
  BY <1>2, <1>8 DEF CallAcquire, CallShutdown, Deadline, TimerWakes, SpuriousWake,
     HandOver, FindBroken, HandOverNothing, ReleaseClosed, ReleaseOpen, NoticeBroken,
     Leave, Asleep, Woken
<1>9. ASSUME NEW t \in Threads, NEW c \in Conns, CallRelease(t, c) \/ HandOverNew(t, c)
      PROVE  NoLostWakeup'
  BY <1>2, <1>9 DEF CallRelease, HandOverNew, Leave, Asleep, Woken
<1>10. ASSUME NEW t \in Threads, PutBack(t) PROVE NoLostWakeup'
  <2>1. hand[t] \in Conns
    BY <1>10 DEF PutBack, MutexDiscipline, Carrying, Inside, CheckedIn
  <2> QED  BY <1>4, <1>10, <2>1 DEF PutBack, CheckedIn
<1>11. ASSUME NEW t \in Threads, NEW c \in Conns, PutNew(t, c) PROVE NoLostWakeup'
  BY <1>4, <1>11 DEF PutNew, CheckedIn
<1>12. ASSUME NEW t \in Threads, PutNothing(t) PROVE NoLostWakeup'
  BY <1>4, <1>12 DEF PutNothing, CheckedIn
<1>13. ASSUME NEW t \in Threads, Shutdown(t) PROVE NoLostWakeup'
  BY <1>3, <1>13 DEF Shutdown
<1>14. ASSUME NEW c \in Conns, Break(c) \/ Heal(c) PROVE NoLostWakeup'
  BY <1>2, <1>14 DEF Break, Heal, Asleep, Woken
<1>15. CASE UNCHANGED vars
  BY <1>2, <1>15 DEF vars, Asleep, Woken
<1> QED
  BY <1>5, <1>6, <1>7, <1>8, <1>9, <1>10, <1>11, <1>12, <1>13, <1>14, <1>15
     DEF Next, Advance

\* One notify_one() per release() is enough: a queued connection is never
\* left to a sleeping thread, whoever overtakes whom.
THEOREM WakeupsNotLost == Spec => []NoLostWakeup
<1>1. Init => NoLostWakeup
  BY DEF Init, NoLostWakeup, Asleep
<1>2. Layer2 /\ NoLostWakeup /\ [Next]_vars => NoLostWakeup'
  BY NextNoLostWakeup DEF Layer3
<1> QED  BY <1>1, <1>2, SpecLayer2, PTL DEF Spec

-----------------------------------------------------------------------------
(* Layer 4: one place for every connection, and never too many of them.    *)

Layer4 == Layer2 /\ ExclusiveOwnership /\ CapacityBound

\* Where a connection can be.
LEMMA LiveMembers ==
  ASSUME Layer1
  PROVE  \A c : c \in Live <=> \/ c \in ToSet(available)
                               \/ \E t \in Threads : c \in leases[t]
                               \/ \E t \in Threads : c = hand[t] /\ c # NoConn
BY DEF Live

LEMMA NextExclusiveOwnership ==
  Layer1 /\ ExclusiveOwnership /\ [Next]_vars => ExclusiveOwnership'
<1> SUFFICES ASSUME Layer1, ExclusiveOwnership, [Next]_vars PROVE ExclusiveOwnership'
  OBVIOUS
<1> USE ConnsAssumption DEF Layer1, TypeOK
<1>1. NoConn \notin ToSet(available)
  BY LenProperties DEF ToSet
<1>2. ASSUME NEW t \in Threads, NEW c \in Conns, CallRelease(t, c)
      PROVE  ExclusiveOwnership'
  <2>1. hand[t] = NoConn
    BY <1>2 DEF CallRelease, MutexDiscipline, Carrying, Inside, CheckedOut, CheckedIn
  <2> QED  BY <1>2, <2>1 DEF CallRelease, ExclusiveOwnership
<1>3. ASSUME NEW t \in Threads, Take(t) PROVE ExclusiveOwnership'
  <2>1. /\ available # <<>> /\ available' = Tail(available) /\ leases' = leases
        /\ hand' = [hand EXCEPT ![t] = Head(available)]
    BY <1>3 DEF Take, Ready
  <2>2. /\ Head(available) \in ToSet(available)
        /\ IsInjective(available') /\ ToSet(available') = ToSet(available) \ {Head(available)}
    BY <2>1, PopFacts DEF ExclusiveOwnership
  <2> QED  BY <2>1, <2>2 DEF ExclusiveOwnership
\* A connection in hand is leased out or destroyed,
<1>4. ASSUME NEW t \in Threads, Leave(t), available' = available,
             \/ leases' = leases
             \/ hand[t] \in Conns /\ leases' = [leases EXCEPT ![t] = @ \cup {hand[t]}]
             \/ \E c \in Conns \ Live : leases' = [leases EXCEPT ![t] = @ \cup {c}]
      PROVE  ExclusiveOwnership'
  <2>1. hand' = [hand EXCEPT ![t] = NoConn]
    BY <1>4 DEF Leave
  <2>2. CASE leases' = leases
    BY <1>1, <1>4, <2>1, <2>2 DEF ExclusiveOwnership
  <2>3. CASE hand[t] \in Conns /\ leases' = [leases EXCEPT ![t] = @ \cup {hand[t]}]
    BY <1>1, <1>4, <2>1, <2>3 DEF ExclusiveOwnership
  <2>4. ASSUME NEW c \in Conns \ Live, leases' = [leases EXCEPT ![t] = @ \cup {c}]
        PROVE  ExclusiveOwnership'
    BY <1>1, <1>4, <2>1, <2>4, LiveMembers DEF ExclusiveOwnership
  <2> QED  BY <1>4, <2>2, <2>3, <2>4
\* or queued.
<1>5. ASSUME NEW t \in Threads, LeaveNotifying(t), leases' = leases,
             \/ available' = available
             \/ hand[t] \in Conns /\ available' = Append(available, hand[t])
             \/ \E c \in Conns \ Live : available' = Append(available, c)
      PROVE  ExclusiveOwnership'
  <2>1. hand' = [hand EXCEPT ![t] = NoConn]
    BY <1>5 DEF LeaveNotifying
  <2>2. CASE available' = available
    BY <1>1, <1>5, <2>1, <2>2 DEF ExclusiveOwnership
  <2>3. ASSUME NEW c \in Conns, c \in {hand[t]} \cup (Conns \ Live),
               available' = Append(available, c)
        PROVE  ExclusiveOwnership'
    <3>1. c \notin ToSet(available)
      BY <2>3, LiveMembers DEF ExclusiveOwnership
    <3>2. IsInjective(available') /\ ToSet(available') = ToSet(available) \cup {c}
      BY <2>3, <3>1, PushFacts DEF ExclusiveOwnership
    <3>3. \A u \in Threads : c \notin leases[u] /\ (u # t => hand[u] # c)
      BY <2>3, LiveMembers DEF ExclusiveOwnership
    <3>4. NoConn \notin ToSet(available')
      BY <1>1, <2>3, <3>2
    <3> QED  BY <1>5, <2>1, <2>3, <3>2, <3>3, <3>4 DEF ExclusiveOwnership
  <2> QED  BY <1>5, <2>2, <2>3
<1>6. ASSUME NEW t \in Threads, HandOver(t) \/ PutBack(t) PROVE ExclusiveOwnership'
  <2>1. hand[t] \in Conns
    BY <1>6 DEF HandOver, PutBack, MutexDiscipline, Carrying, Inside, CheckedOut, CheckedIn
  <2> QED  BY <1>4, <1>5, <1>6, <2>1 DEF HandOver, PutBack
<1>7. ASSUME NEW t \in Threads, NEW c \in Conns, HandOverNew(t, c) \/ PutNew(t, c)
      PROVE  ExclusiveOwnership'
  BY <1>4, <1>5, <1>7 DEF HandOverNew, PutNew, Fresh
<1>8. ASSUME NEW t \in Threads, HandOverNothing(t) \/ ReleaseClosed(t) \/ PutNothing(t)
      PROVE  ExclusiveOwnership'
  BY <1>4, <1>5, <1>8 DEF HandOverNothing, ReleaseClosed, PutNothing
<1>9. ASSUME NEW t \in Threads, Shutdown(t) PROVE ExclusiveOwnership'
  BY <1>9, EmptyQueue DEF Shutdown, ExclusiveOwnership
<1>10. CASE UNCHANGED <<available, hand, leases>>
  BY <1>10 DEF ExclusiveOwnership
<1> QED
  BY <1>2, <1>3, <1>6, <1>7, <1>8, <1>9, <1>10 DEF Next, Advance, CallAcquire,
     CallShutdown, Deadline, Wait, TimerWakes, SpuriousWake, TimeOut, Refuse, FindBroken,
     ReleaseOpen, NoticeBroken, Break, Heal, vars

\* No connection is ever in two places: two positions of the queue, two
\* leases, a lease and the queue, or a lease and a call in progress.
THEOREM OwnershipExclusive == Spec => []ExclusiveOwnership
<1>1. Init => ExclusiveOwnership
  <2> SUFFICES ASSUME Init PROVE ExclusiveOwnership
    OBVIOUS
  <2>1. IsInjective(available) /\ NoConn \notin ToSet(available)
    BY ConnsAssumption DEF Init, ToSet
  <2> QED  BY <2>1 DEF Init, ExclusiveOwnership
<1>2. Layer2 => Layer1
  BY DEF Layer2
<1> QED  BY <1>1, <1>2, SpecLayer2, NextExclusiveOwnership, PTL DEF Spec

LEMMA InitCapacityBound == Init => CapacityBound
<1> SUFFICES ASSUME Init PROVE CapacityBound
  OBVIOUS
<1>1. PICK n \in 0 .. PoolSize : available \in [1 .. n -> Conns]
  BY DEF Init
<1>2. Live = ToSet(available)
  BY DEF Init, Live
<1>3. available \in Surjection(1 .. n, ToSet(available))
  BY <1>1 DEF Surjection, ToSet
<1>4. IsFiniteSet(1 .. n) /\ Cardinality(1 .. n) = n
  BY <1>1, SizesAssumption, FS_Interval
<1>5. IsFiniteSet(Live) /\ Cardinality(Live) <= n
  BY <1>2, <1>3, <1>4, FS_Surjection
<1> QED  BY <1>1, <1>5, SizesAssumption, FS_CardinalityType DEF CapacityBound

LEMMA NextCapacityBound == Layer4 /\ [Next]_vars => CapacityBound'
<1> SUFFICES ASSUME Layer4, [Next]_vars PROVE CapacityBound'
  OBVIOUS
<1> USE ConnsAssumption, SizesAssumption DEF Layer4, Layer2, Layer1, TypeOK
<1>1. IsFiniteSet(Live) /\ Cardinality(Live) \in Nat /\ Cardinality(Live) <= PoolSize
  BY FS_CardinalityType DEF CapacityBound
<1>2. \A c : c \in Live' <=> \/ c \in ToSet(available')
                             \/ \E t \in Threads : c \in leases'[t]
                             \/ \E t \in Threads : c = hand'[t] /\ c # NoConn
  BY DEF Live
<1>3. ASSUME Live' \subseteq Live PROVE CapacityBound'
  BY <1>1, <1>3, FS_Subset, FS_CardinalityType DEF CapacityBound
\* A replacement takes the place of the connection it replaces.
<1>4. ASSUME NEW t \in Threads, NEW c, hand[t] # NoConn,
             Live' \subseteq (Live \ {hand[t]}) \cup {c}
      PROVE  CapacityBound'
  <2>1. hand[t] \in Live
    BY <1>4, LiveMembers
  <2>2. /\ IsFiniteSet((Live \ {hand[t]}) \cup {c})
        /\ Cardinality((Live \ {hand[t]}) \cup {c}) <= Cardinality(Live)
    BY <1>1, <2>1, SwapFacts
  <2>3. IsFiniteSet(Live') /\ Cardinality(Live') <= Cardinality((Live \ {hand[t]}) \cup {c})
    BY <1>4, <2>2, FS_Subset
  <2>4. Cardinality(Live') \in Nat /\ Cardinality((Live \ {hand[t]}) \cup {c}) \in Nat
    BY <2>2, <2>3, FS_CardinalityType
  <2> QED  BY <1>1, <2>2, <2>3, <2>4 DEF CapacityBound
<1>5. ASSUME NEW t \in Threads, NEW c \in Conns, CallRelease(t, c) PROVE CapacityBound'
  BY <1>2, <1>3, <1>5, LiveMembers DEF CallRelease
<1>6. ASSUME NEW t \in Threads, Take(t) PROVE CapacityBound'
  <2>1. /\ available # <<>> /\ available' = Tail(available) /\ leases' = leases
        /\ hand' = [hand EXCEPT ![t] = Head(available)]
    BY <1>6 DEF Take, Ready
  <2>2. Head(available) \in ToSet(available) /\ ToSet(available') \subseteq ToSet(available)
    BY <2>1, PopFacts DEF ExclusiveOwnership
  <2> QED  BY <1>2, <1>3, <2>1, <2>2, LiveMembers
<1>7. ASSUME NEW t \in Threads, HandOver(t) \/ HandOverNothing(t) \/ ReleaseClosed(t)
      PROVE  CapacityBound'
  <2>1. hand[t] \in Live
    BY <1>7, LiveMembers DEF HandOver, HandOverNothing, ReleaseClosed, MutexDiscipline,
       Carrying, Inside, CheckedOut
  <2> QED
    BY <1>2, <1>3, <1>7, <2>1, LiveMembers DEF HandOver, HandOverNothing, ReleaseClosed, Leave
<1>8. ASSUME NEW t \in Threads, PutBack(t) \/ PutNothing(t) PROVE CapacityBound'
  <2>1. hand[t] \in Conns /\ hand[t] \in Live /\ hand' = [hand EXCEPT ![t] = NoConn]
    BY <1>8, LiveMembers DEF PutBack, PutNothing, LeaveNotifying, MutexDiscipline,
       Carrying, Inside, CheckedIn
  <2>2. ToSet(available') \subseteq ToSet(available) \cup {hand[t]}
    <3>1. CASE available' = available
      BY <3>1
    <3>2. CASE available' = Append(available, hand[t])
      BY <2>1, <3>2, PushFacts
    <3> QED  BY <1>8, <3>1, <3>2 DEF PutBack, PutNothing
  <2> QED
    BY <1>2, <1>3, <1>8, <2>1, <2>2, LiveMembers DEF PutBack, PutNothing
<1>9. ASSUME NEW t \in Threads, NEW c \in Conns, HandOverNew(t, c) \/ PutNew(t, c)
      PROVE  CapacityBound'
  <2>1. hand[t] # NoConn /\ hand' = [hand EXCEPT ![t] = NoConn]
    BY <1>9 DEF HandOverNew, PutNew, Leave, LeaveNotifying, MutexDiscipline, Carrying,
       Inside, CheckedOut, CheckedIn
  <2>2. c # hand[t]
    BY <1>9, <2>1, LiveMembers DEF HandOverNew, PutNew, Fresh
  <2>3. /\ ToSet(available') \subseteq ToSet(available) \cup {c}
        /\ \A u \in Threads : leases'[u] \subseteq leases[u] \cup {c}
    BY <1>9, PushFacts DEF HandOverNew, PutNew
  <2>4. Live' \subseteq (Live \ {hand[t]}) \cup {c}
    <3> SUFFICES ASSUME NEW x \in Live', x # c PROVE x \in Live /\ x # hand[t]
      OBVIOUS
    <3>1. CASE x \in ToSet(available')
      BY <2>3, <3>1, LiveMembers DEF ExclusiveOwnership
    <3>2. ASSUME NEW u \in Threads, x \in leases'[u] PROVE x \in Live /\ x # hand[t]
      BY <2>3, <3>2, LiveMembers DEF ExclusiveOwnership
    <3>3. ASSUME NEW u \in Threads, x = hand'[u], x # NoConn
          PROVE  x \in Live /\ x # hand[t]
      <4>1. u # t /\ hand'[u] = hand[u]
        BY <2>1, <3>3
      <4> QED  BY <2>1, <3>3, <4>1, LiveMembers DEF ExclusiveOwnership
    <3> QED  BY <1>2, <3>1, <3>2, <3>3
  <2> QED  BY <1>4, <2>1, <2>4
<1>10. ASSUME NEW t \in Threads, Shutdown(t) PROVE CapacityBound'
  BY <1>2, <1>3, <1>10, EmptyQueue, LiveMembers DEF Shutdown
<1>11. CASE UNCHANGED <<available, hand, leases>>
  BY <1>3, <1>11 DEF Live
<1> QED
  BY <1>5, <1>6, <1>7, <1>8, <1>9, <1>10, <1>11 DEF Next, Advance, CallAcquire,
     CallShutdown, Deadline, Wait, TimerWakes, SpuriousWake, TimeOut, Refuse, FindBroken,
     ReleaseOpen, NoticeBroken, Break, Heal, vars

LEMMA SpecLayer4 == Spec => []Layer4
<1>1. Init => CapacityBound
  BY InitCapacityBound
<1>2. Layer2 /\ ExclusiveOwnership /\ CapacityBound /\ [Next]_vars => CapacityBound'
  BY NextCapacityBound DEF Layer4
<1>3. Layer4 <=> Layer2 /\ ExclusiveOwnership /\ CapacityBound
  BY DEF Layer4
<1> QED  BY <1>1, <1>2, <1>3, SpecLayer2, OwnershipExclusive, PTL DEF Spec

\* At no time do more connections exist than the pool was created for, leases
\* and replacements included.
THEOREM CapacityBounded == Spec => []CapacityBound
<1>1. Layer4 => CapacityBound
  BY DEF Layer4
<1> QED  BY SpecLayer4, <1>1, PTL

-----------------------------------------------------------------------------
(* The atomic pool that a state of ConnectionPool stands for.              *)

Idle ==
    IF owner # NoThread /\ pc[owner] \in CheckedOut
    THEN <<hand[owner]>> \o available ELSE available
Lent ==
    [t \in Threads |-> IF pc[t] \in CheckedIn \cup {"release"}
                       THEN leases[t] \cup {hand[t]} ELSE leases[t]]
Failing == {hand[t] : t \in {u \in Threads : pc[u] \in {"makeOut", "makeIn"}}}
Failed == Live \cap (broken \cup Failing)

abstract == <<Idle, Lent, shutdown, Failed>>

-----------------------------------------------------------------------------
(* The correspondence of the states.                                       *)

\* What the proof of a step needs to know of the state before it.
Ready4 == Layer2 /\ ExclusiveOwnership

\* At most one thread is inside a critical section, and it owns the mutex.
LEMMA OneInside ==
  ASSUME Layer1
  PROVE  /\ owner = NoThread => \A t \in Threads : pc[t] \notin Inside
         /\ \A t \in Threads : pc[t] \in Inside =>
              owner = t /\ \A u \in Threads \ {t} : pc[u] \notin Inside
BY ThreadsAssumption DEF Layer1, MutexDiscipline

\* The queue, as the atomic pool has it.
LEMMA IdleFacts ==
  ASSUME Layer1
  PROVE  /\ \A t \in Threads : pc[t] \in CheckedOut => Idle = <<hand[t]>> \o available
         /\ (\A t \in Threads : pc[t] \notin CheckedOut) => Idle = available
<1>1. ASSUME NEW t \in Threads, pc[t] \in CheckedOut
      PROVE  Idle = <<hand[t]>> \o available
  <2>1. owner = t
    BY <1>1, OneInside DEF Inside
  <2> QED  BY <1>1, <2>1, ThreadsAssumption DEF Idle
<1>2. ASSUME \A t \in Threads : pc[t] \notin CheckedOut PROVE Idle = available
  BY <1>2 DEF Idle, Layer1, TypeOK
<1> QED  BY <1>1, <1>2

\* Which connections failed their check and are about to be destroyed.
LEMMA FailingFacts ==
  ASSUME Layer1
  PROVE  /\ \A t \in Threads : pc[t] \in {"makeOut", "makeIn"} => Failing = {hand[t]}
         /\ (\A t \in Threads : pc[t] \notin {"makeOut", "makeIn"}) => Failing = {}
BY OneInside DEF Failing, Inside, CheckedOut, CheckedIn

\* Both pools hold the same connections.
LEMMA SameConnections ==
  ASSUME Layer1
  PROVE  ToSet(Idle) \cup (UNION {Lent[t] : t \in Threads}) = Live
<1> USE DEF Layer1, TypeOK
<1> DEFINE abs == ToSet(Idle) \cup (UNION {Lent[t] : t \in Threads})
<1>1. \A c : c \in abs <=> c \in ToSet(Idle) \/ \E t \in Threads : c \in Lent[t]
  OBVIOUS
<1>2. \A c : c \in ToSet(Idle) <=>
         c \in ToSet(available) \/ \E t \in Threads : pc[t] \in CheckedOut /\ c = hand[t]
  <2>1. CASE \A t \in Threads : pc[t] \notin CheckedOut
    BY <2>1, IdleFacts
  <2>2. ASSUME NEW t \in Threads, pc[t] \in CheckedOut
        PROVE  \A c : c \in ToSet(Idle) <=>
                 c \in ToSet(available) \/ \E u \in Threads : pc[u] \in CheckedOut /\ c = hand[u]
    <3>1. hand[t] \in Conns
      BY <2>2 DEF MutexDiscipline, Carrying, Inside
    <3>2. ToSet(Idle) = {hand[t]} \cup ToSet(available)
      BY <2>2, <3>1, IdleFacts, FrontFacts
    <3>3. \A u \in Threads : pc[u] \in CheckedOut => u = t
      BY <2>2, OneInside DEF Inside
    <3> QED  BY <2>2, <3>2, <3>3
  <2> QED  BY <2>1, <2>2
<1>3. \A t \in Threads : hand[t] # NoConn <=>
         pc[t] \in CheckedOut \/ pc[t] \in CheckedIn \cup {"release"}
  BY DEF MutexDiscipline, Carrying, Inside
<1>4. \A c : \A t \in Threads : c \in Lent[t] <=>
         c \in leases[t] \/ (pc[t] \in CheckedIn \cup {"release"} /\ c = hand[t])
  BY DEF Lent
<1> HIDE DEF abs
<1>5. ASSUME NEW c PROVE c \in abs <=> c \in Live
  <2>1. c \in Live <=> \/ c \in ToSet(available)
                       \/ \E t \in Threads : c \in leases[t]
                       \/ \E t \in Threads : c = hand[t] /\ c # NoConn
    BY LiveMembers
  <2>2. c \in abs <=> \/ c \in ToSet(available)
                      \/ \E t \in Threads : pc[t] \in CheckedOut /\ c = hand[t]
                      \/ \E t \in Threads : c \in Lent[t]
    BY <1>1, <1>2
  <2>3. (\E t \in Threads : c \in Lent[t]) <=>
          \/ \E t \in Threads : c \in leases[t]
          \/ \E t \in Threads : pc[t] \in CheckedIn \cup {"release"} /\ c = hand[t]
    BY <1>4
  <2>4. (\E t \in Threads : c = hand[t] /\ c # NoConn) <=>
          \/ \E t \in Threads : pc[t] \in CheckedOut /\ c = hand[t]
          \/ \E t \in Threads : pc[t] \in CheckedIn \cup {"release"} /\ c = hand[t]
    BY <1>3
  <2> HIDE DEF Layer1, TypeOK
  <2> QED  BY <2>1, <2>2, <2>3, <2>4
<1> QED  BY <1>5 DEF abs

\* The connections in use, in the words of LeasePool.
LEMMA SameInUse == Layer1 => Promise!InUse = Live
BY SameConnections DEF Promise!InUse, Promise!ToSet, ToSet, Idle, Lent
-----------------------------------------------------------------------------
(* The correspondence of the steps.                                        *)

\* The effects of the atomic pool, in the words used here.
LEMMA Effects ==
  ASSUME NEW t \in Threads, NEW c \in Conns
  PROVE  /\ Promise!LendFront(t) <=>
              /\ ~shutdown /\ Idle # <<>> /\ Head(Idle) \notin Failed
              /\ Lent' = [Lent EXCEPT ![t] = @ \cup {Head(Idle)}]
              /\ Idle' = Tail(Idle) /\ shutdown' = shutdown /\ Failed' = Failed
         /\ Promise!LoseFront <=>
              /\ ~shutdown /\ Idle # <<>> /\ Head(Idle) \in Failed
              /\ Idle' = Tail(Idle) /\ Lent' = Lent /\ shutdown' = shutdown
              /\ Failed' = Failed \ {Head(Idle)}
         /\ Promise!Queue(t, c) <=>
              /\ ~shutdown /\ c \notin Failed /\ c \in Lent[t]
              /\ Lent' = [Lent EXCEPT ![t] = @ \ {c}]
              /\ Idle' = Append(Idle, c) /\ shutdown' = shutdown /\ Failed' = Failed
         /\ Promise!Destroy(t, c) <=>
              /\ shutdown \/ c \in Failed
              /\ c \in Lent[t] /\ Lent' = [Lent EXCEPT ![t] = @ \ {c}]
              /\ Idle' = Idle /\ shutdown' = shutdown /\ Failed' = Failed \ {c}
BY DEF Promise!LendFront, Promise!Lend, Promise!LoseFront, Promise!Queue, Promise!Destroy,
   Promise!TakeBack, Idle, Lent, Failed, Failing

LEMMA MoreEffects ==
  ASSUME Layer1, NEW t \in Threads, NEW c \in Conns, NEW d \in Conns
  PROVE  /\ Promise!LendReplacement(t, d) <=>
              /\ ~shutdown /\ Idle # <<>> /\ Head(Idle) \in Failed /\ d \notin Live
              /\ Lent' = [Lent EXCEPT ![t] = @ \cup {d}]
              /\ Idle' = Tail(Idle) /\ shutdown' = shutdown
              /\ Failed' = Failed \ {Head(Idle)}
         /\ Promise!QueueReplacement(t, c, d) <=>
              /\ ~shutdown /\ c \in Failed /\ c \in Lent[t] /\ d \notin Live
              /\ Lent' = [Lent EXCEPT ![t] = @ \ {c}]
              /\ Idle' = Append(Idle, d) /\ shutdown' = shutdown
              /\ Failed' = Failed \ {c}
BY SameInUse DEF Promise!LendReplacement, Promise!Lend, Promise!Unused,
   Promise!QueueReplacement, Promise!TakeBack, Idle, Lent, Failed, Failing

\* A thread other than the one in the critical section is outside of any.
LEMMA OthersOutside ==
  ASSUME Layer1, NEW t \in Threads, pc[t] \in Inside \/ owner = NoThread
  PROVE  \A u \in Threads \ {t} : pc[u] \notin Inside
BY OneInside

\* The end of a call: nothing is in its hands or about to be destroyed.
LEMMA Ends ==
  ASSUME Layer1, NEW t \in Threads, pc[t] \in Carrying,
         pc[t] \in Inside \/ owner = NoThread,
         Leave(t) \/ LeaveNotifying(t),
         \A u \in Threads \ {t} : leases'[u] = leases[u]
  PROVE  /\ hand[t] \in Conns /\ hand' = [hand EXCEPT ![t] = NoConn]
         /\ Idle' = available' /\ Failing' = {}
         /\ Lent' = [Lent EXCEPT ![t] = leases'[t]]
         /\ Failing = IF pc[t] \in {"makeOut", "makeIn"} THEN {hand[t]} ELSE {}
<1> USE DEF Layer1, TypeOK
<1>1. \A u \in Threads \ {t} : pc[u] \notin Inside
  BY OthersOutside
<1>2. /\ owner' = NoThread /\ hand' = [hand EXCEPT ![t] = NoConn]
      /\ hand[t] \in Conns
  BY DEF Leave, LeaveNotifying, MutexDiscipline
<1>3. /\ pc'[t] = "idle"
      /\ \A u \in Threads \ {t} :
           /\ pc'[u] \notin Inside
           /\ pc'[u] = "release" <=> pc[u] = "release"
  <2>1. CASE pc' = [pc EXCEPT ![t] = "idle"]
    BY <1>1, <2>1
  <2>2. ASSUME NEW w \in Asleep, pc' = [pc EXCEPT ![t] = "idle", ![w] = "woken"]
        PROVE  <1>3!1 /\ <1>3!2
    <3>1. w \in Threads /\ pc[w] = "asleep" /\ w # t
      BY <2>2 DEF Asleep, Carrying, Inside, CheckedOut, CheckedIn
    <3> QED  BY <1>1, <2>2, <3>1 DEF Inside, CheckedOut, CheckedIn
  <2> QED  BY <2>1, <2>2 DEF Leave, LeaveNotifying, Goto
<1>4. Idle' = available'
  BY <1>2 DEF Idle
<1>5. Failing' = {}
  BY <1>3 DEF Failing, Inside, CheckedOut, CheckedIn
<1>6. Lent' = [Lent EXCEPT ![t] = leases'[t]]
  <2>1. Lent'[t] = leases'[t]
    BY <1>3 DEF Lent, CheckedIn
  <2>2. ASSUME NEW u \in Threads \ {t} PROVE Lent'[u] = Lent[u]
    BY <1>1, <1>2, <1>3 DEF Lent, Inside, CheckedIn
  <2> QED  BY <2>1, <2>2 DEF Lent
<1>7. Failing = IF pc[t] \in {"makeOut", "makeIn"} THEN {hand[t]} ELSE {}
  BY <1>1 DEF Failing, Inside, CheckedOut, CheckedIn
<1> QED  BY <1>2, <1>4, <1>5, <1>6, <1>7

\* Where a connection can be after a step.
LEMMA LiveNext ==
  \A c : c \in Live' <=> \/ c \in ToSet(available')
                         \/ \E t \in Threads : c \in leases'[t]
                         \/ \E t \in Threads : c = hand'[t] /\ c # NoConn
BY DEF Live

\* What a call had in hand is destroyed, lent or queued, and a replacement may
\* come into being.
LEMMA Destroyed ==
  ASSUME Ready4, NEW t \in Threads, hand[t] \in Conns, NEW N,
         hand' = [hand EXCEPT ![t] = NoConn],
         \/ leases' = leases /\ ToSet(available') = ToSet(available) \cup N
         \/ leases' = [leases EXCEPT ![t] = @ \cup N] /\ available' = available
  PROVE  Live' = (Live \ {hand[t]}) \cup N
<1> USE DEF Ready4, Layer2
<1>1. Layer1
  OBVIOUS
<1> USE DEF TypeOK
<1>2. ASSUME NEW x, x # hand[t] PROVE x \in Live' <=> x \in Live \cup N
  <2>1. (\E u \in Threads : x = hand'[u] /\ x # NoConn) <=>
           \E u \in Threads : x = hand[u] /\ x # NoConn
    BY <1>2, <1>1 DEF Layer1
  <2>2. x \in ToSet(available') \/ (\E u \in Threads : x \in leases'[u]) <=>
           x \in N \/ x \in ToSet(available) \/ (\E u \in Threads : x \in leases[u])
    BY <1>1 DEF Layer1
  <2> QED  BY <1>1, <2>1, <2>2, LiveMembers, LiveNext
<1>3. hand[t] \in Live' <=> hand[t] \in N
  <2>1. /\ hand[t] \notin ToSet(available) /\ \A u \in Threads : hand[t] \notin leases[u]
        /\ \A u \in Threads : hand'[u] # hand[t]
    BY <1>1, ConnsAssumption DEF Layer1, ExclusiveOwnership
  <2>2. hand[t] \in ToSet(available') \/ (\E u \in Threads : hand[t] \in leases'[u]) <=>
           hand[t] \in N
    BY <1>1, <2>1 DEF Layer1
  <2> QED  BY <1>1, <2>1, <2>2, LiveNext
<1> QED  BY <1>2, <1>3
\* A step before a call takes effect changes nothing: a thread moves between
\* two places in which its connection counts for the same.
Counts(l) == IF l \in CheckedOut THEN "queued"
             ELSE IF l \in CheckedIn \cup {"release"} THEN "lent" ELSE "none"

LEMMA Unnoticed ==
  ASSUME Layer1, UNCHANGED <<available, shutdown, owner, hand, leases, broken>>,
         \A t \in Threads : /\ Counts(pc'[t]) = Counts(pc[t])
                            /\ pc'[t] \in {"makeOut", "makeIn"} <=> pc[t] \in {"makeOut", "makeIn"}
  PROVE  UNCHANGED abstract
<1> USE DEF Layer1, TypeOK
<1>1. \A t \in Threads : /\ pc'[t] \in CheckedOut <=> pc[t] \in CheckedOut
                         /\ pc'[t] \in CheckedIn \cup {"release"}
                              <=> pc[t] \in CheckedIn \cup {"release"}
  BY DEF Counts, CheckedOut, CheckedIn
<1>2. Idle' = Idle
  BY <1>1 DEF Idle
<1>3. Lent' = Lent
  BY <1>1 DEF Lent
<1>4. Failing' = Failing /\ Live' = Live
  BY DEF Failing, Live
<1> QED  BY <1>2, <1>3, <1>4 DEF abstract, Failed

\* The connection that is next is taken out, and not yet checked.
LEMMA TakeRefines ==
  ASSUME Ready4, NEW t \in Threads, Take(t) PROVE UNCHANGED abstract
<1> USE DEF Ready4, Layer2
<1>1. Layer1
  OBVIOUS
<1>2. /\ available \in Seq(Conns) /\ available # <<>> /\ available' = Tail(available)
      /\ hand' = [hand EXCEPT ![t] = Head(available)] /\ pc' = [pc EXCEPT ![t] = "checkOut"]
      /\ owner = NoThread /\ owner' = t /\ UNCHANGED <<shutdown, leases, broken>>
      /\ pc[t] \in {"acquire", "woken"}
      /\ pc \in [Threads -> Outside \cup Inside] /\ hand \in [Threads -> Conns \cup {NoConn}]
  BY <1>1 DEF Take, MayLook, Goto, Ready, Layer1, TypeOK
<1>3. hand[t] = NoConn
  BY <1>1, <1>2 DEF Layer1, MutexDiscipline, Carrying, Inside, CheckedOut, CheckedIn
<1>4. \A u \in Threads : pc[u] \notin Inside
  BY <1>1, <1>2, OneInside
<1>5. Idle' = Idle
  <2>1. Idle = available
    BY <1>1, <1>4, IdleFacts DEF Inside
  <2>2. Idle' = <<Head(available)>> \o Tail(available)
    BY <1>2, ThreadsAssumption DEF Idle, CheckedOut
  <2> QED  BY <1>2, <2>1, <2>2, PopFront
<1>6. Lent' = Lent
  BY <1>2, <1>4 DEF Lent, CheckedIn, Inside
<1>7. Failing' = Failing
  BY <1>2, <1>4 DEF Failing, Inside, CheckedOut, CheckedIn
<1>8. Live' = Live
  <2>1. /\ Head(available) \in Conns
        /\ ToSet(available) = ToSet(available') \cup {Head(available)}
    BY <1>2, PopFacts DEF ExclusiveOwnership
  <2>2. ASSUME NEW x PROVE x \in Live' <=> x \in Live
    <3>1. (\E u \in Threads : x = hand'[u] /\ x # NoConn) <=>
             \/ x = Head(available)
             \/ \E u \in Threads : x = hand[u] /\ x # NoConn
      BY <1>2, <1>3, <2>1, ConnsAssumption
    <3> QED  BY <1>1, <1>2, <2>1, <3>1, LiveMembers, LiveNext
  <2> QED  BY <2>2
<1> QED  BY <1>2, <1>5, <1>6, <1>7, <1>8 DEF abstract, Failed

\* A connection that failed its check is as good as destroyed.
LEMMA FoundRefines ==
  ASSUME Ready4, NEW t \in Threads, FindBroken(t) \/ NoticeBroken(t)
  PROVE  UNCHANGED abstract
<1> USE DEF Ready4, Layer2
<1>1. Layer1
  OBVIOUS
<1>2. /\ hand[t] \in broken /\ UNCHANGED <<available, shutdown, owner, hand, leases, broken>>
      /\ pc \in [Threads -> Outside \cup Inside]
      /\ \/ pc[t] = "checkOut" /\ pc' = [pc EXCEPT ![t] = "makeOut"]
         \/ pc[t] = "checkIn" /\ pc' = [pc EXCEPT ![t] = "makeIn"]
  BY <1>1 DEF FindBroken, NoticeBroken, Goto, Layer1, TypeOK
<1>3. Idle' = Idle
  BY <1>1, <1>2 DEF Idle, CheckedOut, CheckedIn, Layer1, TypeOK
<1>4. Lent' = Lent
  BY <1>2 DEF Lent, CheckedIn
<1>5. Failing \subseteq Failing' /\ Failing' \subseteq Failing \cup {hand[t]}
  BY <1>2 DEF Failing
<1>6. Live' = Live
  BY <1>2 DEF Live
<1> QED  BY <1>2, <1>3, <1>4, <1>5, <1>6 DEF abstract, Failed

\* release() is called: the connection stays lent until the call takes effect.
LEMMA ReleaseRefines ==
  ASSUME Ready4, NEW t \in Threads, NEW c \in Conns, CallRelease(t, c)
  PROVE  UNCHANGED abstract
<1> USE DEF Ready4, Layer2
<1>1. Layer1
  OBVIOUS
<1>2. /\ pc[t] = "idle" /\ c \in leases[t] /\ UNCHANGED <<available, shutdown, owner, broken>>
      /\ leases' = [leases EXCEPT ![t] = @ \ {c}] /\ hand' = [hand EXCEPT ![t] = c]
      /\ pc' = [pc EXCEPT ![t] = "release"]
  BY DEF CallRelease, Goto
<1> USE DEF TypeOK
<1>3. hand[t] = NoConn
  BY <1>1, <1>2 DEF Layer1, MutexDiscipline, Carrying, Inside, CheckedOut, CheckedIn
<1>4. Idle' = Idle
  BY <1>1, <1>2, ThreadsAssumption DEF Idle, CheckedOut, Layer1, MutexDiscipline, Inside, CheckedIn
<1>5. Lent' = Lent
  BY <1>1, <1>2 DEF Lent, CheckedIn, Layer1
<1>6. Failing' = Failing
  BY <1>1, <1>2 DEF Failing, Layer1
<1>7. ASSUME NEW x PROVE x \in Live' <=> x \in Live
  <2>1. (\E u \in Threads : x = hand'[u] /\ x # NoConn) <=>
           x = c \/ \E u \in Threads : x = hand[u] /\ x # NoConn
    BY <1>1, <1>2, <1>3, ConnsAssumption DEF Layer1
  <2>2. (\E u \in Threads : x \in leases'[u]) \/ x = c <=> \E u \in Threads : x \in leases[u]
    BY <1>1, <1>2 DEF Layer1
  <2> QED  BY <1>1, <1>2, <2>1, <2>2, LiveMembers, LiveNext
<1> QED  BY <1>2, <1>4, <1>5, <1>6, <1>7 DEF abstract, Failed
\* acquire() takes effect: the connection it took was the front of the queue.
LEMMA AcquireRefines ==
  ASSUME Ready4, NEW t \in Threads,
         HandOver(t) \/ HandOverNothing(t) \/ \E d \in Conns : HandOverNew(t, d)
  PROVE  Promise!Next
<1> USE DEF Ready4, Layer2
<1>1. Layer1
  OBVIOUS
<1>2. /\ pc[t] \in CheckedOut /\ available \in Seq(Conns) /\ ~shutdown
      /\ UNCHANGED <<available, shutdown>> /\ Leave(t)
      /\ leases \in [Threads -> SUBSET Conns]
  <2>1. pc[t] \in CheckedOut /\ UNCHANGED <<available, shutdown>> /\ Leave(t)
    BY DEF HandOver, HandOverNothing, HandOverNew, CheckedOut
  <2>2. owner = t
    BY <1>1, <2>1, OneInside DEF Inside
  <2> QED  BY <1>1, <2>1, <2>2, ThreadsAssumption DEF ClosedIsEmpty, Layer1, TypeOK
<1>3. \A u \in Threads \ {t} : leases'[u] = leases[u]
  BY <1>2 DEF HandOver, HandOverNothing, HandOverNew
<1>4. /\ hand[t] \in Conns /\ hand' = [hand EXCEPT ![t] = NoConn]
      /\ Idle' = available' /\ Failing' = {}
      /\ Lent' = [Lent EXCEPT ![t] = leases'[t]]
      /\ Failing = IF pc[t] \in {"makeOut", "makeIn"} THEN {hand[t]} ELSE {}
  BY <1>1, <1>2, <1>3, Ends DEF Carrying, Inside
<1>5. Idle # <<>> /\ Head(Idle) = hand[t] /\ Tail(Idle) = Idle'
  <2>1. Idle = <<hand[t]>> \o available
    BY <1>1, <1>2, IdleFacts
  <2>2. /\ <<hand[t]>> \o available # <<>> /\ Head(<<hand[t]>> \o available) = hand[t]
        /\ Tail(<<hand[t]>> \o available) = available
    BY <1>2, <1>4, FrontFacts
  <2> QED  BY <1>2, <1>4, <2>1, <2>2
<1>6. Lent \in [Threads -> SUBSET (Conns \cup {NoConn})] /\ Lent[t] = leases[t]
  BY <1>1, <1>2 DEF Lent, CheckedOut, CheckedIn, Layer1, TypeOK
<1>7. hand[t] \in Live /\ hand[t] # NoConn
  BY <1>1, <1>4, ConnsAssumption, LiveMembers
<1>8. CASE HandOver(t)
  <2>1. /\ hand[t] \notin broken /\ pc[t] = "checkOut" /\ broken' = broken
        /\ leases' = [leases EXCEPT ![t] = @ \cup {hand[t]}]
    BY <1>8 DEF HandOver
  <2>2. Live' = (Live \ {hand[t]}) \cup {hand[t]}
    BY <1>2, <1>4, <2>1, Destroyed
  <2>3. Failed' = Failed /\ hand[t] \notin Failed
    BY <1>4, <1>7, <2>1, <2>2 DEF Failed
  <2>4. Promise!LendFront(t)
    BY <1>2, <1>4, <1>5, <1>6, <2>1, <2>3, Effects
  <2> QED  BY <2>4 DEF Promise!Next
<1>9. CASE HandOverNothing(t)
  <2>1. /\ pc[t] = "makeOut" /\ broken' = broken /\ leases' = leases
    BY <1>9 DEF HandOverNothing
  <2>2. Live' = (Live \ {hand[t]}) \cup {}
    BY <1>2, <1>4, <2>1, Destroyed
  <2>3. Failed' = Failed \ {hand[t]} /\ hand[t] \in Failed
    BY <1>4, <1>7, <2>1, <2>2 DEF Failed
  <2>4. Promise!LoseFront
    BY <1>2, <1>4, <1>5, <1>6, <2>1, <2>3, Effects
  <2> QED  BY <2>4 DEF Promise!Next
<1>10. ASSUME NEW d \in Conns, HandOverNew(t, d) PROVE Promise!Next
  <2>1. /\ pc[t] = "makeOut" /\ broken' = broken \ {d} /\ d \notin Live
        /\ leases' = [leases EXCEPT ![t] = @ \cup {d}]
    BY <1>10 DEF HandOverNew, Fresh
  <2>2. Live' = (Live \ {hand[t]}) \cup {d}
    BY <1>2, <1>4, <2>1, Destroyed
  <2>3. Failed' = Failed \ {hand[t]} /\ hand[t] \in Failed
    BY <1>4, <1>7, <2>1, <2>2 DEF Failed
  <2>4. Promise!LendReplacement(t, d)
    BY <1>1, <1>2, <1>4, <1>5, <1>6, <2>1, <2>3, MoreEffects
  <2> QED  BY <2>4 DEF Promise!Next
<1> QED  BY <1>8, <1>9, <1>10

\* release() takes effect: the connection in hand was still lent.
LEMMA GiveBackRefines ==
  ASSUME Ready4, NEW t \in Threads,
         \/ ReleaseClosed(t) \/ PutBack(t) \/ PutNothing(t)
         \/ \E d \in Conns : PutNew(t, d)
  PROVE  Promise!Next
<1> USE DEF Ready4, Layer2
<1>1. Layer1
  OBVIOUS
<1>2. /\ pc[t] \in CheckedIn \cup {"release"} /\ available \in Seq(Conns)
      /\ pc[t] \in Inside \/ owner = NoThread
      /\ leases' = leases /\ shutdown' = shutdown /\ (Leave(t) \/ LeaveNotifying(t))
      /\ leases \in [Threads -> SUBSET Conns]
  <2>1. /\ pc[t] \in CheckedIn \cup {"release"} /\ (pc[t] \in CheckedIn \/ owner = NoThread)
        /\ leases' = leases /\ shutdown' = shutdown /\ (Leave(t) \/ LeaveNotifying(t))
    BY DEF ReleaseClosed, PutBack, PutNothing, PutNew, CheckedIn
  <2> QED  BY <1>1, <2>1 DEF Inside, Layer1, TypeOK
<1>3. /\ hand[t] \in Conns /\ hand' = [hand EXCEPT ![t] = NoConn]
      /\ Idle' = available' /\ Failing' = {}
      /\ Lent' = [Lent EXCEPT ![t] = leases'[t]]
      /\ Failing = IF pc[t] \in {"makeOut", "makeIn"} THEN {hand[t]} ELSE {}
  BY <1>1, <1>2, Ends DEF Carrying, Inside
<1>4. Idle = available
  <2>1. pc[t] \notin CheckedOut /\ \A u \in Threads \ {t} : pc[u] \notin CheckedOut
    BY <1>1, <1>2, OthersOutside DEF CheckedOut, CheckedIn, Inside
  <2> QED  BY <1>1, <2>1, IdleFacts
<1>5. /\ hand[t] \in Lent[t] /\ Lent' = [Lent EXCEPT ![t] = @ \ {hand[t]}]
      /\ Lent \in [Threads -> SUBSET (Conns \cup {NoConn})]
  <2>1. hand[t] \notin leases[t]
    BY DEF ExclusiveOwnership
  <2>2. Lent[t] = leases[t] \cup {hand[t]}
    BY <1>2 DEF Lent
  <2>3. Lent \in [Threads -> SUBSET (Conns \cup {NoConn})]
    BY <1>1 DEF Lent, Layer1, TypeOK
  <2> QED  BY <1>2, <1>3, <2>1, <2>2, <2>3
<1>6. hand[t] \in Live /\ hand[t] # NoConn
  BY <1>1, <1>3, ConnsAssumption, LiveMembers
<1>7. CASE PutBack(t)
  <2>1. /\ hand[t] \notin broken /\ pc[t] = "checkIn" /\ broken' = broken
        /\ available' = Append(available, hand[t]) /\ ~shutdown
    BY <1>1, <1>7, OneInside, ThreadsAssumption
       DEF PutBack, ClosedIsEmpty, Inside, CheckedIn
  <2>2. Live' = (Live \ {hand[t]}) \cup {hand[t]}
    <3>1. ToSet(available') = ToSet(available) \cup {hand[t]}
      BY <1>2, <1>3, <2>1, PushFacts
    <3> QED  BY <1>2, <1>3, <3>1, Destroyed
  <2>3. Failed' = Failed /\ hand[t] \notin Failed
    BY <1>3, <1>6, <2>1, <2>2 DEF Failed
  <2>4. Promise!Queue(t, hand[t])
    BY <1>2, <1>3, <1>4, <1>5, <2>1, <2>3, Effects
  <2> QED  BY <1>3, <2>4 DEF Promise!Next
<1>8. ASSUME NEW d \in Conns, PutNew(t, d) PROVE Promise!Next
  <2>1. /\ pc[t] = "makeIn" /\ broken' = broken \ {d} /\ d \notin Live
        /\ available' = Append(available, d) /\ ~shutdown
    BY <1>1, <1>8, OneInside, ThreadsAssumption
       DEF PutNew, Fresh, ClosedIsEmpty, Inside, CheckedIn
  <2>2. Live' = (Live \ {hand[t]}) \cup {d}
    <3>1. ToSet(available') = ToSet(available) \cup {d}
      BY <1>2, <2>1, PushFacts
    <3> QED  BY <1>2, <1>3, <3>1, Destroyed
  <2>3. Failed' = Failed \ {hand[t]} /\ hand[t] \in Failed
    BY <1>3, <1>6, <2>1, <2>2 DEF Failed
  <2>4. Promise!QueueReplacement(t, hand[t], d)
    BY <1>1, <1>2, <1>3, <1>4, <1>5, <2>1, <2>3, MoreEffects
  <2> QED  BY <1>3, <2>4 DEF Promise!Next
<1>9. CASE ReleaseClosed(t) \/ PutNothing(t)
  <2>1. /\ shutdown \/ pc[t] = "makeIn"
        /\ broken' = broken /\ available' = available
    BY <1>9 DEF ReleaseClosed, PutNothing
  <2>2. Live' = (Live \ {hand[t]}) \cup {}
    BY <1>2, <1>3, <2>1, Destroyed
  <2>3. Failed' = Failed \ {hand[t]} /\ (shutdown \/ hand[t] \in Failed)
    BY <1>3, <1>6, <2>1, <2>2 DEF Failed
  <2>4. PICK c \in Conns : c = hand[t]
    BY <1>3
  <2>5. Promise!Destroy(t, c)
    BY <1>2, <1>3, <1>4, <1>5, <2>1, <2>3, <2>4, Effects
  <2> QED  BY <2>5 DEF Promise!Next
<1> QED  BY <1>7, <1>8, <1>9

\* shutdown() takes effect at once, as no call is half way through.
LEMMA ShutdownRefines ==
  ASSUME Ready4, NEW t \in Threads, Shutdown(t) PROVE Promise!Next
<1> USE DEF Ready4, Layer2
<1>1. Layer1
  OBVIOUS
<1>2. /\ owner = NoThread /\ shutdown' = TRUE /\ available' = <<>>
      /\ UNCHANGED <<owner, hand, leases, broken>>
      /\ \A u \in Threads : pc[u] \notin Inside
      /\ \A u \in Threads : pc'[u] \notin Inside /\ (pc'[u] = "release" <=> pc[u] = "release")
  <2>1. /\ owner = NoThread /\ shutdown' = TRUE /\ available' = <<>>
        /\ UNCHANGED <<owner, hand, leases, broken>> /\ pc[t] = "shutdown"
    BY DEF Shutdown
  <2>2. \A u \in Threads : pc[u] \notin Inside
    BY <1>1, <2>1, OneInside
  <2>3. \A u \in Threads : pc'[u] \notin Inside /\ (pc'[u] = "release" <=> pc[u] = "release")
    BY <2>2 DEF Shutdown, Asleep, Inside, CheckedOut, CheckedIn
  <2> QED  BY <2>1, <2>2, <2>3
<1>3. Idle = available /\ Idle' = available'
  BY <1>1, <1>2, IdleFacts DEF Idle, Inside
<1>4. Lent' = Lent
  BY <1>2 DEF Lent, Inside, CheckedIn
<1>5. Failing = {} /\ Failing' = {}
  BY <1>2 DEF Failing, Inside, CheckedOut, CheckedIn
<1>6. Live' = Live \ ToSet(available)
  <2>1. ToSet(available') = {}
    BY <1>2, EmptyQueue
  <2>2. ASSUME NEW x PROVE x \in Live' <=> x \in Live /\ x \notin ToSet(available)
    BY <1>1, <1>2, <2>1, LiveMembers, LiveNext DEF ExclusiveOwnership
  <2> QED  BY <2>2
<1>7. Failed' = Failed \ ToSet(Idle)
  BY <1>2, <1>3, <1>5, <1>6 DEF Failed
<1>8. shutdown' = TRUE /\ Idle' = <<>> /\ Lent' = Lent /\ Failed' = Failed \ ToSet(Idle)
  BY <1>2, <1>3, <1>4, <1>7
<1>9. Promise!Close
  BY <1>8 DEF Promise!Close, Promise!ToSet, ToSet, Idle, Lent, Failed, Failing
<1> QED  BY <1>9 DEF Promise!Next

\* A connection breaks or answers again: nothing new if it failed its check.
LEMMA WorldRefines ==
  ASSUME Ready4, NEW c \in Conns, Break(c) \/ Heal(c)
  PROVE  Promise!Next \/ UNCHANGED abstract
<1> USE DEF Ready4, Layer2
<1>1. Layer1
  OBVIOUS
<1>2. /\ UNCHANGED <<available, shutdown, owner, pc, hand, leases>> /\ c \in Live
      /\ \/ c \notin broken /\ broken' = broken \cup {c}
         \/ c \in broken /\ broken' = broken \ {c}
  BY DEF Break, Heal
<1>3. Idle' = Idle /\ Lent' = Lent /\ Failing' = Failing /\ Live' = Live
  BY <1>2 DEF Idle, Lent, Failing, Live
<1>4. CASE c \in Failing
  BY <1>2, <1>3, <1>4 DEF abstract, Failed
<1>5. CASE c \notin Failing
  <2>1. \/ c \notin Failed /\ Failed' = Failed \cup {c}
        \/ c \in Failed /\ Failed' = Failed \ {c}
    BY <1>2, <1>3, <1>5 DEF Failed
  <2>2. \/ c \in Live \ Failed /\ Failed' = Failed \cup {c}
        \/ c \in Live \cap Failed /\ Failed' = Failed \ {c}
    BY <1>2, <2>1
  <2>3. Promise!Break(c) \/ Promise!Heal(c)
    BY <1>1, <1>2, <1>3, <2>2, SameInUse
       DEF Promise!Break, Promise!Heal, Idle, Lent, Failed, Failing
  <2> QED  BY <2>3 DEF Promise!Next
<1> QED  BY <1>4, <1>5

LEMMA StepRefines ==
  Ready4 /\ [Next]_vars => [Promise!Next]_abstract
<1> SUFFICES ASSUME Ready4, [Next]_vars PROVE Promise!Next \/ UNCHANGED abstract
  OBVIOUS
<1>1. Layer1 /\ pc \in [Threads -> Outside \cup Inside]
  BY DEF Ready4, Layer2, Layer1, TypeOK
<1> USE DEF Goto, Counts, CheckedOut, CheckedIn
<1>2. ASSUME NEW t \in Threads,
             CallAcquire(t) \/ CallShutdown(t) \/ Wait(t) \/ Deadline(t) \/ TimerWakes(t)
               \/ SpuriousWake(t) \/ TimeOut(t) \/ Refuse(t) \/ ReleaseOpen(t)
      PROVE  UNCHANGED abstract
  <2>1. UNCHANGED <<available, shutdown, hand, leases, broken>>
    BY <1>2 DEF CallAcquire, CallShutdown, Wait, Deadline, TimerWakes, SpuriousWake,
       TimeOut, Refuse, ReleaseOpen
  <2>2. \A u \in Threads : /\ Counts(pc'[u]) = Counts(pc[u])
                           /\ pc'[u] \in {"makeOut", "makeIn"} <=> pc[u] \in {"makeOut", "makeIn"}
    BY <1>1, <1>2 DEF CallAcquire, CallShutdown, Wait, Deadline, TimerWakes, SpuriousWake,
       TimeOut, Refuse, ReleaseOpen, MayLook
  <2>3. CASE ~ReleaseOpen(t)
    <3>1. owner' = owner
      BY <1>2, <2>3 DEF CallAcquire, CallShutdown, Wait, Deadline, TimerWakes,
         SpuriousWake, TimeOut, Refuse
    <3> QED  BY <1>1, <2>1, <2>2, <3>1, Unnoticed
  <2>4. CASE ReleaseOpen(t)
    <3>1. owner = NoThread /\ owner' = t /\ pc'[t] = "checkIn"
      BY <1>1, <2>4 DEF ReleaseOpen
    <3>2. Idle' = Idle
      BY <2>1, <3>1 DEF Idle
    <3>3. Lent' = Lent
      BY <2>1, <2>2 DEF Lent
    <3>4. Failing' = Failing /\ Live' = Live
      BY <2>1, <2>2 DEF Failing, Live
    <3> QED  BY <2>1, <3>2, <3>3, <3>4 DEF abstract, Failed
  <2> QED  BY <2>3, <2>4
<1>3. CASE UNCHANGED vars
  BY <1>3 DEF vars, abstract, Idle, Lent, Failing, Failed, Live
<1> QED
  BY <1>2, <1>3, TakeRefines, FoundRefines, ReleaseRefines, AcquireRefines,
     GiveBackRefines, ShutdownRefines, WorldRefines DEF Next, Advance

\* Whatever the interleaving, the pool behaves as an atomic one: connections
\* are lent first in first out to one thread at a time, a broken one is
\* replaced or lost on its way in or out, none is lent after shutdown().
THEOREM Implements == Spec => RefinesPromise
<1>1. Init => Promise!Init
  <2> SUFFICES ASSUME Init PROVE Promise!Init
    OBVIOUS
  <2>1. /\ available \in Seq(Conns) /\ IsInjective(available) /\ Len(available) <= PoolSize
        /\ owner = NoThread /\ shutdown = FALSE
    BY SizesAssumption, SeqDef, LenProperties DEF Init
  <2>2. Lent = [t \in Threads |-> {}]
    BY DEF Init, Lent, CheckedIn
  <2>3. Failed = {}
    BY DEF Init, Failed, Failing
  <2> QED
    BY <2>1, <2>2, <2>3 DEF Promise!Init, Promise!IsInjective, IsInjective, Lent, Failed, Failing
<1>2. Layer2 /\ ExclusiveOwnership <=> Ready4
  BY DEF Ready4
<1>3. Ready4 /\ [Next]_vars => [Promise!Next]_(Promise!vars)
  BY StepRefines DEF Promise!vars, abstract, Idle, Lent, Failed, Failing
<1> QED
  BY <1>1, <1>2, <1>3, SpecLayer2, OwnershipExclusive, PTL
     DEF Spec, RefinesPromise, Promise!Spec
=============================================================================
