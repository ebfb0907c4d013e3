----------------------------- MODULE SybProofs -----------------------------
(***************************************************************************)
(* Proofs about SybLayer and SybSession, for any number of rows, objects   *)
(* and sessions: what the two Sybase classes and their transaction objects *)
(* tell the program is true of the server, with the exceptions the         *)
(* properties name.  The operators of SybSession have the prefix Session.  *)
(***************************************************************************)
EXTENDS SybLayer, SequenceTheorems, FiniteSetTheorems, TLAPS

VARIABLES call, used    \* of SybSession, next to those it shares with SybLayer

Session == INSTANCE SybSession

-----------------------------------------------------------------------------
(* Lists of transaction objects, the innermost last.                       *)

LEMMA ListFacts ==
  ASSUME NEW T, NEW s \in Seq(T)
  PROVE  /\ Len(s) \in Nat /\ DOMAIN s = 1 .. Len(s) /\ s \in [DOMAIN s -> T]
         /\ \A i \in DOMAIN s : s[i] \in T
BY LenProperties, ElementOfSeq

\* A list whose objects were changed one by one.
LEMMA ChangedList ==
  ASSUME NEW T, NEW s \in Seq(T), NEW f \in [DOMAIN s -> T]
  PROVE  f \in Seq(T) /\ Len(f) = Len(s) /\ DOMAIN f = DOMAIN s
<1>1. Len(s) \in Nat /\ DOMAIN s = 1 .. Len(s)
  BY ListFacts
<1>2. f \in Seq(T)
  BY <1>1, SeqDef
<1> QED  BY <1>1, <1>2, LenProperties

\* A new innermost object.
LEMMA PushedList ==
  ASSUME NEW T, NEW s \in Seq(T), NEW t \in T
  PROVE  /\ Append(s, t) \in Seq(T) /\ Len(Append(s, t)) = Len(s) + 1
         /\ DOMAIN Append(s, t) = 1 .. Len(s) + 1
         /\ \A i \in 1 .. Len(s) : Append(s, t)[i] = s[i]
         /\ Append(s, t)[Len(s) + 1] = t
BY AppendProperties, LenProperties

\* The innermost object goes out of scope.
LEMMA PoppedList ==
  ASSUME NEW T, NEW s \in Seq(T), Len(s) > 0
  PROVE  /\ Front(s) \in Seq(T) /\ Len(Front(s)) = Len(s) - 1
         /\ DOMAIN Front(s) = 1 .. Len(s) - 1
         /\ \A i \in 1 .. Len(s) - 1 : Front(s)[i] = s[i]
         /\ Last(s) = s[Len(s)]
<1>1. PICK n \in Nat : n = Len(s) - 1
  BY LenProperties
<1>2. \A i \in 1 .. n : s[i] \in T
  BY <1>1, ElementOfSeq, LenProperties
<1>3. SubSeq(s, 1, n) = [i \in 1 .. n |-> s[i]]
  BY <1>1
<1>4. SubSeq(s, 1, n) \in Seq(T)
  BY <1>2, <1>3, SeqDef
<1>5. Len(SubSeq(s, 1, n)) = n /\ \A i \in 1 .. n : SubSeq(s, 1, n)[i] = s[i]
  BY <1>3, <1>4, LenProperties
<1>6. Front(s) = SubSeq(s, 1, n) /\ Last(s) = s[Len(s)]
  BY <1>1 DEF Front, Last
<1> QED  BY <1>1, <1>4, <1>5, <1>6, LenProperties

\* How many objects are active when one appears, ends or ends unnoticed.
LEMMA CountFacts ==
  ASSUME NEW n \in Nat, NEW A \in SUBSET (1 .. n)
  PROVE  /\ IsFiniteSet(A) /\ Cardinality(A) \in Nat
         /\ A = {} <=> Cardinality(A) = 0
         /\ Cardinality(A \cup {n + 1}) = Cardinality(A) + 1
         /\ \A i \in A : Cardinality(A \ {i}) = Cardinality(A) - 1 /\ Cardinality(A) > 0
<1>1. IsFiniteSet(A)
  <2>1. IsFiniteSet(1 .. n)
    BY FS_Interval
  <2> QED  BY <2>1, FS_Subset
<1>2. Cardinality(A) \in Nat /\ (A = {} <=> Cardinality(A) = 0)
  BY <1>1, FS_CardinalityType, FS_EmptySet
<1>3. Cardinality(A \cup {n + 1}) = Cardinality(A) + 1
  BY <1>1, FS_AddElement
<1>4. ASSUME NEW i \in A PROVE Cardinality(A \ {i}) = Cardinality(A) - 1 /\ Cardinality(A) > 0
  BY <1>1, <1>2, FS_RemoveElement
<1> QED  BY <1>1, <1>2, <1>3, <1>4

-----------------------------------------------------------------------------
(* SybLayer: the inductive invariant.                                      *)

\* A session that ended has no transaction, and no transaction has no rows.
Quiet == (proc = "dead" => level = 0) /\ (level = 0 => pending = {})

\* The second half of Balanced.
Covered == ~stuck => level <= Cardinality(Active)

\* A row the program has not tried to write is not on the server.
Unwritten == \A r \in store \cup pending : told[r] # "unused"

\* An object whose commit() was called is inactive, whatever it answered.
Ended == \A i \in DOMAIN txns : txns[i].outcome # "open" => ~txns[i].active

\* As long as every active object has a level of its own, no part of the
\* outermost one's transaction is lost; once the server has ended a level too
\* many, its commit() finds none.
OutermostHolds ==
    1 \in DOMAIN txns /\ ~txns[1].reopened /\ ~stuck =>
        /\ txns[1].active /\ level = Cardinality(Active) => txns[1].rows \subseteq store \cup pending
        /\ txns[1].outcome = "true" => txns[1].rows \subseteq store

\* Only the innermost object is not nested.  While its session lives and nothing
\* has failed, it is in a transaction, so that none of its rows is stored.
InnermostOpen ==
    \A i \in DOMAIN txns : ~txns[i].nested =>
        /\ i = Len(txns)
        /\ txns[i].active /\ txns[i].begun /\ ~txns[i].failed /\ ~txns[i].reopened =>
               txns[i].rows \cap store = {} /\ (level > 0 \/ proc = "dead")

Orderly == Quiet /\ Covered /\ Unwritten /\ WriteReport /\ Ended /\ OutermostHolds /\ InnermostOpen

-----------------------------------------------------------------------------
(* SybLayer: what a command does to the server.                            *)

LEMMA ServerTyped ==
  ASSUME ServerTypeOK, Quiet, NEW reply,
         \/ SendBegin(reply) \/ SendCommit(reply) \/ SendRollback(reply)
         \/ SendQuery(reply) \/ MatchNone(reply) \/ \E r \in Rows : SendWrite(r, reply)
  PROVE  ServerTypeOK' /\ Quiet'
<1>1. CASE SendBegin(reply) \/ SendCommit(reply) \/ SendRollback(reply)
  BY <1>1 DEF ServerTypeOK, Quiet, SendBegin, SendCommit, SendRollback,
     Unsent, Refused, Answered, SessionIs, SessionEnds, Usable, server
<1>2. CASE SendQuery(reply) \/ MatchNone(reply)
  BY <1>2 DEF ServerTypeOK, Quiet, SendQuery, MatchNone,
     Unsent, Refused, Victim, SessionIs, SessionEnds, Usable, server
<1>3. ASSUME NEW r \in Rows, SendWrite(r, reply) PROVE ServerTypeOK' /\ Quiet'
  BY <1>3 DEF ServerTypeOK, Quiet, SendWrite,
     Unsent, Refused, Victim, Answered, SessionIs, SessionEnds, Usable, server
<1> QED  BY <1>1, <1>2, <1>3

\* BEGIN adds a level or none.
LEMMA BeginLevel ==
  ASSUME ServerTypeOK, Quiet, NEW reply, SendBegin(reply)
  PROVE  /\ store' = store /\ reply \in Replies
         /\ reply = "succeed" => level' = level + 1 /\ pending' = pending
         /\ reply = "fail" => \/ level' = 0 /\ pending' = {} /\ proc' = "dead"
                              \/ UNCHANGED server
BY DEF ServerTypeOK, Quiet, SendBegin, Unsent, Answered, SessionIs, SessionEnds, Usable, server, Replies

\* COMMIT ends the innermost level; the last one makes the rows permanent.
LEMMA CommitLevel ==
  ASSUME ServerTypeOK, Quiet, NEW reply, SendCommit(reply)
  PROVE  /\ store \subseteq store' /\ store' \cup pending' \subseteq store \cup pending
         /\ reply \in Replies
         /\ reply = "succeed" => level > 0 /\ level' = level - 1
         /\ reply = "succeed" /\ level = 1 => store' = store \cup pending
         /\ reply = "succeed" /\ level # 1 => store' = store /\ pending' = pending
         /\ reply = "fail" => level' = 0 \/ (proc = "rows" /\ level' = level)
         /\ reply = "fail" /\ store' # store => level = 1
BY DEF ServerTypeOK, Quiet, SendCommit, Unsent, Refused, Answered, SessionIs, SessionEnds,
   Usable, server, Replies

\* ROLLBACK ends all levels, unless rows are unread.
LEMMA RollbackLevel ==
  ASSUME ServerTypeOK, Quiet, NEW reply, SendRollback(reply)
  PROVE  /\ store' = store
         /\ \/ level' = 0 /\ pending' = {}
            \/ proc = "rows" /\ level' = level /\ pending' = pending
BY DEF ServerTypeOK, Quiet, SendRollback, Unsent, Refused, Answered, SessionIs, SessionEnds,
   Usable, server

\* A write is stored, joins the transaction, or changes nothing but that the
\* transaction or the session may end.
LEMMA WriteLevel ==
  ASSUME ServerTypeOK, Quiet, NEW r \in Rows, NEW reply, SendWrite(r, reply)
  PROVE  /\ store \subseteq store' /\ store' \cup pending' \subseteq store \cup pending \cup {r}
         /\ reply \in Replies
         /\ reply = "succeed" =>
              /\ level' = level /\ proc' # "dead" /\ proc # "dead"
              /\ IF level = 0 THEN store' = store \cup {r}
                 ELSE store' = store /\ pending' = pending \cup {r}
         /\ reply = "fail" =>
              /\ level' \in {0, level} /\ (level' = level /\ level > 0 => pending \subseteq pending')
              /\ r \in (store' \cup pending') \ (store \cup pending) =>
                     proc # "dead" /\ proc' = "dead"
BY DEF ServerTypeOK, Quiet, SendWrite, Unsent, Refused, Victim, Answered, SessionIs,
   SessionEnds, Usable, server, Replies

\* A query, and a statement that matches no row.
LEMMA AskLevel ==
  ASSUME ServerTypeOK, Quiet, NEW reply, SendQuery(reply) \/ MatchNone(reply)
  PROVE  /\ store' = store /\ pending' \subseteq pending /\ reply \in Replies
         /\ level' \in {0, level}
         /\ level' = level => pending' = pending
         /\ reply = "succeed" => level' = level /\ proc # "dead" /\ proc' # "dead"
BY DEF ServerTypeOK, Quiet, SendQuery, MatchNone, Unsent, Refused, Victim, SessionIs,
   SessionEnds, Usable, server, Replies

-----------------------------------------------------------------------------
(* SybLayer: what a call does to the list of objects.                      *)

LEMMA ObjectsOf ==
  ASSUME NEW T, txns \in Seq(T)
  PROVE  /\ Len(txns) \in Nat /\ DOMAIN txns = 1 .. Len(txns)
         /\ txns \in [DOMAIN txns -> T]
         /\ \A i \in DOMAIN txns : txns[i] \in T
         /\ Active \subseteq 1 .. Len(txns)
         /\ Cardinality(Active) \in Nat
<1>1. /\ Len(txns) \in Nat /\ DOMAIN txns = 1 .. Len(txns) /\ txns \in [DOMAIN txns -> T]
      /\ \A i \in DOMAIN txns : txns[i] \in T
  BY ListFacts
<1>2. Active \subseteq 1 .. Len(txns)
  BY <1>1 DEF Active
<1>3. Cardinality(Active) \in Nat
  BY <1>1, <1>2, CountFacts
<1> QED  BY <1>1, <1>2, <1>3

LEMMA Objects ==
  ASSUME TypeOK
  PROVE  /\ txns \in Seq(Txn) /\ Len(txns) \in Nat /\ DOMAIN txns = 1 .. Len(txns)
         /\ txns \in [DOMAIN txns -> Txn]
         /\ \A i \in DOMAIN txns : txns[i] \in Txn
         /\ Active \subseteq 1 .. Len(txns)
         /\ Cardinality(Active) \in Nat
<1>1. txns \in Seq(Txn)
  BY DEF TypeOK
<1> QED  BY <1>1, ObjectsOf

\* Something was noted in the objects; which of them are active is the same.
Lives(f) == f \in [DOMAIN txns -> Txn] /\ \A i \in DOMAIN txns : f[i].active = txns[i].active

LEMMA LivesFacts ==
  ASSUME TypeOK, Lives(txns')
  PROVE  txns' \in Seq(Txn) /\ Len(txns') = Len(txns) /\ DOMAIN txns' = DOMAIN txns /\ Active' = Active
<1>1. txns' \in Seq(Txn) /\ Len(txns') = Len(txns) /\ DOMAIN txns' = DOMAIN txns
  BY Objects, ChangedList DEF Lives
<1> QED  BY <1>1 DEF Lives, Active

LEMMA OpenLives ==
  ASSUME TypeOK, Open
  PROVE  Lives(txns') /\ \A i \in DOMAIN txns : txns'[i].reopened /\ txns'[i].nested = txns[i].nested
                                                /\ txns'[i].outcome = txns[i].outcome
BY Objects DEF Open, Lives, Txn

LEMMA NotedLives ==
  ASSUME TypeOK, NEW failed \in BOOLEAN
  PROVE  /\ Lives(Noted(failed))
         /\ \A i \in DOMAIN txns :
              LET t == Noted(failed)[i]
              IN  /\ t.failed = (txns[i].failed \/ failed)
                  /\ t.nested = txns[i].nested /\ t.outcome = txns[i].outcome
                  /\ t.begun = txns[i].begun /\ t.rows = txns[i].rows
                  /\ t.reopened = txns[i].reopened
BY Objects DEF Noted, Lives, Txn

\* A write that is reported as done is noted by the active objects.
Takes(r, reply, done) ==
    txns' = [i \in DOMAIN txns |->
               [Noted(~Replied(reply))[i] EXCEPT
                    !.rows = IF txns[i].active /\ done THEN @ \cup {r} ELSE @]]

LEMMA WriteLives ==
  ASSUME TypeOK, NEW r \in Rows, NEW reply \in Replies, NEW done \in BOOLEAN,
         Takes(r, reply, done)
  PROVE  /\ Lives(txns')
         /\ \A i \in DOMAIN txns :
                  /\ txns'[i].failed = (txns[i].failed \/ reply = "fail")
                  /\ txns'[i].nested = txns[i].nested /\ txns'[i].outcome = txns[i].outcome
                  /\ txns'[i].begun = txns[i].begun /\ txns'[i].reopened = txns[i].reopened
                  /\ txns'[i].rows = IF txns[i].active /\ done THEN txns[i].rows \cup {r} ELSE txns[i].rows
<1> DEFINE N == Noted(~Replied(reply))
<1>1. Replied(reply) = (reply # "fail") /\ (~Replied(reply)) \in BOOLEAN
  BY DEF Replied, Replies
<1>2. /\ N \in [DOMAIN txns -> Txn]
      /\ \A i \in DOMAIN txns :
              /\ N[i].active = txns[i].active
              /\ N[i].failed = (txns[i].failed \/ reply = "fail")
              /\ N[i].nested = txns[i].nested /\ N[i].outcome = txns[i].outcome
              /\ N[i].begun = txns[i].begun /\ N[i].rows = txns[i].rows
              /\ N[i].reopened = txns[i].reopened
  BY <1>1, NotedLives DEF Lives
<1> HIDE DEF N
<1>3. txns' = [i \in DOMAIN txns |->
                 [N[i] EXCEPT !.rows = IF txns[i].active /\ done THEN @ \cup {r} ELSE @]]
  BY DEF N, Takes
<1>4. ASSUME NEW i \in DOMAIN txns
      PROVE  /\ txns'[i] \in Txn /\ txns'[i].active = N[i].active /\ txns'[i].failed = N[i].failed
             /\ txns'[i].nested = N[i].nested /\ txns'[i].outcome = N[i].outcome
             /\ txns'[i].begun = N[i].begun /\ txns'[i].reopened = N[i].reopened
             /\ txns'[i].rows = IF txns[i].active /\ done THEN N[i].rows \cup {r} ELSE N[i].rows
  <2> DEFINE R == IF txns[i].active /\ done THEN N[i].rows \cup {r} ELSE N[i].rows
  <2>1. N[i] \in Txn /\ R \in SUBSET Rows
    BY <1>2 DEF Txn
  <2>2. txns'[i] = [N[i] EXCEPT !.rows = R]
    BY <1>3
  <2> HIDE DEF R
  <2>3. /\ txns'[i] \in Txn /\ txns'[i].active = N[i].active /\ txns'[i].failed = N[i].failed
        /\ txns'[i].nested = N[i].nested /\ txns'[i].outcome = N[i].outcome
        /\ txns'[i].begun = N[i].begun /\ txns'[i].reopened = N[i].reopened
        /\ txns'[i].rows = R
    BY <2>1, <2>2 DEF Txn
  <2> QED  BY <2>3 DEF R
<1>5. txns' \in [DOMAIN txns -> Txn]
  BY <1>3, <1>4
<1>6. Lives(txns')
  BY <1>2, <1>4, <1>5 DEF Lives
<1> QED  BY <1>2, <1>4, <1>6

\* A new object is active, and every other one is nested.
LEMMA BeginList ==
  ASSUME TypeOK, NEW reply \in Replies,
         txns' = Append([i \in DOMAIN txns |-> [txns[i] EXCEPT !.nested = TRUE]],
                        NewTxn(Replied(reply)))
  PROVE  LET n == Len(txns)
         IN  /\ txns' \in Seq(Txn) /\ Len(txns') = n + 1 /\ DOMAIN txns' = 1 .. n + 1
             /\ txns'[n + 1] = NewTxn(reply = "succeed")
             /\ \A i \in DOMAIN txns :
                  /\ txns'[i].nested /\ txns'[i].active = txns[i].active
                  /\ txns'[i].outcome = txns[i].outcome /\ txns'[i].rows = txns[i].rows
                  /\ txns'[i].reopened = txns[i].reopened
             /\ Cardinality(Active') = Cardinality(Active) + 1
<1> DEFINE f == [i \in DOMAIN txns |-> [txns[i] EXCEPT !.nested = TRUE]]
           n == Len(txns)
<1>1. /\ f \in [DOMAIN txns -> Txn]
      /\ \A i \in DOMAIN txns :
              /\ f[i].nested /\ f[i].active = txns[i].active
              /\ f[i].outcome = txns[i].outcome /\ f[i].rows = txns[i].rows
              /\ f[i].reopened = txns[i].reopened
  BY Objects DEF Txn
<1>2. NewTxn(reply = "succeed") \in Txn /\ NewTxn(Replied(reply)) = NewTxn(reply = "succeed")
  BY DEF NewTxn, Txn, Replied
<1>3. txns' = Append(f, NewTxn(reply = "succeed"))
  BY <1>2
<1> HIDE DEF f
<1>4. /\ n \in Nat /\ DOMAIN txns = 1 .. n /\ f \in Seq(Txn) /\ Len(f) = n
  BY <1>1, Objects, ChangedList
<1>5. /\ txns' \in Seq(Txn) /\ Len(txns') = n + 1 /\ DOMAIN txns' = 1 .. n + 1
      /\ txns'[n + 1] = NewTxn(reply = "succeed") /\ \A i \in 1 .. n : txns'[i] = f[i]
  BY <1>2, <1>3, <1>4, PushedList
<1>6. Active' = Active \cup {n + 1}
  <2>1. NewTxn(reply = "succeed").active = TRUE
    BY DEF NewTxn
  <2> QED  BY <1>1, <1>4, <1>5, <2>1 DEF Active
<1>7. Cardinality(Active') = Cardinality(Active) + 1
  BY <1>4, <1>6, Objects, CountFacts
<1> QED  BY <1>1, <1>4, <1>5, <1>7

\* commit() and rollback() end the innermost object.
LEMMA EndList ==
  ASSUME NEW T, txns \in Seq(T), HasActive, NEW u \in T, ~u.active,
         txns' = [txns EXCEPT ![Innermost] = u]
  PROVE  LET n == Len(txns)
         IN  /\ n \in 1 .. Len(txns) /\ Last(txns) = txns[n] /\ txns[n].active
             /\ txns' \in Seq(T) /\ Len(txns') = n /\ DOMAIN txns' = 1 .. n
             /\ txns'[n] = u /\ \A i \in 1 .. n - 1 : txns'[i] = txns[i]
             /\ Active' = Active \ {n} /\ n \in Active
             /\ Cardinality(Active') = Cardinality(Active) - 1
<1> DEFINE n == Len(txns)
<1>1. n \in Nat /\ n > 0 /\ DOMAIN txns = 1 .. n /\ Last(txns) = txns[n] /\ txns[n].active
  BY ObjectsOf, PoppedList DEF HasActive, Innermost
<1>2. txns' \in [DOMAIN txns -> T] /\ txns'[n] = u /\ \A i \in 1 .. n - 1 : txns'[i] = txns[i]
  BY <1>1, ObjectsOf DEF Innermost
<1>3. txns' \in Seq(T) /\ Len(txns') = n /\ DOMAIN txns' = 1 .. n
  BY <1>1, <1>2, ObjectsOf, ChangedList
<1>4. Active' = Active \ {n} /\ n \in Active
  BY <1>1, <1>2, <1>3 DEF Active
<1>5. Cardinality(Active') = Cardinality(Active) - 1
  BY <1>1, <1>4, ObjectsOf, CountFacts
<1> QED  BY <1>1, <1>2, <1>3, <1>4, <1>5

\* The innermost object goes out of scope.
LEMMA DestroyList ==
  ASSUME NEW T, txns \in Seq(T), Innermost > 0, txns' = Front(txns)
  PROVE  LET n == Len(txns)
         IN  /\ n \in Nat /\ n > 0 /\ Last(txns) = txns[n] /\ n \in DOMAIN txns
             /\ txns' \in Seq(T) /\ Len(txns') = n - 1 /\ DOMAIN txns' = 1 .. n - 1
             /\ \A i \in 1 .. n - 1 : txns'[i] = txns[i]
             /\ txns[n].active => Cardinality(Active') = Cardinality(Active) - 1
             /\ ~txns[n].active => Active' = Active
<1> DEFINE n == Len(txns)
<1>1. n \in Nat /\ n > 0 /\ DOMAIN txns = 1 .. n /\ Last(txns) = txns[n]
      /\ txns' \in Seq(T) /\ Len(txns') = n - 1 /\ DOMAIN txns' = 1 .. n - 1
      /\ \A i \in 1 .. n - 1 : txns'[i] = txns[i]
  BY ObjectsOf, PoppedList DEF Innermost
<1>2. Active' = Active \ {n}
  BY <1>1 DEF Active
<1>3. ASSUME txns[n].active PROVE Cardinality(Active') = Cardinality(Active) - 1
  <2>1. n \in Active
    BY <1>1, <1>3 DEF Active
  <2> QED  BY <1>1, <1>2, <2>1, ObjectsOf, CountFacts
<1>4. ASSUME ~txns[n].active PROVE Active' = Active
  BY <1>2, <1>4 DEF Active
<1> QED  BY <1>1, <1>3, <1>4

-----------------------------------------------------------------------------
(* SybLayer: every call keeps the invariant.                               *)

\* What was reported stays true as long as no row leaves the store and none
\* that was not there comes to the server.
LEMMA ReportsKept ==
  ASSUME Orderly, store \subseteq store', store' \cup pending' \subseteq store \cup pending,
         UNCHANGED history
  PROVE  Unwritten' /\ WriteReport'
BY DEF Orderly, Unwritten, WriteReport, history

LEMMA OpenKeeps ==
  ASSUME TypeOK, Orderly, Open
  PROVE  TypeOK' /\ Orderly'
<1>1. /\ level' = 0 /\ pending' = {} /\ UNCHANGED <<store, history>>
      /\ opens' \in 0 .. MaxOpens /\ stuck' \in BOOLEAN /\ proc' \in {"ready", "dead"}
  <2>1. opens \in 0 .. MaxOpens /\ stuck \in BOOLEAN /\ MaxOpens \in Nat
    BY BoundsAssumption DEF TypeOK
  <2>2. CASE opens < MaxOpens /\ opens' = opens + 1 /\ SessionIs("ready", 0, {}) /\ stuck' = FALSE
    <3>1. opens' \in 0 .. MaxOpens
      BY <2>1, <2>2
    <3>2. UNCHANGED <<store, history>>
      BY DEF Open
    <3> QED  BY <2>2, <3>1, <3>2 DEF SessionIs
  <2>3. CASE SessionEnds /\ UNCHANGED <<opens, stuck>>
    BY <2>1, <2>3 DEF Open, SessionIs, SessionEnds
  <2> QED  BY <2>2, <2>3 DEF Open
<1>2. /\ txns' \in Seq(Txn) /\ Len(txns') = Len(txns) /\ DOMAIN txns' = DOMAIN txns /\ Active' = Active
      /\ \A i \in DOMAIN txns : txns'[i].reopened /\ txns'[i].nested = txns[i].nested
                                /\ txns'[i].outcome = txns[i].outcome
                                /\ txns'[i].active = txns[i].active
  BY OpenLives, LivesFacts DEF Lives
<1>3. TypeOK'
  BY <1>1, <1>2 DEF TypeOK, ServerTypeOK, history
<1>4. Quiet' /\ Covered'
  BY <1>1, <1>2, Objects DEF Quiet, Covered
<1>5. Unwritten' /\ WriteReport'
  BY <1>1, ReportsKept
<1>6. Ended' /\ OutermostHolds' /\ InnermostOpen'
  BY <1>2 DEF Orderly, Ended, OutermostHolds, InnermostOpen
<1> QED  BY <1>3, <1>4, <1>5, <1>6 DEF Orderly

\* A step in which the transaction goes on, or the session or the server ends
\* it; the objects note a failure if there is one.
LEMMA LifeKeeps ==
  ASSUME TypeOK, Orderly, NEW failed \in BOOLEAN, txns' = Noted(failed),
         level' \in {0, level}, level' = level /\ level > 0 => pending \subseteq pending',
         ~failed => level' = level /\ store' = store, proc = "dead" => failed,
         store \subseteq store', UNCHANGED stuck
  PROVE  Covered' /\ Ended' /\ OutermostHolds' /\ InnermostOpen'
<1>1. /\ Len(txns') = Len(txns) /\ DOMAIN txns' = DOMAIN txns /\ Active' = Active
      /\ \A i \in DOMAIN txns :
              /\ txns'[i].active = txns[i].active /\ txns'[i].failed = (txns[i].failed \/ failed)
              /\ txns'[i].nested = txns[i].nested /\ txns'[i].outcome = txns[i].outcome
              /\ txns'[i].begun = txns[i].begun /\ txns'[i].rows = txns[i].rows
              /\ txns'[i].reopened = txns[i].reopened
  BY NotedLives, LivesFacts DEF Lives
<1>2. level \in Nat /\ Cardinality(Active) \in Nat
  BY Objects DEF TypeOK, ServerTypeOK
<1>3. Covered'
  BY <1>1, <1>2 DEF Orderly, Covered
<1>4. Ended'
  BY <1>1 DEF Orderly, Ended
<1>5. OutermostHolds'
  <2> SUFFICES ASSUME 1 \in DOMAIN txns', ~txns'[1].reopened, ~stuck'
               PROVE  /\ txns'[1].active /\ level' = Cardinality(Active') =>
                            txns'[1].rows \subseteq store' \cup pending'
                      /\ txns'[1].outcome = "true" => txns'[1].rows \subseteq store'
    BY DEF OutermostHolds
  <2>1. ASSUME txns[1].active, level' = Cardinality(Active) PROVE level' = level /\ level > 0
    <3>1. 1 \in Active
      BY <1>1, <2>1 DEF Active
    <3>2. Cardinality(Active) # 0
      BY <3>1, Objects, CountFacts
    <3> QED  BY <1>2, <2>1, <3>2
  <2> QED  BY <1>1, <2>1 DEF Orderly, OutermostHolds
<1>6. InnermostOpen'
  <2> SUFFICES ASSUME NEW i \in DOMAIN txns', ~txns'[i].nested
               PROVE  /\ i = Len(txns')
                      /\ txns'[i].active /\ txns'[i].begun /\ ~txns'[i].failed /\ ~txns'[i].reopened =>
                           txns'[i].rows \cap store' = {} /\ (level' > 0 \/ proc' = "dead")
    BY DEF InnermostOpen
  <2>1. /\ i \in DOMAIN txns /\ ~txns[i].nested /\ i = Len(txns)
        /\ txns[i].active /\ txns[i].begun /\ ~txns[i].failed /\ ~txns[i].reopened =>
             txns[i].rows \cap store = {} /\ (level > 0 \/ proc = "dead")
    BY <1>1 DEF Orderly, InnermostOpen
  <2> QED  BY <1>1, <2>1
<1> QED  BY <1>3, <1>4, <1>5, <1>6

LEMMA QueryKeeps ==
  ASSUME TypeOK, Orderly, Query
  PROVE  TypeOK' /\ Orderly'
<1>1. PICK reply \in Replies : SendQuery(reply) /\ txns' = Noted(~Replied(reply))
  BY DEF Query
<1>2. UNCHANGED <<opens, told, within, lost, stuck>>
  BY DEF Query, history
<1>3. /\ ServerTypeOK' /\ Quiet' /\ ServerTypeOK
      /\ store' = store /\ pending' \subseteq pending
      /\ level' \in {0, level} /\ (level' = level => pending' = pending)
      /\ reply = "succeed" => level' = level /\ proc # "dead"
  BY <1>1, ServerTyped, AskLevel DEF TypeOK, Orderly
<1>4. PICK failed \in BOOLEAN : failed = (reply = "fail") /\ txns' = Noted(failed)
  <2>1. (~Replied(reply)) = (reply = "fail")
    BY DEF Replied, Replies
  <2> QED  BY <1>1, <2>1
<1>5. proc = "dead" => failed
  BY <1>3, <1>4 DEF Replies
<1>6. TypeOK'
  BY <1>2, <1>3, <1>4, NotedLives, LivesFacts DEF TypeOK
<1>7. Covered' /\ Ended' /\ OutermostHolds' /\ InnermostOpen'
  BY <1>2, <1>3, <1>4, <1>5, LifeKeeps DEF Replies
<1>8. Unwritten' /\ WriteReport'
  BY <1>2, <1>3, ReportsKept DEF history
<1> QED  BY <1>3, <1>6, <1>7, <1>8 DEF Orderly

\* Rows are read, or the session ends between two calls.
LEMMA SessionKeeps ==
  ASSUME TypeOK, Orderly, Close \/ ReadRows \/ UNCHANGED vars
  PROVE  TypeOK' /\ Orderly'
<1>1. UNCHANGED <<store, txns, opens, told, within, lost, stuck>>
  BY DEF Close, ReadRows, history, vars
<1>2. \/ proc' = "dead" /\ level' = 0 /\ pending' = {}
      \/ /\ level' = level /\ pending' = pending
         /\ proc' = "dead" <=> proc = "dead"
         /\ proc' \in {"ready", "fetching", "rows", "dead"}
  BY DEF Close, ReadRows, SessionIs, SessionEnds, vars, TypeOK, ServerTypeOK
<1>3. TypeOK'
  BY <1>1, <1>2 DEF TypeOK, ServerTypeOK
<1>4. Quiet'
  BY <1>2 DEF Orderly, Quiet
<1>5. Active' = Active /\ level \in Nat /\ Cardinality(Active) \in Nat
  BY <1>1, Objects DEF Active, TypeOK, ServerTypeOK
<1>6. Covered' /\ Ended'
  BY <1>1, <1>2, <1>5 DEF Orderly, Covered, Ended
<1>7. Unwritten' /\ WriteReport'
  BY <1>1, <1>2, ReportsKept DEF history
<1>8. OutermostHolds'
  <2>1. ASSUME 1 \in DOMAIN txns, txns[1].active, level' = Cardinality(Active)
        PROVE  level' = level /\ pending' = pending
    <3>1. 1 \in Active
      BY <2>1 DEF Active
    <3>2. Cardinality(Active) # 0
      BY <3>1, Objects, CountFacts
    <3> QED  BY <1>2, <2>1, <3>2
  <2> QED  BY <1>1, <1>5, <2>1 DEF Orderly, OutermostHolds
<1>9. InnermostOpen'
  BY <1>1, <1>2 DEF Orderly, InnermostOpen
<1> QED  BY <1>3, <1>4, <1>6, <1>7, <1>8, <1>9 DEF Orderly

LEMMA BeginKeeps ==
  ASSUME TypeOK, Orderly, Begin
  PROVE  TypeOK' /\ Orderly'
<1>1. PICK reply \in Replies :
        /\ SendBegin(reply)
        /\ txns' = Append([i \in DOMAIN txns |-> [txns[i] EXCEPT !.nested = TRUE]],
                          NewTxn(Replied(reply)))
  BY DEF Begin
<1>2. UNCHANGED <<opens, told, within, lost, stuck>>
  BY DEF Begin, history
<1>3. /\ ServerTypeOK' /\ Quiet' /\ ServerTypeOK /\ store' = store
      /\ reply = "succeed" => level' = level + 1 /\ pending' = pending
      /\ reply = "fail" => (level' = 0 /\ pending' = {}) \/ (level' = level /\ pending' = pending)
  BY <1>1, ServerTyped, BeginLevel DEF TypeOK, Orderly, server
<1> DEFINE n == Len(txns)
<1>4. /\ n \in Nat /\ DOMAIN txns = 1 .. n
      /\ txns' \in Seq(Txn) /\ Len(txns') = n + 1 /\ DOMAIN txns' = 1 .. n + 1
      /\ txns'[n + 1] = NewTxn(reply = "succeed")
      /\ \A i \in DOMAIN txns :
              /\ txns'[i].nested /\ txns'[i].active = txns[i].active
              /\ txns'[i].outcome = txns[i].outcome /\ txns'[i].rows = txns[i].rows
              /\ txns'[i].reopened = txns[i].reopened
      /\ Cardinality(Active') = Cardinality(Active) + 1
  BY <1>1, BeginList, Objects
<1> HIDE DEF n
<1>5. level \in Nat /\ Cardinality(Active) \in Nat
  BY Objects DEF TypeOK, ServerTypeOK
<1>6. TypeOK'
  BY <1>2, <1>3, <1>4 DEF TypeOK
<1>7. Covered'
  BY <1>2, <1>3, <1>4, <1>5 DEF Orderly, Covered, Replies
<1>8. Unwritten' /\ WriteReport'
  BY <1>2, <1>3, ReportsKept DEF history, Replies
<1>9. Ended'
  <2> SUFFICES ASSUME NEW i \in DOMAIN txns', txns'[i].outcome # "open" PROVE ~txns'[i].active
    BY DEF Ended
  <2>1. i # n + 1
    BY <1>4 DEF NewTxn
  <2> QED  BY <1>4, <2>1 DEF Orderly, Ended
<1>10. OutermostHolds'
  <2> SUFFICES ASSUME 1 \in DOMAIN txns', ~txns'[1].reopened, ~stuck'
               PROVE  /\ txns'[1].active /\ level' = Cardinality(Active') =>
                            txns'[1].rows \subseteq store' \cup pending'
                      /\ txns'[1].outcome = "true" => txns'[1].rows \subseteq store'
    BY DEF OutermostHolds
  <2>1. CASE n = 0
    BY <1>4, <2>1 DEF NewTxn
  <2>2. CASE n # 0
    <3>1. 1 \in DOMAIN txns
      BY <1>4, <2>2
    <3>2. level' = Cardinality(Active') => level = Cardinality(Active) /\ pending' = pending
      BY <1>2, <1>3, <1>4, <1>5 DEF Orderly, Covered, Replies
    <3> QED  BY <1>2, <1>3, <1>4, <3>1, <3>2 DEF Orderly, OutermostHolds
  <2> QED  BY <2>1, <2>2
<1>11. InnermostOpen'
  <2> SUFFICES ASSUME NEW i \in DOMAIN txns', ~txns'[i].nested
               PROVE  /\ i = Len(txns')
                      /\ txns'[i].active /\ txns'[i].begun /\ ~txns'[i].failed /\ ~txns'[i].reopened =>
                           txns'[i].rows \cap store' = {} /\ (level' > 0 \/ proc' = "dead")
    BY DEF InnermostOpen
  <2>1. i = n + 1
    BY <1>4
  <2>2. NewTxn(reply = "succeed").rows = {} /\ (NewTxn(reply = "succeed").begun => reply = "succeed")
    BY DEF NewTxn
  <2>3. reply = "succeed" => level' > 0
    BY <1>3, <1>5
  <2> QED  BY <1>4, <2>1, <2>2, <2>3
<1> QED  BY <1>3, <1>6, <1>7, <1>8, <1>9, <1>10, <1>11 DEF Orderly

\* What commit() and rollback() write into the innermost object.
Settles(outcome) ==
    \/ txns' = [txns EXCEPT ![Innermost].active = FALSE, ![Innermost].outcome = outcome]
    \/ outcome = Last(txns).outcome /\ txns' = [txns EXCEPT ![Innermost].active = FALSE]

LEMMA SettleFacts ==
  ASSUME TypeOK, HasActive, NEW outcome \in {"open", "true", "false"}, Settles(outcome)
  PROVE  \E u \in Txn : /\ ~u.active /\ u.outcome = outcome
                        /\ u.nested = Last(txns).nested /\ u.rows = Last(txns).rows
                        /\ u.reopened = Last(txns).reopened
                        /\ txns' = [txns EXCEPT ![Innermost] = u]
<1> DEFINE n == Innermost
           t == Last(txns)
           u == [[t EXCEPT !.active = FALSE] EXCEPT !.outcome = outcome]
<1>1. t \in Txn /\ n \in DOMAIN txns /\ txns[n] = t
  <2>1. Len(txns) \in Nat /\ Len(txns) > 0 /\ DOMAIN txns = 1 .. Len(txns) /\ txns \in Seq(Txn)
    BY Objects DEF HasActive, Innermost
  <2>2. Last(txns) = txns[Len(txns)]
    BY <2>1, PoppedList
  <2> QED  BY <2>1, <2>2, Objects DEF Innermost
<1>2. txns' = [txns EXCEPT ![n] = u]
  <2> HIDE DEF n, t
  <2>1. CASE txns' = [txns EXCEPT ![Innermost].active = FALSE, ![Innermost].outcome = outcome]
    BY <1>1, <2>1 DEF n
  <2>2. CASE outcome = t.outcome /\ txns' = [txns EXCEPT ![Innermost].active = FALSE]
    <3>1. [[t EXCEPT !.active = FALSE] EXCEPT !.outcome = outcome] = [t EXCEPT !.active = FALSE]
      BY <1>1, <2>2 DEF Txn
    <3> QED  BY <1>1, <2>2, <3>1 DEF n
  <2> QED  BY <2>1, <2>2 DEF t, Settles
<1>3. /\ u \in Txn /\ ~u.active /\ u.outcome = outcome
      /\ u.nested = t.nested /\ u.rows = t.rows /\ u.reopened = t.reopened
  <2> HIDE DEF t
  <2> QED  BY <1>1 DEF Txn
<1> HIDE DEF u
<1> QED  BY <1>2, <1>3

\* The end of the innermost object: the server ends a level, or all of them.
LEMMA EndKeeps ==
  ASSUME TypeOK, Orderly, HasActive, NEW outcome \in {"open", "true", "false"}, Settles(outcome),
         stuck' \in BOOLEAN, stuck => stuck', store \subseteq store',
         ~stuck' => \/ level' = 0
                    \/ level > 1 /\ level' = level - 1 /\ store' = store /\ pending' = pending,
         outcome = "true" => level > 0 /\ (level = 1 => store' = store \cup pending)
  PROVE  /\ txns' \in Seq(Txn)
         /\ Covered' /\ Ended' /\ OutermostHolds' /\ InnermostOpen'
<1> DEFINE n == Len(txns)
<1>1. PICK u \in Txn : /\ ~u.active /\ u.outcome = outcome
                       /\ u.nested = Last(txns).nested /\ u.rows = Last(txns).rows
                       /\ u.reopened = Last(txns).reopened
                       /\ txns' = [txns EXCEPT ![Innermost] = u]
  BY SettleFacts
<1>2. /\ n \in 1 .. n /\ DOMAIN txns = 1 .. n /\ Last(txns) = txns[n] /\ txns[n].active
      /\ txns' \in Seq(Txn) /\ Len(txns') = n /\ DOMAIN txns' = 1 .. n
      /\ txns'[n] = u /\ \A i \in 1 .. n - 1 : txns'[i] = txns[i]
      /\ Active' = Active \ {n} /\ n \in Active
      /\ Cardinality(Active') = Cardinality(Active) - 1
  BY <1>1, EndList, Objects
<1> HIDE DEF n
<1>3. level \in Nat /\ Cardinality(Active) \in Nat /\ n \in Nat /\ Active \subseteq 1 .. n
  BY Objects DEF TypeOK, ServerTypeOK, n
<1>4. Cardinality(Active) > 0
  BY <1>2, <1>3, CountFacts
<1>5. Covered'
  BY <1>2, <1>3, <1>4 DEF Orderly, Covered
<1>6. Ended'
  BY <1>1, <1>2 DEF Orderly, Ended
<1>7. OutermostHolds'
  <2> SUFFICES ASSUME 1 \in DOMAIN txns', ~txns'[1].reopened, ~stuck'
               PROVE  /\ txns'[1].active /\ level' = Cardinality(Active') =>
                            txns'[1].rows \subseteq store' \cup pending'
                      /\ txns'[1].outcome = "true" => txns'[1].rows \subseteq store'
    BY DEF OutermostHolds
  <2>1. CASE n = 1
    <3>1. Cardinality(Active) = 1
      <4>1. Active \ {1} = {}
        BY <1>3, <2>1
      <4>2. Cardinality(Active') = 0
        BY <1>2, <2>1, <4>1, FS_EmptySet
      <4> QED  BY <1>2, <1>3, <4>2
    <3>2. outcome = "true" => level = 1 /\ store' = store \cup pending
      BY <1>3, <3>1 DEF Orderly, Covered
    <3>3. level = 1 => txns[1].rows \subseteq store \cup pending
      BY <1>1, <1>2, <2>1, <3>1 DEF Orderly, OutermostHolds
    <3> QED  BY <1>1, <1>2, <2>1, <3>2, <3>3
  <2>2. CASE n # 1
    <3>1. txns'[1] = txns[1] /\ 1 \in DOMAIN txns
      BY <1>2, <2>2
    <3>2. ASSUME txns[1].active, level' = Cardinality(Active')
          PROVE  level = Cardinality(Active) /\ store' = store /\ pending' = pending
      <4>1. 1 \in Active'
        BY <1>2, <2>2, <3>1, <3>2 DEF Active
      <4>2. Cardinality(Active') # 0 /\ Cardinality(Active') \in Nat
        BY <1>2, <1>3, <4>1, CountFacts
      <4> QED  BY <1>2, <1>3, <3>2, <4>2
    <3> QED  BY <3>1, <3>2 DEF Orderly, OutermostHolds
  <2> QED  BY <2>1, <2>2
<1>8. InnermostOpen'
  <2> SUFFICES ASSUME NEW i \in DOMAIN txns', ~txns'[i].nested
               PROVE  i = n /\ ~txns'[i].active
    BY <1>2 DEF InnermostOpen
  <2>1. i \in 1 .. n - 1 => txns[i].nested
    BY <1>2, <1>3 DEF Orderly, InnermostOpen, n
  <2> QED  BY <1>1, <1>2, <1>3, <2>1
<1> QED  BY <1>2, <1>5, <1>6, <1>7, <1>8

LEMMA CommitKeeps ==
  ASSUME TypeOK, Orderly, Commit
  PROVE  TypeOK' /\ Orderly'
<1>1. PICK reply \in Replies :
        /\ SendCommit(reply)
        /\ txns' = [txns EXCEPT ![Innermost].active = FALSE,
                       ![Innermost].outcome = IF Replied(reply) THEN "true" ELSE "false"]
  BY DEF Commit
<1>2. /\ UNCHANGED <<opens, told, within, lost>> /\ HasActive
      /\ stuck' = (stuck \/ proc = "rows")
  BY DEF Commit, history, Blocked
<1>3. PICK outcome \in {"open", "true", "false"} :
        (outcome = "true" => reply = "succeed") /\ Settles(outcome)
  BY <1>1 DEF Replied, Settles
<1>4. /\ ServerTypeOK' /\ Quiet' /\ ServerTypeOK
      /\ store \subseteq store' /\ store' \cup pending' \subseteq store \cup pending
      /\ reply = "succeed" => level > 0 /\ level' = level - 1
      /\ reply = "succeed" /\ level = 1 => store' = store \cup pending
      /\ reply = "succeed" /\ level # 1 => store' = store /\ pending' = pending
      /\ reply = "fail" => level' = 0 \/ (proc = "rows" /\ level' = level)
  BY <1>1, ServerTyped, CommitLevel DEF TypeOK, Orderly
<1>5. /\ ~stuck' => \/ level' = 0
                    \/ level > 1 /\ level' = level - 1 /\ store' = store /\ pending' = pending
      /\ outcome = "true" => level > 0 /\ (level = 1 => store' = store \cup pending)
      /\ stuck' \in BOOLEAN /\ (stuck => stuck')
  <2>1. stuck' \in BOOLEAN /\ (stuck => stuck') /\ (proc = "rows" => stuck')
    BY <1>2 DEF TypeOK
  <2>2. level \in Nat
    BY <1>4 DEF ServerTypeOK
  <2>3. CASE reply = "succeed"
    BY <1>4, <2>1, <2>2, <2>3
  <2>4. CASE reply = "fail"
    BY <1>3, <1>4, <2>1, <2>2, <2>4
  <2> QED  BY <2>3, <2>4 DEF Replies
<1>6. txns' \in Seq(Txn) /\ Covered' /\ Ended' /\ OutermostHolds' /\ InnermostOpen'
  BY <1>2, <1>3, <1>4, <1>5, EndKeeps
<1>7. TypeOK'
  BY <1>2, <1>4, <1>5, <1>6 DEF TypeOK
<1>8. Unwritten' /\ WriteReport'
  BY <1>2, <1>4, ReportsKept DEF history
<1> QED  BY <1>4, <1>6, <1>7, <1>8 DEF Orderly

LEMMA RollbackKeeps ==
  ASSUME TypeOK, Orderly, Rollback
  PROVE  TypeOK' /\ Orderly'
<1>1. PICK reply \in Replies : SendRollback(reply)
  BY DEF Rollback
<1>2. /\ UNCHANGED <<opens, told, within, lost>> /\ HasActive
      /\ stuck' = (stuck \/ proc = "rows")
  BY DEF Rollback, history, Blocked
<1>3. Last(txns).outcome = "open"
  <2>1. Last(txns) = txns[Len(txns)] /\ Len(txns) \in DOMAIN txns
    <3>1. Len(txns) \in Nat /\ Len(txns) > 0 /\ DOMAIN txns = 1 .. Len(txns) /\ txns \in Seq(Txn)
      BY <1>2, Objects DEF HasActive, Innermost
    <3>2. Last(txns) = txns[Len(txns)]
      BY <3>1, PoppedList
    <3> QED  BY <3>1, <3>2
  <2> QED  BY <1>2, <2>1 DEF HasActive, Orderly, Ended
<1>4. Settles("open")
  BY <1>3 DEF Rollback, Settles
<1>5. /\ ServerTypeOK' /\ Quiet' /\ ServerTypeOK /\ store' = store
      /\ \/ level' = 0 /\ pending' = {}
         \/ proc = "rows" /\ level' = level /\ pending' = pending
  BY <1>1, ServerTyped, RollbackLevel DEF TypeOK, Orderly
<1>6. stuck' \in BOOLEAN /\ (stuck => stuck') /\ (~stuck' => level' = 0)
  BY <1>2, <1>5 DEF TypeOK
<1>7. txns' \in Seq(Txn) /\ Covered' /\ Ended' /\ OutermostHolds' /\ InnermostOpen'
  BY <1>2, <1>4, <1>5, <1>6, EndKeeps
<1>8. TypeOK'
  BY <1>2, <1>5, <1>6, <1>7 DEF TypeOK
<1>9. Unwritten' /\ WriteReport'
  BY <1>2, <1>5, ReportsKept DEF history
<1> QED  BY <1>5, <1>7, <1>8, <1>9 DEF Orderly

\* Whoever stays is nested, and nothing is written.
LEMMA DestroyRest ==
  ASSUME TypeOK, Orderly, Innermost > 0, txns' = Front(txns),
         store \subseteq store', store' \cup pending' \subseteq store \cup pending,
         UNCHANGED <<told, within, lost>>
  PROVE  Unwritten' /\ WriteReport' /\ Ended' /\ InnermostOpen'
<1>1. /\ Len(txns) \in Nat /\ DOMAIN txns = 1 .. Len(txns) /\ DOMAIN txns' = 1 .. Len(txns) - 1
      /\ \A i \in 1 .. Len(txns) - 1 : txns'[i] = txns[i]
  BY Objects, DestroyList
<1>2. Unwritten' /\ WriteReport'
  BY ReportsKept DEF history
<1>3. Ended'
  BY <1>1 DEF Orderly, Ended
<1>4. InnermostOpen'
  <2> SUFFICES ASSUME NEW i \in DOMAIN txns' PROVE txns'[i].nested
    BY DEF InnermostOpen
  <2> QED  BY <1>1 DEF Orderly, InnermostOpen
<1> QED  BY <1>2, <1>3, <1>4

\* An object that is destroyed active takes its transaction along, unless rows
\* are unread.
LEMMA DestroyKeeps ==
  ASSUME TypeOK, Orderly, Destroy
  PROVE  TypeOK' /\ Orderly' /\ Undone(Last(txns))
<1> DEFINE n == Len(txns)
<1>1. UNCHANGED <<opens, told, within, lost>> /\ Innermost > 0 /\ txns' = Front(txns)
  BY DEF Destroy, history
<1>2. /\ n \in Nat /\ n > 0 /\ Last(txns) = txns[n] /\ n \in DOMAIN txns
      /\ txns' \in Seq(Txn) /\ Len(txns') = n - 1 /\ DOMAIN txns' = 1 .. n - 1
      /\ \A i \in 1 .. n - 1 : txns'[i] = txns[i]
      /\ txns[n].active => Cardinality(Active') = Cardinality(Active) - 1
      /\ ~txns[n].active => Active' = Active
  BY <1>1, Objects, DestroyList
<1>3. /\ Cardinality(Active) \in Nat /\ Active \subseteq 1 .. n /\ DOMAIN txns = 1 .. n
      /\ level \in Nat /\ ServerTypeOK /\ stuck \in BOOLEAN
  BY Objects DEF TypeOK, ServerTypeOK
<1> HIDE DEF n
<1>4. CASE txns[n].active
  <2>1. PICK reply \in Replies : SendRollback(reply)
    BY <1>1, <1>2, <1>4 DEF Destroy, HasActive
  <2>2. stuck' = (stuck \/ proc = "rows")
    BY <1>1, <1>2, <1>4 DEF Destroy, HasActive, Blocked
  <2>3. /\ ServerTypeOK' /\ Quiet' /\ store' = store
        /\ \/ level' = 0 /\ pending' = {}
           \/ proc = "rows" /\ level' = level /\ pending' = pending
    BY <1>3, <2>1, ServerTyped, RollbackLevel DEF Orderly
  <2>4. stuck' \in BOOLEAN /\ (stuck => stuck') /\ (~stuck' => level' = 0 /\ pending' = {})
    BY <1>3, <2>2, <2>3
  <2>5. Undone(Last(txns))
    <3>1. /\ ~txns[n].nested /\ txns[n].active /\ txns[n].begun /\ ~txns[n].failed /\ ~txns[n].reopened
             => txns[n].rows \cap store = {}
      BY <1>2 DEF Orderly, InnermostOpen
    <3> QED  BY <1>2, <2>3, <2>4, <3>1 DEF Undone
  <2>6. Cardinality(Active') \in Nat /\ (1 \in Active' => Cardinality(Active') # 0)
    <3>1. n - 1 \in Nat /\ Active' \in SUBSET (1 .. n - 1)
      BY <1>2 DEF Active
    <3> QED  BY <3>1, CountFacts
  <2>7. Covered'
    BY <2>4, <2>6 DEF Covered
  <2>8. OutermostHolds'
    <3> SUFFICES ASSUME 1 \in DOMAIN txns', ~txns'[1].reopened, ~stuck'
                 PROVE  /\ ~(txns'[1].active /\ level' = Cardinality(Active'))
                        /\ txns'[1].outcome = "true" => txns'[1].rows \subseteq store'
      BY DEF OutermostHolds
    <3>1. txns'[1].active => 1 \in Active'
      BY DEF Active
    <3>2. txns'[1] = txns[1] /\ 1 \in DOMAIN txns
      BY <1>2, <1>3
    <3> QED  BY <2>3, <2>4, <2>6, <3>1, <3>2 DEF Orderly, OutermostHolds
  <2> QED  BY <1>1, <1>2, <2>3, <2>4, <2>5, <2>7, <2>8, DestroyRest DEF TypeOK, Orderly
<1>5. CASE ~txns[n].active
  <2>1. UNCHANGED <<proc, level, store, pending, stuck>>
    BY <1>1, <1>2, <1>5 DEF Destroy, HasActive, server
  <2>2. ServerTypeOK' /\ Quiet'
    BY <1>3, <2>1 DEF ServerTypeOK, Orderly, Quiet
  <2>3. Covered'
    BY <1>2, <1>5, <2>1 DEF Orderly, Covered
  <2>4. OutermostHolds'
    <3> SUFFICES ASSUME 1 \in DOMAIN txns' PROVE 1 \in DOMAIN txns /\ txns'[1] = txns[1]
      BY <1>2, <1>5, <2>1 DEF Orderly, OutermostHolds
    <3> QED  BY <1>2, <1>3
  <2>5. Undone(Last(txns))
    BY <1>2, <1>5 DEF Undone
  <2> QED  BY <1>1, <1>2, <2>1, <2>2, <2>3, <2>4, <2>5, DestroyRest DEF TypeOK, Orderly
<1> QED  BY <1>4, <1>5

\* What is reported of a write is true, and stays true of the others.
LEMMA WriteReports ==
  ASSUME TypeOK, Orderly, NEW r \in Rows, told[r] = "unused",
         NEW done \in BOOLEAN, told' = [told EXCEPT ![r] = IF done THEN "true" ELSE "false"],
         within' = (IF Active # {} \/ stuck THEN within \cup {r} ELSE within),
         lost' = (IF proc # "dead" /\ proc' = "dead" THEN lost \cup {r} ELSE lost),
         store \subseteq store', store' \cup pending' \subseteq store \cup pending \cup {r},
         done /\ level = 0 => r \in store',
         ~done /\ r \in store' \cup pending' => proc # "dead" /\ proc' = "dead"
  PROVE  Unwritten' /\ WriteReport'
<1>1. r \notin store \cup pending
  BY DEF Orderly, Unwritten
<1>2. /\ told \in [Rows -> {"unused", "true", "false"}]
      /\ told'[r] = IF done THEN "true" ELSE "false"
      /\ \A q \in Rows \ {r} : told'[q] = told[q]
  BY DEF TypeOK
<1>3. Unwritten'
  <2> SUFFICES ASSUME NEW q \in store' \cup pending' PROVE told'[q] # "unused"
    BY DEF Unwritten
  <2>1. CASE q = r
    BY <1>2, <2>1
  <2>2. CASE q # r
    <3>1. q \in store \cup pending /\ q \in Rows
      BY <2>2 DEF TypeOK, ServerTypeOK
    <3> QED  BY <1>2, <2>2, <3>1 DEF Orderly, Unwritten
  <2> QED  BY <2>1, <2>2
<1>4. Active = {} /\ ~stuck => level = 0
  <2>1. level \in Nat
    BY DEF TypeOK, ServerTypeOK
  <2> QED  BY <2>1, FS_EmptySet DEF Orderly, Covered
<1>5. WriteReport'
  <2> SUFFICES ASSUME NEW q \in Rows
               PROVE  /\ told'[q] = "true" /\ q \notin within' => q \in store'
                      /\ told'[q] = "false" /\ q \in store' \cup pending' => q \in lost'
    BY DEF WriteReport
  <2>1. CASE q = r
    BY <1>2, <1>4, <2>1
  <2>2. CASE q # r
    BY <1>2, <2>2 DEF Orderly, WriteReport
  <2> QED  BY <2>1, <2>2
<1> QED  BY <1>3, <1>5

\* A row that is written is stored, or joins the transaction.
LEMMA DoneKeeps ==
  ASSUME TypeOK, Orderly, NEW r \in Rows, told[r] = "unused",
         Takes(r, "succeed", TRUE), stuck' = stuck,
         level' = level, proc # "dead",
         IF level = 0 THEN store' = store \cup {r} ELSE store' = store /\ pending' = pending \cup {r}
  PROVE  Covered' /\ Ended' /\ OutermostHolds' /\ InnermostOpen'
<1>1. /\ Len(txns') = Len(txns) /\ DOMAIN txns' = DOMAIN txns /\ Active' = Active
      /\ \A i \in DOMAIN txns :
              /\ txns'[i].active = txns[i].active /\ txns'[i].failed = txns[i].failed
              /\ txns'[i].nested = txns[i].nested /\ txns'[i].outcome = txns[i].outcome
              /\ txns'[i].begun = txns[i].begun /\ txns'[i].reopened = txns[i].reopened
              /\ txns'[i].rows = IF txns[i].active THEN txns[i].rows \cup {r} ELSE txns[i].rows
  <2>1. /\ Lives(txns')
        /\ \A i \in DOMAIN txns :
              /\ txns'[i].failed = (txns[i].failed \/ "succeed" = "fail")
              /\ txns'[i].nested = txns[i].nested /\ txns'[i].outcome = txns[i].outcome
              /\ txns'[i].begun = txns[i].begun /\ txns'[i].reopened = txns[i].reopened
              /\ txns'[i].rows = IF txns[i].active /\ TRUE THEN txns[i].rows \cup {r} ELSE txns[i].rows
    BY WriteLives DEF Replies
  <2>2. \A i \in DOMAIN txns : txns[i].failed \in BOOLEAN
    BY Objects DEF Txn
  <2> QED  BY <2>1, <2>2, LivesFacts DEF Lives
<1>2. /\ level \in Nat /\ Cardinality(Active) \in Nat /\ r \notin store \cup pending
      /\ level > 0 => store' = store
  BY Objects DEF TypeOK, ServerTypeOK, Orderly, Unwritten
<1>3. Covered' /\ Ended'
  BY <1>1 DEF Orderly, Covered, Ended
<1>4. OutermostHolds'
  <2> SUFFICES ASSUME 1 \in DOMAIN txns', ~txns'[1].reopened, ~stuck'
               PROVE  /\ txns'[1].active /\ level' = Cardinality(Active') =>
                            txns'[1].rows \subseteq store' \cup pending'
                      /\ txns'[1].outcome = "true" => txns'[1].rows \subseteq store'
    BY DEF OutermostHolds
  <2>1. ASSUME txns[1].active, level = Cardinality(Active)
        PROVE  txns[1].rows \cup {r} \subseteq store' \cup pending'
    <3>1. 1 \in Active
      BY <1>1, <2>1 DEF Active
    <3>2. level # 0
      BY <2>1, <3>1, Objects, CountFacts
    <3> QED  BY <1>1, <2>1, <3>2 DEF Orderly, OutermostHolds
  <2>2. txns[1].outcome = "true" => ~txns[1].active /\ txns[1].rows \subseteq store'
    BY <1>1 DEF Orderly, OutermostHolds, Ended
  <2> QED  BY <1>1, <2>1, <2>2
<1>5. InnermostOpen'
  <2> SUFFICES ASSUME NEW i \in DOMAIN txns', ~txns'[i].nested
               PROVE  /\ i = Len(txns')
                      /\ txns'[i].active /\ txns'[i].begun /\ ~txns'[i].failed /\ ~txns'[i].reopened =>
                           txns'[i].rows \cap store' = {} /\ (level' > 0 \/ proc' = "dead")
    BY DEF InnermostOpen
  <2>1. /\ i \in DOMAIN txns /\ ~txns[i].nested /\ i = Len(txns)
        /\ txns[i].active /\ txns[i].begun /\ ~txns[i].failed /\ ~txns[i].reopened =>
             txns[i].rows \cap store = {} /\ level > 0
    BY <1>1 DEF Orderly, InnermostOpen
  <2>2. txns'[i].rows = IF txns[i].active THEN txns[i].rows \cup {r} ELSE txns[i].rows
    BY <1>1
  <2>3. r \notin store
    BY <1>2
  <2>4. CASE txns[i].active /\ txns[i].begun /\ ~txns[i].failed /\ ~txns[i].reopened
    <3>1. txns'[i].rows = txns[i].rows \cup {r} /\ store' = store /\ level' > 0
      BY <1>2, <2>1, <2>2, <2>4
    <3> QED  BY <1>1, <2>1, <2>3, <2>4, <3>1
  <2> QED  BY <1>1, <2>1, <2>4
<1> QED  BY <1>3, <1>4, <1>5

\* A write that is not reported as done changes no object's rows.
LEMMA TakesNothing ==
  ASSUME TypeOK, NEW r, NEW reply \in Replies, Takes(r, reply, FALSE)
  PROVE  txns' = Noted(reply = "fail")
<1> DEFINE N == Noted(reply = "fail")
<1>1. N \in [DOMAIN txns -> Txn]
  BY NotedLives DEF Lives
<1>2. Noted(~Replied(reply)) = N
  BY DEF Replied, Replies, Noted
<1> HIDE DEF N
<1>3. txns' = [i \in DOMAIN txns |-> [N[i] EXCEPT !.rows = @]]
  BY <1>2 DEF Takes
<1>4. ASSUME NEW i \in DOMAIN txns PROVE [N[i] EXCEPT !.rows = @] = N[i]
  BY <1>1 DEF Txn
<1>5. txns' = [i \in DOMAIN txns |-> N[i]]
  BY <1>3, <1>4
<1>6. txns' = N
  BY <1>1, <1>5
<1> QED  BY <1>6 DEF N

LEMMA WriteKeeps ==
  ASSUME TypeOK, Orderly, NEW r \in Rows, Write(r)
  PROVE  TypeOK' /\ Orderly'
<1>1. PICK reply \in Replies, count \in 0 .. 1 :
        /\ \/ SendWrite(r, reply) /\ count = (IF Replied(reply) THEN 1 ELSE 0)
           \/ MatchNone(reply) /\ count = 0
        /\ told' = [told EXCEPT ![r] = IF Positive(reply, count) THEN "true" ELSE "false"]
        /\ Takes(r, reply, Positive(reply, count))
  BY DEF Write, Takes
<1>2. PICK done \in BOOLEAN : done = Positive(reply, count)
  BY DEF Positive, Replied
<1>3. /\ told[r] = "unused" /\ UNCHANGED <<opens, stuck>>
      /\ within' = (IF Active # {} \/ stuck THEN within \cup {r} ELSE within)
      /\ lost' = (IF proc # "dead" /\ proc' = "dead" THEN lost \cup {r} ELSE lost)
      /\ told' = [told EXCEPT ![r] = IF done THEN "true" ELSE "false"]
      /\ Takes(r, reply, done)
  BY <1>1, <1>2 DEF Write
<1>4. /\ done => reply = "succeed" /\ SendWrite(r, reply)
      /\ ~done => (reply = "fail" /\ SendWrite(r, reply)) \/ MatchNone(reply)
  <2>1. done <=> reply = "succeed" /\ count > 0
    BY <1>2 DEF Positive, Replied
  <2>2. \/ SendWrite(r, reply) /\ count = (IF reply = "succeed" THEN 1 ELSE 0)
        \/ MatchNone(reply) /\ count = 0
    BY <1>1 DEF Replied
  <2>3. CASE SendWrite(r, reply) /\ count = (IF reply = "succeed" THEN 1 ELSE 0)
    BY <2>1, <2>3 DEF Replies
  <2>4. CASE MatchNone(reply) /\ count = 0
    BY <2>1, <2>4
  <2> QED  BY <2>2, <2>3, <2>4
<1>5. ServerTypeOK' /\ Quiet' /\ ServerTypeOK /\ level \in Nat
  BY <1>1, ServerTyped DEF TypeOK, Orderly, ServerTypeOK
<1>6. TypeOK'
  BY <1>3, <1>5, WriteLives, LivesFacts DEF TypeOK
<1>7. CASE done
  <2>1. /\ level' = level /\ proc # "dead" /\ proc' # "dead"
        /\ IF level = 0 THEN store' = store \cup {r}
           ELSE store' = store /\ pending' = pending \cup {r}
        /\ store \subseteq store' /\ store' \cup pending' \subseteq store \cup pending \cup {r}
    BY <1>4, <1>5, <1>7, WriteLevel DEF Orderly
  <2>2. Unwritten' /\ WriteReport'
    BY <1>3, <1>7, <2>1, WriteReports
  <2>3. Covered' /\ Ended' /\ OutermostHolds' /\ InnermostOpen'
    BY <1>3, <1>4, <1>7, <2>1, DoneKeeps
  <2> QED  BY <1>5, <1>6, <2>2, <2>3 DEF Orderly
<1>8. CASE ~done
  <2>1. /\ level' \in {0, level} /\ (level' = level /\ level > 0 => pending \subseteq pending')
        /\ store \subseteq store' /\ store' \cup pending' \subseteq store \cup pending \cup {r}
        /\ r \in (store' \cup pending') \ (store \cup pending) => proc # "dead" /\ proc' = "dead"
        /\ reply # "fail" => level' = level /\ store' = store /\ proc # "dead"
    <3>1. CASE reply = "fail" /\ SendWrite(r, reply)
      BY <1>5, <3>1, WriteLevel DEF Orderly
    <3>2. CASE MatchNone(reply)
      BY <1>5, <3>2, AskLevel DEF Orderly, Replies
    <3> QED  BY <1>4, <1>8, <3>1, <3>2
  <2>2. r \notin store \cup pending
    BY <1>3 DEF Orderly, Unwritten
  <2>3. Unwritten' /\ WriteReport'
    BY <1>3, <1>8, <2>1, <2>2, WriteReports
  <2>4. txns' = Noted(reply = "fail")
    BY <1>3, <1>8, TakesNothing
  <2>5. Covered' /\ Ended' /\ OutermostHolds' /\ InnermostOpen'
    BY <1>3, <2>1, <2>4, LifeKeeps
  <2> QED  BY <1>5, <1>6, <2>3, <2>5 DEF Orderly
<1> QED  BY <1>7, <1>8

LEMMA InitOrderly == Init => TypeOK /\ Orderly
<1> SUFFICES ASSUME Init PROVE TypeOK /\ Orderly
  OBVIOUS
<1>1. txns \in Seq(Txn) /\ DOMAIN txns = {} /\ Active = {} /\ Cardinality(Active) = 0
  BY EmptySeq, FS_EmptySet DEF Init, Active
<1>2. TypeOK
  <2>1. ServerTypeOK /\ opens \in 0 .. MaxOpens
    BY BoundsAssumption DEF Init, ServerTypeOK
  <2>2. told \in [Rows -> {"unused", "true", "false"}] /\ within \in SUBSET Rows
        /\ lost \in SUBSET Rows /\ stuck \in BOOLEAN
    BY DEF Init
  <2> QED  BY <1>1, <2>1, <2>2 DEF TypeOK
<1>3. Quiet /\ Unwritten /\ WriteReport
  BY DEF Init, Quiet, Unwritten, WriteReport
<1>4. Covered
  BY <1>1 DEF Init, Covered
<1>5. Ended /\ OutermostHolds /\ InnermostOpen
  BY <1>1 DEF Ended, OutermostHolds, InnermostOpen
<1> QED  BY <1>2, <1>3, <1>4, <1>5 DEF Orderly

LEMMA NextOrderly == TypeOK /\ Orderly /\ [Next]_vars => (TypeOK /\ Orderly)'
<1> SUFFICES ASSUME TypeOK, Orderly, [Next]_vars PROVE TypeOK' /\ Orderly'
  OBVIOUS
<1>1. CASE Open
  BY <1>1, OpenKeeps
<1>2. CASE Close \/ ReadRows \/ UNCHANGED vars
  BY <1>2, SessionKeeps
<1>3. ASSUME NEW r \in Rows, Write(r) PROVE TypeOK' /\ Orderly'
  BY <1>3, WriteKeeps
<1>4. CASE Query
  BY <1>4, QueryKeeps
<1>5. CASE Begin
  BY <1>5, BeginKeeps
<1>6. CASE Commit
  BY <1>6, CommitKeeps
<1>7. CASE Rollback
  BY <1>7, RollbackKeeps
<1>8. CASE Destroy
  BY <1>8, DestroyKeeps
<1> QED  BY <1>1, <1>2, <1>3, <1>4, <1>5, <1>6, <1>7, <1>8 DEF Next

LEMMA LayerInductive == Spec => [](TypeOK /\ Orderly)
BY InitOrderly, NextOrderly, PTL DEF Spec

\* Only the destructor makes the list of objects shorter.
LEMMA OthersStay ==
  ASSUME TypeOK, Orderly, [Next]_vars, Len(txns') < Len(txns)
  PROVE  Destroy
<1>1. Len(txns) \in Nat /\ txns' \in Seq(Txn) /\ Len(txns') \in Nat
  <2>1. TypeOK'
    BY NextOrderly
  <2> QED  BY <2>1, Objects, LenProperties DEF TypeOK
<1>2. ASSUME Lives(txns') PROVE FALSE
  BY <1>1, <1>2, LivesFacts
<1>3. ASSUME txns' = txns PROVE FALSE
  BY <1>1, <1>3
<1>4. CASE Open
  BY <1>2, <1>4, OpenLives
<1>5. CASE Close \/ ReadRows \/ UNCHANGED vars
  BY <1>3, <1>5 DEF Close, ReadRows, vars
<1>6. ASSUME NEW r \in Rows, Write(r) PROVE FALSE
  <2>1. PICK reply \in Replies, count \in 0 .. 1 : Takes(r, reply, Positive(reply, count))
    BY <1>6 DEF Write, Takes
  <2>2. Positive(reply, count) \in BOOLEAN
    BY DEF Positive, Replied
  <2> QED  BY <1>2, <2>1, <2>2, WriteLives
<1>7. CASE Query
  <2>1. PICK reply \in Replies : txns' = Noted(~Replied(reply))
    BY <1>7 DEF Query
  <2>2. (~Replied(reply)) \in BOOLEAN
    BY DEF Replied
  <2> QED  BY <1>2, <2>1, <2>2, NotedLives
<1>8. CASE Begin
  <2>1. Len(txns') = Len(txns) + 1
    BY <1>8, BeginList DEF Begin
  <2> QED  BY <1>1, <2>1
<1>9. CASE Commit \/ Rollback
  <2>1. DOMAIN txns' = DOMAIN txns
    BY <1>9 DEF Commit, Rollback
  <2>2. Len(txns') = Len(txns)
    BY <1>1, <2>1, Objects, ListFacts
  <2> QED  BY <1>1, <2>2
<1> QED  BY <1>4, <1>5, <1>6, <1>7, <1>8, <1>9 DEF Next

-----------------------------------------------------------------------------
(* SybLayer: the theorems.                                                 *)

\* What executeUpdate() reports of a write outside a transaction is true
\* (SybaseConnection.cpp:228-245).
THEOREM LayerWritesTold == Spec => []WriteReport
<1>1. TypeOK /\ Orderly => WriteReport
  BY DEF Orderly
<1> QED  BY <1>1, LayerInductive, PTL

\* Unread rows are the only way to leave a transaction level behind; the types
\* are part of it (SybaseConnection.cpp:307-332).
THEOREM LayerBalanced == Spec => []Balanced
<1>1. TypeOK /\ Orderly => Balanced
  BY DEF Orderly, Covered, Balanced
<1> QED  BY <1>1, LayerInductive, PTL

\* commit() of the outermost object that returned true made everything in its
\* life permanent, however often the server ended the transaction in between.
THEOREM LayerCommitsTold == Spec => []CommitReport
<1>1. TypeOK /\ Orderly => CommitReport
  BY DEF Orderly, OutermostHolds, CommitReport
<1> QED  BY <1>1, LayerInductive, PTL

\* The destructor undoes an active object, with the exceptions it names.
THEOREM LayerRolledBack == Spec => AutoRollback
<1>1. ASSUME TypeOK, Orderly, [Next]_vars, Len(txns') < Len(txns) PROVE Undone(Last(txns))
  BY <1>1, OthersStay, DestroyKeeps
<1>2. TypeOK /\ Orderly /\ [Next]_vars => (Len(txns') < Len(txns) => Undone(Last(txns)))
  BY <1>1
<1> QED  BY <1>2, LayerInductive, PTL DEF Spec, AutoRollback

-----------------------------------------------------------------------------
(* SybSession: the inductive invariant, with Quiet above.                  *)

\* While a call consumes its results no rows are unread, and only
\* executeUpdate() has a row on its way.
InCall ==
    /\ ~Session!Free => proc \in {"fetching", "dead"}
    /\ call.op # "update" => call.rows = {}

\* Only rows the program tried to insert are on the server.
Known == store \cup pending \subseteq used

\* The second half of Session!Balanced, through the loops as well: the level is
\* there before the object of a BEGIN, and gone before the object knows it.
Accounted ==
    Usable =>
        /\ call.op \in {"none", "update"} => level <= Cardinality(Active)
        /\ call.op = "begin" => level > 0 /\ level <= Cardinality(Active) + 1
        /\ call.op = "commit" => HasActive /\ level + 1 <= Cardinality(Active)
        /\ call.op \in {"rollback", "destroy"} => HasActive /\ level = 0

\* Every active object has a level of its own, the call in progress considered.
Whole ==
    \/ call.op \in {"none", "update"} /\ level = Cardinality(Active)
    \/ call.op = "begin" /\ level = Cardinality(Active) + 1
    \/ call.op = "commit" /\ level + 1 = Cardinality(Active)

\* As long as that is so on a usable session, no part of the outermost object's transaction is lost.
OutermostWhole ==
    1 \in DOMAIN txns =>
        /\ Usable /\ txns[1].active /\ Whole => txns[1].rows \cup call.rows \subseteq store \cup pending
        /\ txns[1].returned => ~txns[1].active /\ txns[1].rows \subseteq store

\* Only the innermost object is not nested.  Until commit() is called or a
\* statement throws it is in a transaction, unless a rollback is in progress.
InnermostUnstored ==
    \A i \in DOMAIN txns : ~txns[i].nested =>
        /\ i = Len(txns)
        /\ txns[i].active /\ ~txns[i].tried /\ ~txns[i].failed =>
               /\ (txns[i].rows \cup call.rows) \cap store = {}
               /\ level > 0 \/ proc = "dead" \/ call.op \in {"rollback", "destroy"}

Steady == Quiet /\ InCall /\ Known /\ Accounted /\ OutermostWhole /\ InnermostUnstored

-----------------------------------------------------------------------------
(* SybSession: the server and the objects.                                 *)

\* It is the same server.
LEMMA SameServer ==
  /\ Session!ServerTypeOK <=> ServerTypeOK
  /\ Session!Usable <=> Usable
  /\ Session!HasActive <=> HasActive
  /\ Session!Innermost = Innermost
  /\ Session!Replies = Replies
  /\ \A reply : /\ Session!SendBegin(reply) <=> SendBegin(reply)
                /\ Session!SendCommit(reply) <=> SendCommit(reply)
                /\ Session!SendRollback(reply) <=> SendRollback(reply)
                /\ Session!SendQuery(reply) <=> SendQuery(reply)
                /\ Session!Fetch(reply) <=> Fetch(reply)
  /\ \A r, reply : Session!SendWrite(r, reply) <=> SendWrite(r, reply)
<1>1. /\ Session!ServerTypeOK <=> ServerTypeOK
      /\ Session!Usable <=> Usable
      /\ Session!HasActive <=> HasActive
      /\ Session!Innermost = Innermost
      /\ Session!Replies = Replies
  BY DEF Session!ServerTypeOK, ServerTypeOK, Session!Usable, Usable, Session!HasActive, HasActive,
     Session!Innermost, Innermost, Session!Last, Last, Session!Replies, Replies
<1>2. ASSUME NEW reply
      PROVE  /\ Session!Unsent(reply) <=> Unsent(reply)
             /\ Session!Refused(reply) <=> Refused(reply)
             /\ Session!Victim(reply) <=> Victim(reply)
             /\ Session!Fetch(reply) <=> Fetch(reply)
             /\ \A l, rows : Session!Answered(reply, l, rows) <=> Answered(reply, l, rows)
  BY <1>1 DEF Session!Unsent, Unsent, Session!Refused, Refused, Session!Victim, Victim,
     Session!Answered, Answered, Session!Fetch, Fetch, Session!SessionEnds, SessionEnds,
     Session!SessionIs, SessionIs, Session!server, server
<1>3. ASSUME NEW reply
      PROVE  /\ Session!SendBegin(reply) <=> SendBegin(reply)
             /\ Session!SendCommit(reply) <=> SendCommit(reply)
             /\ Session!SendRollback(reply) <=> SendRollback(reply)
             /\ Session!SendQuery(reply) <=> SendQuery(reply)
             /\ \A r : Session!SendWrite(r, reply) <=> SendWrite(r, reply)
  BY <1>1, <1>2 DEF Session!SendBegin, SendBegin, Session!SendCommit, SendCommit,
     Session!SendRollback, SendRollback, Session!SendQuery, SendQuery, Session!SendWrite, SendWrite
<1> QED  BY <1>1, <1>2, <1>3

\* Something was noted in the objects: which of them are active, what they
\* wrote and what commit() said is the same, and no failure is forgotten.
Remembers(f) ==
    /\ f \in [DOMAIN txns -> Session!Txn]
    /\ \A i \in DOMAIN txns :
         /\ f[i].active = txns[i].active /\ f[i].nested = txns[i].nested
         /\ f[i].rows = txns[i].rows /\ f[i].returned = txns[i].returned
         /\ txns[i].failed => f[i].failed
         /\ txns[i].tried => f[i].tried

LEMMA RemembersFacts ==
  ASSUME txns \in Seq(Session!Txn), Remembers(txns')
  PROVE  /\ txns' \in Seq(Session!Txn) /\ Len(txns') = Len(txns) /\ DOMAIN txns' = DOMAIN txns
         /\ Active' = Active
<1>1. txns' \in Seq(Session!Txn) /\ Len(txns') = Len(txns) /\ DOMAIN txns' = DOMAIN txns
  BY ChangedList DEF Remembers
<1> QED  BY <1>1 DEF Remembers, Active

LEMMA SameRemembers ==
  ASSUME txns \in Seq(Session!Txn)
  PROVE  Remembers(txns)
BY ListFacts DEF Remembers

LEMMA NotedRemembers ==
  ASSUME txns \in Seq(Session!Txn), NEW failed \in BOOLEAN
  PROVE  /\ Remembers(Session!Noted(failed))
         /\ failed => \A i \in DOMAIN txns : Session!Noted(failed)[i].failed
<1>1. \A i \in DOMAIN txns : txns[i] \in Session!Txn
  BY ListFacts
<1> QED  BY <1>1 DEF Session!Noted, Remembers, Session!Txn

\* commit() notes in the innermost object that it was called.
Tries == txns' = [txns EXCEPT ![Innermost].tried = TRUE]

LEMMA TriesRemembers ==
  ASSUME txns \in Seq(Session!Txn), HasActive, Tries
  PROVE  Remembers(txns') /\ txns'[Len(txns)].tried
<1> DEFINE n == Len(txns)
           u == [txns[n] EXCEPT !.tried = TRUE]
<1>1. n \in DOMAIN txns /\ txns[n] \in Session!Txn /\ txns \in [DOMAIN txns -> Session!Txn]
  BY ListFacts DEF HasActive, Innermost
<1>2. txns' = [txns EXCEPT ![n] = u]
  BY <1>1 DEF Tries, Innermost
<1>3. /\ u \in Session!Txn /\ u.tried /\ u.active = txns[n].active /\ u.nested = txns[n].nested
      /\ u.rows = txns[n].rows /\ u.returned = txns[n].returned /\ u.failed = txns[n].failed
  BY <1>1 DEF Session!Txn
<1> HIDE DEF u
<1> QED  BY <1>1, <1>2, <1>3 DEF Remembers

\* A new object is active, and every other one is nested.
LEMMA NewList ==
  ASSUME txns \in Seq(Session!Txn),
         txns' = Append([i \in DOMAIN txns |-> [txns[i] EXCEPT !.nested = TRUE]], Session!NewTxn)
  PROVE  LET n == Len(txns)
         IN  /\ txns' \in Seq(Session!Txn) /\ Len(txns') = n + 1 /\ DOMAIN txns' = 1 .. n + 1
             /\ txns'[n + 1] = Session!NewTxn
             /\ \A i \in DOMAIN txns :
                  /\ txns'[i].nested /\ txns'[i].active = txns[i].active
                  /\ txns'[i].rows = txns[i].rows /\ txns'[i].returned = txns[i].returned
             /\ Cardinality(Active') = Cardinality(Active) + 1
<1> DEFINE f == [i \in DOMAIN txns |-> [txns[i] EXCEPT !.nested = TRUE]]
           n == Len(txns)
<1>1. /\ n \in Nat /\ DOMAIN txns = 1 .. n /\ Active \subseteq 1 .. n
      /\ \A i \in DOMAIN txns : txns[i] \in Session!Txn
  BY ObjectsOf
<1>2. /\ f \in [DOMAIN txns -> Session!Txn]
      /\ \A i \in DOMAIN txns :
              /\ f[i].nested /\ f[i].active = txns[i].active
              /\ f[i].rows = txns[i].rows /\ f[i].returned = txns[i].returned
  BY <1>1 DEF Session!Txn
<1>3. Session!NewTxn \in Session!Txn /\ Session!NewTxn.active = TRUE
  BY DEF Session!NewTxn, Session!Txn
<1>4. txns' = Append(f, Session!NewTxn)
  OBVIOUS
<1> HIDE DEF f
<1>5. f \in Seq(Session!Txn) /\ Len(f) = n
  BY <1>2, ChangedList
<1>6. /\ txns' \in Seq(Session!Txn) /\ Len(txns') = n + 1 /\ DOMAIN txns' = 1 .. n + 1
      /\ txns'[n + 1] = Session!NewTxn /\ \A i \in 1 .. n : txns'[i] = f[i]
  BY <1>3, <1>4, <1>5, PushedList
<1>7. Active' = Active \cup {n + 1}
  BY <1>1, <1>2, <1>3, <1>6 DEF Active
<1>8. Cardinality(Active') = Cardinality(Active) + 1
  BY <1>1, <1>7, CountFacts
<1> QED  BY <1>1, <1>2, <1>6, <1>8

\* commit() or rollback() returns.
Closes(returned) ==
    \/ returned /\ txns' = [txns EXCEPT ![Innermost].active = FALSE, ![Innermost].returned = TRUE]
    \/ ~returned /\ txns' = [txns EXCEPT ![Innermost].active = FALSE]

LEMMA ClosesFacts ==
  ASSUME txns \in Seq(Session!Txn), HasActive, NEW returned \in BOOLEAN, Closes(returned)
  PROVE  \E u \in Session!Txn :
            /\ ~u.active /\ u.nested = Last(txns).nested /\ u.rows = Last(txns).rows
            /\ u.returned => returned \/ Last(txns).returned
            /\ txns' = [txns EXCEPT ![Innermost] = u]
<1> DEFINE n == Innermost
           t == Last(txns)
           v == [t EXCEPT !.active = FALSE]
           w == [v EXCEPT !.returned = TRUE]
<1>1. t \in Session!Txn /\ n \in DOMAIN txns /\ txns[n] = t
  <2>1. Len(txns) \in Nat /\ Len(txns) > 0 /\ DOMAIN txns = 1 .. Len(txns)
    BY ObjectsOf DEF HasActive, Innermost
  <2>2. Last(txns) = txns[Len(txns)]
    BY <2>1, PoppedList
  <2> QED  BY <2>1, <2>2, ObjectsOf DEF Innermost
<1>2. \/ returned /\ txns' = [txns EXCEPT ![n] = w]
      \/ ~returned /\ txns' = [txns EXCEPT ![n] = v]
  <2> HIDE DEF n, t
  <2>1. CASE returned /\ txns' = [txns EXCEPT ![Innermost].active = FALSE, ![Innermost].returned = TRUE]
    BY <1>1, <2>1 DEF n
  <2>2. CASE ~returned /\ txns' = [txns EXCEPT ![Innermost].active = FALSE]
    BY <1>1, <2>2 DEF n
  <2> QED  BY <2>1, <2>2 DEF t, Closes
<1> HIDE DEF t
<1>3. /\ v \in Session!Txn /\ ~v.active
      /\ v.nested = t.nested /\ v.rows = t.rows /\ v.returned = t.returned
  BY <1>1 DEF Session!Txn
<1> HIDE DEF v
<1>4. w \in Session!Txn /\ ~w.active /\ w.nested = t.nested /\ w.rows = t.rows
  BY <1>3 DEF Session!Txn
<1> HIDE DEF w, n
<1>5. CASE returned /\ txns' = [txns EXCEPT ![n] = w]
  BY <1>4, <1>5 DEF t, n
<1>6. CASE ~returned /\ txns' = [txns EXCEPT ![n] = v]
  BY <1>3, <1>6 DEF t, n
<1> QED  BY <1>2, <1>5, <1>6

\* executeUpdate() returns: its row belongs to every active object.
Inserts ==
    txns' = [i \in DOMAIN txns |->
                IF txns[i].active THEN [txns[i] EXCEPT !.rows = @ \cup call.rows] ELSE txns[i]]

LEMMA InsertsFacts ==
  ASSUME txns \in Seq(Session!Txn), call.rows \subseteq Rows, Inserts
  PROVE  /\ txns' \in Seq(Session!Txn) /\ Len(txns') = Len(txns) /\ DOMAIN txns' = DOMAIN txns
         /\ Active' = Active
         /\ \A i \in DOMAIN txns :
              /\ txns'[i].active = txns[i].active /\ txns'[i].nested = txns[i].nested
              /\ txns'[i].returned = txns[i].returned /\ txns'[i].tried = txns[i].tried
              /\ txns'[i].failed = txns[i].failed
              /\ txns'[i].rows \subseteq txns[i].rows \cup call.rows
              /\ ~txns[i].active => txns'[i].rows = txns[i].rows
<1>1. ASSUME NEW i \in DOMAIN txns
      PROVE  /\ txns'[i] \in Session!Txn
             /\ txns'[i].active = txns[i].active /\ txns'[i].nested = txns[i].nested
             /\ txns'[i].returned = txns[i].returned /\ txns'[i].tried = txns[i].tried
             /\ txns'[i].failed = txns[i].failed
             /\ txns'[i].rows \subseteq txns[i].rows \cup call.rows
             /\ ~txns[i].active => txns'[i].rows = txns[i].rows
  <2> DEFINE u == [txns[i] EXCEPT !.rows = txns[i].rows \cup call.rows]
  <2>1. txns[i] \in Session!Txn
    BY ListFacts
  <2>2. /\ u \in Session!Txn /\ u.active = txns[i].active /\ u.nested = txns[i].nested
        /\ u.returned = txns[i].returned /\ u.tried = txns[i].tried /\ u.failed = txns[i].failed
        /\ u.rows = txns[i].rows \cup call.rows
    BY <2>1 DEF Session!Txn
  <2>3. txns'[i] = IF txns[i].active THEN u ELSE txns[i]
    BY DEF Inserts
  <2> HIDE DEF u
  <2> QED  BY <2>1, <2>2, <2>3
<1>2. txns' \in [DOMAIN txns -> Session!Txn]
  BY <1>1 DEF Inserts
<1>3. txns' \in Seq(Session!Txn) /\ Len(txns') = Len(txns) /\ DOMAIN txns' = DOMAIN txns
  BY <1>2, ChangedList
<1> QED  BY <1>1, <1>3 DEF Active

-----------------------------------------------------------------------------
(* SybSession: every step keeps the invariant.                             *)

\* What a call on the process says about it.
LEMMA Sent ==
  ASSUME ServerTypeOK, Quiet, NEW reply,
         \/ SendBegin(reply) \/ SendCommit(reply) \/ SendRollback(reply)
         \/ SendQuery(reply) \/ \E r \in Rows : SendWrite(r, reply)
  PROVE  /\ reply \in Replies
         /\ Usable' => Usable
         /\ proc = "dead" => proc' = "dead"
         /\ reply = "succeed" => Usable /\ (SendQuery(reply) \/ proc' = "fetching")
<1>1. CASE SendBegin(reply) \/ SendCommit(reply)
  BY <1>1 DEF SendBegin, SendCommit, Unsent, Refused, Answered, SessionIs, SessionEnds, Usable,
     server, Replies
<1>2. CASE SendRollback(reply)
  BY <1>2 DEF SendRollback, Unsent, Refused, Answered, SessionIs, SessionEnds, Usable, server, Replies
<1>3. CASE SendQuery(reply)
  BY <1>3 DEF SendQuery, Unsent, Refused, Victim, SessionIs, SessionEnds, Usable, server, Replies
<1>4. ASSUME NEW r \in Rows, SendWrite(r, reply)
      PROVE  /\ reply \in Replies
             /\ Usable' => Usable
             /\ proc = "dead" => proc' = "dead"
             /\ reply = "succeed" => Usable /\ proc' = "fetching"
  BY <1>4 DEF SendWrite, Unsent, Refused, Victim, Answered, SessionIs,
     SessionEnds, Usable, server, Replies
<1> QED  BY <1>1, <1>2, <1>3, <1>4

\* A ROLLBACK that is not answered finds no transaction or ends the session,
\* unless it could not be sent.
LEMMA RollbackFails ==
  ASSUME ServerTypeOK, Quiet, SendRollback("fail")
  PROVE  proc' = "dead" \/ (UNCHANGED server /\ (Usable => level = 0))
BY DEF SendRollback, Unsent, Refused, Answered, SessionIs, SessionEnds, Usable, server

\* No call in progress or to come: nothing is stored that an object without
\* commit() or a failure in its life has written.
LEMMA ThrowsKeep ==
  ASSUME Session!TypeOK, Steady, Session!Free, call' = Session!NoCall, Remembers(txns'),
         used' \subseteq Rows, ServerTypeOK', Quiet',
         store \subseteq store', store' \cup pending' \subseteq used',
         level' \in {0, level}, Usable' => Usable, proc = "dead" => proc' = "dead",
         Usable' /\ level' = level /\ level > 0 => pending \subseteq pending',
         \/ store' = store /\ (level' = level \/ proc' = "dead")
         \/ 0 < Len(txns) => txns'[Len(txns)].failed \/ txns'[Len(txns)].tried
  PROVE  Session!TypeOK' /\ Steady'
<1>1. call.op = "none" /\ call.rows = {} /\ call'.op = "none" /\ call'.rows = {}
  BY DEF Session!Free, Session!NoCall, Steady, InCall
<1>2. /\ txns \in Seq(Session!Txn) /\ txns' \in Seq(Session!Txn)
      /\ Len(txns') = Len(txns) /\ DOMAIN txns' = DOMAIN txns /\ Active' = Active
  BY RemembersFacts DEF Session!TypeOK
<1>3. /\ level \in Nat /\ Cardinality(Active) \in Nat /\ Len(txns) \in Nat
      /\ DOMAIN txns = 1 .. Len(txns) /\ Active \subseteq 1 .. Len(txns)
  BY <1>2, ObjectsOf DEF Session!TypeOK, Session!ServerTypeOK
<1>4. \A i \in DOMAIN txns :
         /\ txns'[i].active = txns[i].active /\ txns'[i].nested = txns[i].nested
         /\ txns'[i].rows = txns[i].rows /\ txns'[i].returned = txns[i].returned
         /\ txns[i].failed => txns'[i].failed
         /\ txns[i].tried => txns'[i].tried
  BY DEF Remembers
<1>5. Session!TypeOK'
  <2>1. call' \in Session!Call
    BY DEF Session!NoCall, Session!Call
  <2> QED  BY <1>2, <2>1, SameServer DEF Session!TypeOK, ServerTypeOK, Session!ServerTypeOK
<1>6. InCall' /\ Known'
  BY <1>1 DEF InCall, Known, Session!Free
<1>7. Accounted'
  BY <1>1, <1>2, <1>3 DEF Steady, Accounted
<1>8. OutermostWhole'
  <2> SUFFICES ASSUME 1 \in DOMAIN txns'
               PROVE  /\ Usable' /\ txns'[1].active /\ Whole' =>
                            txns'[1].rows \cup call'.rows \subseteq store' \cup pending'
                      /\ txns'[1].returned => ~txns'[1].active /\ txns'[1].rows \subseteq store'
    BY DEF OutermostWhole
  <2>1. ASSUME Usable', txns[1].active, Whole' PROVE Whole /\ pending \subseteq pending' /\ Usable
    <3>1. level' = Cardinality(Active)
      BY <1>1, <1>2, <2>1 DEF Whole
    <3>2. 1 \in Active
      BY <1>2, <2>1 DEF Active
    <3>3. Cardinality(Active) # 0
      BY <1>3, <3>2, CountFacts
    <3> QED  BY <1>1, <1>3, <2>1, <3>1, <3>3 DEF Whole
  <2> QED  BY <1>1, <1>2, <1>4, <2>1 DEF Steady, OutermostWhole
<1>9. InnermostUnstored'
  <2> SUFFICES ASSUME NEW i \in DOMAIN txns', ~txns'[i].nested
               PROVE  /\ i = Len(txns')
                      /\ txns'[i].active /\ ~txns'[i].tried /\ ~txns'[i].failed =>
                           /\ (txns'[i].rows \cup call'.rows) \cap store' = {}
                           /\ level' > 0 \/ proc' = "dead" \/ call'.op \in {"rollback", "destroy"}
    BY DEF InnermostUnstored
  <2>1. i \in DOMAIN txns /\ ~txns[i].nested
    BY <1>2, <1>4
  <2>2. /\ i = Len(txns)
        /\ txns[i].active /\ ~txns[i].tried /\ ~txns[i].failed =>
             txns[i].rows \cap store = {} /\ (level > 0 \/ proc = "dead")
    BY <1>1, <2>1 DEF Steady, InnermostUnstored
  <2>3. 0 < Len(txns)
    BY <1>3, <2>1
  <2>4. CASE txns'[i].failed \/ txns'[i].tried
    BY <1>2, <2>2, <2>4
  <2>5. CASE ~txns'[i].failed /\ ~txns'[i].tried
    BY <1>1, <1>2, <1>4, <2>1, <2>2, <2>3, <2>5
  <2> QED  BY <2>4, <2>5
<1> QED  BY <1>5, <1>6, <1>7, <1>8, <1>9 DEF Steady

\* A command was answered: the call consumes its results.
LEMMA GoesKeep ==
  ASSUME Session!TypeOK, Steady, Session!Free, Usable,
         NEW op \in {"begin", "commit", "rollback", "destroy", "update"}, NEW rows \in SUBSET Rows,
         call' = [op |-> op, rows |-> rows], Remembers(txns'),
         used' \subseteq Rows, ServerTypeOK', Quiet', proc' = "fetching",
         store \subseteq store', store' \cup pending' \subseteq used', op # "update" => rows = {},
         op = "begin" => level' = level + 1 /\ store' = store /\ pending' = pending,
         op = "commit" => /\ HasActive /\ level > 0 /\ level' = level - 1
                          /\ store \cup pending \subseteq store' \cup pending'
                          /\ txns'[Len(txns)].tried,
         op \in {"rollback", "destroy"} => HasActive /\ level' = 0 /\ store' = store,
         op = "update" => /\ level' = level /\ rows \cap store = {}
                          /\ IF level = 0 THEN store' = store \cup rows
                             ELSE store' = store /\ pending' = pending \cup rows
  PROVE  Session!TypeOK' /\ Steady'
<1>1. call.op = "none" /\ call.rows = {} /\ call'.op = op /\ call'.rows = rows
  BY DEF Session!Free, Steady, InCall
<1>2. /\ txns \in Seq(Session!Txn) /\ txns' \in Seq(Session!Txn)
      /\ Len(txns') = Len(txns) /\ DOMAIN txns' = DOMAIN txns /\ Active' = Active
  BY RemembersFacts DEF Session!TypeOK
<1>3. /\ level \in Nat /\ Cardinality(Active) \in Nat /\ Len(txns) \in Nat
      /\ DOMAIN txns = 1 .. Len(txns) /\ Active \subseteq 1 .. Len(txns)
  BY <1>2, ObjectsOf DEF Session!TypeOK, Session!ServerTypeOK
<1>4. \A i \in DOMAIN txns :
         /\ txns'[i].active = txns[i].active /\ txns'[i].nested = txns[i].nested
         /\ txns'[i].rows = txns[i].rows /\ txns'[i].returned = txns[i].returned
         /\ txns[i].failed => txns'[i].failed
         /\ txns[i].tried => txns'[i].tried
  BY DEF Remembers
<1>5. Session!TypeOK'
  <2>1. call' \in Session!Call
    BY DEF Session!Call
  <2> QED  BY <1>2, <2>1, SameServer DEF Session!TypeOK, ServerTypeOK, Session!ServerTypeOK
<1>6. InCall' /\ Known'
  BY <1>1 DEF InCall, Known, Session!Free
<1>7. HasActive => HasActive' /\ Cardinality(Active) > 0
  <2> SUFFICES ASSUME HasActive PROVE HasActive' /\ Cardinality(Active) > 0
    OBVIOUS
  <2>1. Len(txns) > 0
    BY DEF HasActive, Innermost
  <2>2. Last(txns) = txns[Len(txns)] /\ Last(txns)' = txns'[Len(txns)]
    BY <1>2, <2>1, PoppedList
  <2>3. txns[Len(txns)].active
    BY <2>2 DEF HasActive
  <2>4. HasActive'
    BY <1>2, <1>3, <1>4, <2>1, <2>2, <2>3 DEF HasActive, Innermost
  <2>5. Len(txns) \in Active
    BY <1>3, <2>1, <2>3 DEF Active
  <2> QED  BY <1>3, <2>4, <2>5, CountFacts
<1>8. level <= Cardinality(Active)
  BY <1>1 DEF Steady, Accounted
<1>9. Accounted'
  BY <1>1, <1>2, <1>3, <1>7, <1>8 DEF Accounted
<1>10. OutermostWhole'
  <2> SUFFICES ASSUME 1 \in DOMAIN txns'
               PROVE  /\ txns'[1].active /\ Whole' =>
                            txns'[1].rows \cup call'.rows \subseteq store' \cup pending'
                      /\ txns'[1].returned => ~txns'[1].active /\ txns'[1].rows \subseteq store'
    BY DEF OutermostWhole
  <2>1. Whole' => Whole /\ op \in {"begin", "commit", "update"}
    BY <1>1, <1>2, <1>3, <1>8 DEF Whole
  <2>2. Whole' /\ txns'[1].active => txns[1].rows \subseteq store \cup pending
    BY <1>2, <1>4, <2>1 DEF Steady, OutermostWhole
  <2>3. Whole' /\ txns'[1].active => level = Cardinality(Active) /\ level # 0
    <3> SUFFICES ASSUME Whole', txns'[1].active PROVE level = Cardinality(Active) /\ level # 0
      OBVIOUS
    <3>1. level = Cardinality(Active)
      BY <1>1, <2>1 DEF Whole
    <3>2. 1 \in Active
      BY <1>2, <1>4 DEF Active
    <3> QED  BY <1>3, <3>1, <3>2, CountFacts
  <2>4. Whole' /\ txns'[1].active => store \cup pending \cup rows \subseteq store' \cup pending'
    BY <2>1, <2>3
  <2> QED  BY <1>1, <1>2, <1>4, <2>2, <2>4 DEF Steady, OutermostWhole
<1>11. InnermostUnstored'
  <2> SUFFICES ASSUME NEW i \in DOMAIN txns', ~txns'[i].nested
               PROVE  /\ i = Len(txns')
                      /\ txns'[i].active /\ ~txns'[i].tried /\ ~txns'[i].failed =>
                           /\ (txns'[i].rows \cup rows) \cap store' = {}
                           /\ level' > 0 \/ op \in {"rollback", "destroy"}
    BY <1>1 DEF InnermostUnstored
  <2>1. i \in DOMAIN txns /\ ~txns[i].nested
    BY <1>2, <1>4
  <2>2. /\ i = Len(txns)
        /\ txns[i].active /\ ~txns[i].tried /\ ~txns[i].failed =>
             txns[i].rows \cap store = {} /\ level > 0
    BY <1>1, <2>1 DEF Steady, InnermostUnstored, Usable
  <2> QED  BY <1>2, <1>3, <1>4, <2>1, <2>2
<1> QED  BY <1>5, <1>6, <1>9, <1>10, <1>11 DEF Steady

\* A call that waits never hears of the end: it still has what it waited for.
LEMMA LostKeeps ==
  ASSUME Session!TypeOK, Steady, ~Session!Free, UNCHANGED <<store, txns, call, used>>,
         proc' = "dead", level' = 0, pending' = {}
  PROVE  Session!TypeOK' /\ Steady'
<1>1. Session!TypeOK' /\ Quiet' /\ Known' /\ InCall'
  BY DEF Session!TypeOK, Session!ServerTypeOK, Steady, Quiet, Known, InCall, Session!Free
<1>2. Accounted' /\ OutermostWhole' /\ InnermostUnstored'
  BY DEF Steady, Accounted, OutermostWhole, InnermostUnstored, Usable
<1> QED  BY <1>1, <1>2 DEF Steady

LEMMA StutterKeeps ==
  ASSUME Session!TypeOK, Steady, UNCHANGED Session!vars
  PROVE  Session!TypeOK' /\ Steady'
<1>1. UNCHANGED <<proc, level, store, pending, txns, call, used>>
  BY DEF Session!vars
<1>2. Session!TypeOK' /\ Quiet' /\ Known' /\ InCall'
  BY <1>1 DEF Session!TypeOK, Session!ServerTypeOK, Steady, Quiet, Known, InCall, Session!Free
<1>3. Active' = Active /\ (HasActive' <=> HasActive)
  BY <1>1 DEF Active, HasActive, Innermost
<1>4. Accounted' /\ OutermostWhole' /\ InnermostUnstored'
  BY <1>1, <1>3 DEF Steady, Accounted, OutermostWhole, InnermostUnstored, Usable, Whole
<1> QED  BY <1>2, <1>4 DEF Steady

\* The innermost object goes out of scope; on a usable session it leaves no
\* level behind.
LEMMA DropKeeps ==
  ASSUME Session!TypeOK, Steady, call.op \in {"none", "destroy"}, call' = Session!NoCall,
         Innermost > 0, txns' = Front(txns), used' = used, store' = store,
         ServerTypeOK', Quiet', pending' \subseteq pending,
         Usable' => Usable /\ level' = level /\ pending' = pending /\ (HasActive => level = 0)
  PROVE  Session!TypeOK' /\ Steady' /\ Session!Undone(Last(txns))
<1> DEFINE n == Len(txns)
<1>1. txns \in Seq(Session!Txn)
  BY DEF Session!TypeOK
<1>2. /\ n \in Nat /\ n > 0 /\ Last(txns) = txns[n] /\ n \in DOMAIN txns
      /\ txns' \in Seq(Session!Txn) /\ Len(txns') = n - 1 /\ DOMAIN txns' = 1 .. n - 1
      /\ \A i \in 1 .. n - 1 : txns'[i] = txns[i]
      /\ txns[n].active => Cardinality(Active') = Cardinality(Active) - 1
      /\ ~txns[n].active => Active' = Active
  BY <1>1, DestroyList
<1>3. /\ Cardinality(Active) \in Nat /\ DOMAIN txns = 1 .. n /\ level \in Nat
      /\ Cardinality(Active') \in Nat /\ (1 \in Active' => Cardinality(Active') # 0)
  <2>1. n - 1 \in Nat /\ Active' \in SUBSET (1 .. n - 1)
    BY <1>2 DEF Active
  <2>2. Cardinality(Active') \in Nat /\ (1 \in Active' => Cardinality(Active') # 0)
    BY <2>1, CountFacts
  <2> QED  BY <1>1, <2>2, ObjectsOf DEF Session!TypeOK, Session!ServerTypeOK
<1> HIDE DEF n
<1>4. call'.op = "none" /\ call'.rows = {} /\ (HasActive <=> txns[n].active)
  BY <1>2 DEF Session!NoCall, HasActive, Innermost, n
<1>5. Session!TypeOK'
  <2>1. call' \in Session!Call
    BY DEF Session!NoCall, Session!Call
  <2> QED  BY <1>2, <2>1, SameServer DEF Session!TypeOK, ServerTypeOK, Session!ServerTypeOK
<1>6. InCall' /\ Known'
  BY <1>4 DEF InCall, Known, Session!Free, Steady
<1>7. Usable' => level' <= Cardinality(Active') /\ (txns[n].active => level' = 0)
  BY <1>2, <1>3, <1>4 DEF Steady, Accounted
<1>8. Accounted'
  BY <1>4, <1>7 DEF Accounted
<1>9. OutermostWhole'
  <2> SUFFICES ASSUME 1 \in DOMAIN txns'
               PROVE  /\ Usable' /\ txns'[1].active /\ Whole' =>
                            txns'[1].rows \cup call'.rows \subseteq store' \cup pending'
                      /\ txns'[1].returned => ~txns'[1].active /\ txns'[1].rows \subseteq store'
    BY DEF OutermostWhole
  <2>1. txns'[1] = txns[1] /\ 1 \in DOMAIN txns
    BY <1>2, <1>3
  <2>2. ASSUME Usable', txns[1].active, Whole' PROVE Whole
    <3>1. level' = Cardinality(Active')
      BY <1>4, <2>2 DEF Whole
    <3>2. 1 \in Active'
      BY <2>1, <2>2 DEF Active
    <3>3. ~txns[n].active
      BY <1>3, <1>7, <2>2, <3>1, <3>2
    <3>4. call.op # "destroy"
      BY <1>4, <2>2, <3>3 DEF Steady, Accounted
    <3> QED  BY <1>2, <2>2, <3>1, <3>3, <3>4 DEF Whole
  <2> QED  BY <1>4, <2>1, <2>2 DEF Steady, OutermostWhole
<1>10. InnermostUnstored'
  <2> SUFFICES ASSUME NEW i \in DOMAIN txns' PROVE txns'[i].nested
    BY DEF InnermostUnstored
  <2> QED  BY <1>2, <1>3 DEF Steady, InnermostUnstored, n
<1>11. Session!Undone(Last(txns))
  <2>1. txns[n].active /\ ~txns[n].tried /\ ~txns[n].failed /\ ~txns[n].nested =>
            txns[n].rows \cap store = {}
    BY <1>2 DEF Steady, InnermostUnstored
  <2> QED  BY <1>2, <2>1 DEF Session!Undone
<1> QED  BY <1>5, <1>6, <1>8, <1>9, <1>10, <1>11 DEF Steady

\* The last result of a call was consumed, and nothing else happened.
Drained ==
    /\ proc = "fetching" /\ proc' = "ready"
    /\ UNCHANGED <<level, store, pending, used>>
    /\ call' = Session!NoCall

LEMMA DrainedFacts ==
  ASSUME Session!TypeOK, Steady, Drained, txns' \in Seq(Session!Txn)
  PROVE  /\ Session!TypeOK' /\ Quiet' /\ InCall' /\ Known' /\ Usable /\ Usable'
         /\ call'.op = "none" /\ call'.rows = {}
         /\ level \in Nat /\ Cardinality(Active) \in Nat /\ Len(txns) \in Nat
         /\ DOMAIN txns = 1 .. Len(txns) /\ Active \subseteq 1 .. Len(txns)
<1>1. call' \in Session!Call /\ call'.op = "none" /\ call'.rows = {}
  BY DEF Drained, Session!NoCall, Session!Call
<1>2. Session!TypeOK' /\ level \in Nat
  BY <1>1 DEF Drained, Session!TypeOK, Session!ServerTypeOK
<1>3. Quiet' /\ InCall' /\ Known' /\ Usable /\ Usable'
  BY <1>1 DEF Drained, Steady, Quiet, InCall, Known, Usable, Session!Free
<1>4. txns \in Seq(Session!Txn)
  BY DEF Session!TypeOK
<1> QED  BY <1>1, <1>2, <1>3, <1>4, ObjectsOf

\* The constructor returns.
LEMMA BegunKeeps ==
  ASSUME Session!TypeOK, Steady, call.op = "begin", Drained,
         txns' = Append([i \in DOMAIN txns |-> [txns[i] EXCEPT !.nested = TRUE]], Session!NewTxn)
  PROVE  Session!TypeOK' /\ Steady'
<1> DEFINE n == Len(txns)
<1>1. /\ txns' \in Seq(Session!Txn) /\ Len(txns') = n + 1 /\ DOMAIN txns' = 1 .. n + 1
      /\ txns'[n + 1] = Session!NewTxn
      /\ \A i \in DOMAIN txns :
              /\ txns'[i].nested /\ txns'[i].active = txns[i].active
              /\ txns'[i].rows = txns[i].rows /\ txns'[i].returned = txns[i].returned
      /\ Cardinality(Active') = Cardinality(Active) + 1
  BY NewList DEF Session!TypeOK
<1>2. /\ Session!TypeOK' /\ Quiet' /\ InCall' /\ Known' /\ Usable /\ Usable'
      /\ call'.op = "none" /\ call'.rows = {}
      /\ level \in Nat /\ Cardinality(Active) \in Nat /\ n \in Nat /\ DOMAIN txns = 1 .. n
  BY <1>1, DrainedFacts
<1> HIDE DEF n
<1>3. level > 0 /\ level' <= Cardinality(Active')
  BY <1>1, <1>2 DEF Steady, Accounted, Drained
<1>4. Accounted'
  BY <1>2, <1>3 DEF Accounted
<1>5. Session!NewTxn.rows = {} /\ ~Session!NewTxn.returned
  BY DEF Session!NewTxn
<1>6. OutermostWhole'
  <2> SUFFICES ASSUME 1 \in DOMAIN txns'
               PROVE  /\ txns'[1].active /\ Whole' =>
                            txns'[1].rows \cup call'.rows \subseteq store' \cup pending'
                      /\ txns'[1].returned => ~txns'[1].active /\ txns'[1].rows \subseteq store'
    BY DEF OutermostWhole
  <2>1. CASE n = 0
    BY <1>1, <1>2, <1>5, <2>1
  <2>2. CASE n # 0
    <3>1. 1 \in DOMAIN txns
      BY <1>2, <2>2
    <3>2. Whole' => Whole
      BY <1>1, <1>2 DEF Whole, Drained
    <3> QED  BY <1>1, <1>2, <3>1, <3>2 DEF Steady, OutermostWhole, Drained
  <2> QED  BY <2>1, <2>2
<1>7. InnermostUnstored'
  <2> SUFFICES ASSUME NEW i \in DOMAIN txns', ~txns'[i].nested
               PROVE  i = Len(txns') /\ txns'[i].rows \cup call'.rows = {} /\ level' > 0
    BY DEF InnermostUnstored
  <2>1. i = n + 1
    BY <1>1, <1>2
  <2> QED  BY <1>1, <1>2, <1>3, <1>5, <2>1 DEF Drained
<1> QED  BY <1>2, <1>4, <1>6, <1>7 DEF Steady

\* commit() or rollback() returns.
LEMMA ClosedKeeps ==
  ASSUME Session!TypeOK, Steady, call.op \in {"commit", "rollback"}, Drained,
         Closes(call.op = "commit")
  PROVE  Session!TypeOK' /\ Steady'
<1> DEFINE n == Len(txns)
<1>1. txns \in Seq(Session!Txn) /\ HasActive
  BY DEF Session!TypeOK, Drained, Steady, Accounted, Usable
<1>2. PICK u \in Session!Txn :
        /\ ~u.active /\ u.nested = Last(txns).nested /\ u.rows = Last(txns).rows
        /\ u.returned => call.op = "commit" \/ Last(txns).returned
        /\ txns' = [txns EXCEPT ![Innermost] = u]
  <2>1. (call.op = "commit") \in BOOLEAN
    OBVIOUS
  <2> QED  BY <1>1, <2>1, ClosesFacts
<1>3. /\ n \in 1 .. n /\ Last(txns) = txns[n] /\ txns[n].active
      /\ txns' \in Seq(Session!Txn) /\ Len(txns') = n /\ DOMAIN txns' = 1 .. n
      /\ txns'[n] = u /\ \A i \in 1 .. n - 1 : txns'[i] = txns[i]
      /\ Active' = Active \ {n} /\ n \in Active
      /\ Cardinality(Active') = Cardinality(Active) - 1
  BY <1>1, <1>2, EndList
<1>4. /\ Session!TypeOK' /\ Quiet' /\ InCall' /\ Known' /\ Usable /\ Usable'
      /\ call'.op = "none" /\ call'.rows = {}
      /\ level \in Nat /\ Cardinality(Active) \in Nat /\ n \in Nat /\ DOMAIN txns = 1 .. n
      /\ Active \subseteq 1 .. n
  BY <1>3, DrainedFacts
<1> HIDE DEF n
<1>5. /\ level' = level /\ store' = store /\ pending' = pending
      /\ call.op = "commit" => level + 1 <= Cardinality(Active)
      /\ call.op = "rollback" => level = 0
  BY <1>4 DEF Drained, Steady, Accounted
<1>6. Cardinality(Active) > 0 /\ Cardinality(Active') \in Nat
      /\ (1 \in Active' => Cardinality(Active') # 0)
  <2>1. Active' \in SUBSET (1 .. n)
    BY <1>3, <1>4
  <2> QED  BY <1>3, <1>4, <2>1, CountFacts
<1>7. Accounted'
  BY <1>3, <1>4, <1>5, <1>6 DEF Accounted
<1>8. OutermostWhole'
  <2> SUFFICES ASSUME 1 \in DOMAIN txns'
               PROVE  /\ txns'[1].active /\ Whole' =>
                            txns'[1].rows \cup call'.rows \subseteq store' \cup pending'
                      /\ txns'[1].returned => ~txns'[1].active /\ txns'[1].rows \subseteq store'
    BY DEF OutermostWhole
  <2>1. CASE n = 1
    <3>1. ~Last(txns).returned
      BY <1>3, <1>4, <2>1 DEF Steady, OutermostWhole
    <3>2. ASSUME call.op = "commit" PROVE txns[1].rows \subseteq store
      <4>1. Active' = {}
        BY <1>3, <1>4, <2>1
      <4>2. Cardinality(Active') = 0
        BY <4>1, FS_EmptySet
      <4>3. level = 0 /\ level + 1 = Cardinality(Active)
        BY <1>3, <1>4, <1>5, <3>2, <4>2
      <4>4. Whole /\ pending = {}
        BY <3>2, <4>3 DEF Whole, Steady, Quiet
      <4>5. txns[1].rows \subseteq store \cup pending
        BY <1>3, <1>4, <2>1, <4>4 DEF Steady, OutermostWhole
      <4> QED  BY <4>4, <4>5
    <3> QED  BY <1>2, <1>3, <1>5, <2>1, <3>1, <3>2
  <2>2. CASE n # 1
    <3>1. txns'[1] = txns[1] /\ 1 \in DOMAIN txns
      BY <1>3, <1>4, <2>2
    <3>2. ASSUME txns[1].active, Whole' PROVE Whole
      <4>1. level = Cardinality(Active')
        BY <1>4, <1>5, <3>2 DEF Whole
      <4>2. 1 \in Active'
        BY <1>4, <2>2, <3>1, <3>2, <1>3 DEF Active
      <4> QED  BY <1>3, <1>4, <1>5, <1>6, <4>1, <4>2 DEF Whole
    <3> QED  BY <1>4, <1>5, <3>1, <3>2 DEF Steady, OutermostWhole
  <2> QED  BY <2>1, <2>2
<1>9. InnermostUnstored'
  <2> SUFFICES ASSUME NEW i \in DOMAIN txns', ~txns'[i].nested
               PROVE  i = n /\ ~txns'[i].active
    BY <1>3 DEF InnermostUnstored
  <2>1. i \in 1 .. n - 1 => txns[i].nested
    BY <1>3, <1>4 DEF Steady, InnermostUnstored, n
  <2> QED  BY <1>2, <1>3, <1>4, <2>1
<1> QED  BY <1>4, <1>7, <1>8, <1>9 DEF Steady

\* executeUpdate() returns.
LEMMA InsertedKeeps ==
  ASSUME Session!TypeOK, Steady, call.op = "update", Drained, Inserts
  PROVE  Session!TypeOK' /\ Steady'
<1>1. /\ txns' \in Seq(Session!Txn) /\ Len(txns') = Len(txns) /\ DOMAIN txns' = DOMAIN txns
      /\ Active' = Active
      /\ \A i \in DOMAIN txns :
              /\ txns'[i].active = txns[i].active /\ txns'[i].nested = txns[i].nested
              /\ txns'[i].returned = txns[i].returned /\ txns'[i].tried = txns[i].tried
              /\ txns'[i].failed = txns[i].failed
              /\ txns'[i].rows \subseteq txns[i].rows \cup call.rows
              /\ ~txns[i].active => txns'[i].rows = txns[i].rows
  <2>1. call.rows \subseteq Rows
    BY DEF Session!TypeOK, Session!Call
  <2> QED  BY <2>1, InsertsFacts DEF Session!TypeOK
<1>2. /\ Session!TypeOK' /\ Quiet' /\ InCall' /\ Known' /\ Usable /\ Usable'
      /\ call'.op = "none" /\ call'.rows = {}
  BY <1>1, DrainedFacts
<1>3. level' = level /\ store' = store /\ pending' = pending /\ proc = "fetching"
  BY DEF Drained
<1>4. Accounted'
  BY <1>1, <1>2, <1>3 DEF Steady, Accounted
<1>5. Whole' => Whole
  BY <1>1, <1>2, <1>3 DEF Whole
<1>6. OutermostWhole'
  BY <1>1, <1>2, <1>3, <1>5 DEF Steady, OutermostWhole
<1>7. InnermostUnstored'
  <2> SUFFICES ASSUME NEW i \in DOMAIN txns, ~txns[i].nested
               PROVE  /\ i = Len(txns)
                      /\ txns'[i].active /\ ~txns'[i].tried /\ ~txns'[i].failed =>
                             txns'[i].rows \cap store = {} /\ level > 0
    BY <1>1, <1>2, <1>3 DEF InnermostUnstored
  <2>1. /\ i = Len(txns)
        /\ txns[i].active /\ ~txns[i].tried /\ ~txns[i].failed =>
             (txns[i].rows \cup call.rows) \cap store = {} /\ level > 0
    BY <1>3 DEF Steady, InnermostUnstored
  <2>2. txns'[i].rows \subseteq txns[i].rows \cup call.rows
    BY <1>1
  <2> QED  BY <1>1, <2>1, <2>2
<1> QED  BY <1>2, <1>4, <1>6, <1>7 DEF Steady

\* A turn of a loop.
LEMMA DrainKeeps ==
  ASSUME Session!TypeOK, Steady, Session!Drain
  PROVE  /\ Session!TypeOK' /\ Steady'
         /\ call.op = "destroy" /\ txns' # txns => Session!Undone(Last(txns))
<1>1. PICK reply \in {"noMore", "fail"} :
        /\ Fetch(reply)
        /\ IF reply = "noMore" THEN txns' = Session!Finished(call.op) /\ call' = Session!NoCall
           ELSE UNCHANGED <<txns, call>>
  BY SameServer DEF Session!Drain
<1>2. ~Session!Free /\ used' = used
  BY DEF Session!Drain
<1>3. CASE reply = "fail"
  <2>1. proc' = "dead" /\ level' = 0 /\ pending' = {} /\ store' = store
    BY <1>1, <1>3 DEF Fetch, SessionIs, SessionEnds, server, Steady, Quiet
  <2>2. UNCHANGED <<store, txns, call, used>>
    BY <1>1, <1>2, <1>3, <2>1
  <2> QED  BY <1>2, <2>1, <2>2, LostKeeps
<1>4. CASE reply = "noMore"
  <2>1. Drained /\ txns' = Session!Finished(call.op)
    BY <1>1, <1>2, <1>4 DEF Fetch, SessionIs, Drained
  <2>2. call.op \in {"begin", "commit", "rollback", "destroy", "update"}
    BY <1>2 DEF Session!TypeOK, Session!Call, Session!Free
  <2>3. CASE call.op = "begin"
    <3>1. txns' = Append([i \in DOMAIN txns |-> [txns[i] EXCEPT !.nested = TRUE]], Session!NewTxn)
      BY <2>1, <2>3 DEF Session!Finished
    <3> QED  BY <2>1, <2>3, <3>1, BegunKeeps
  <2>4. CASE call.op = "commit"
    <3>1. txns' = [txns EXCEPT ![Innermost].active = FALSE, ![Innermost].returned = TRUE]
      BY <2>1, <2>4, SameServer DEF Session!Finished
    <3>2. Closes(call.op = "commit")
      BY <2>4, <3>1 DEF Closes
    <3> QED  BY <2>1, <2>4, <3>2, ClosedKeeps
  <2>5. CASE call.op = "rollback"
    <3>1. txns' = [txns EXCEPT ![Innermost].active = FALSE]
      BY <2>1, <2>5, SameServer DEF Session!Finished
    <3>2. Closes(call.op = "commit")
      BY <2>5, <3>1 DEF Closes
    <3> QED  BY <2>1, <2>5, <3>2, ClosedKeeps
  <2>6. CASE call.op = "destroy"
    <3>1. txns' = Front(txns)
      BY <2>1, <2>6 DEF Session!Finished, Session!Front, Front
    <3>2. HasActive /\ level = 0
      BY <2>1, <2>6 DEF Drained, Steady, Accounted, Usable
    <3>3. ServerTypeOK' /\ Quiet'
      BY <2>1 DEF Session!TypeOK, Session!ServerTypeOK, ServerTypeOK, Steady, Quiet, Drained
    <3>4. Innermost > 0 /\ Usable
      BY <2>1, <3>2 DEF HasActive, Drained, Usable
    <3> QED  BY <2>1, <2>6, <3>1, <3>2, <3>3, <3>4, DropKeeps DEF Drained
  <2>7. CASE call.op = "update"
    <3>1. Inserts
      BY <2>1, <2>7 DEF Session!Finished, Inserts
    <3> QED  BY <2>1, <2>7, <3>1, InsertedKeeps
  <2> QED  BY <2>2, <2>3, <2>4, <2>5, <2>6, <2>7
<1> QED  BY <1>1, <1>3, <1>4

\* What a reply means for the call.
LEMMA GoesFacts ==
  ASSUME NEW op, NEW rows, NEW reply \in Replies, Session!Goes(op, rows, reply)
  PROVE  /\ reply = "succeed" => call' = [op |-> op, rows |-> rows]
         /\ reply = "fail" => call' = Session!NoCall
BY DEF Session!Goes, Replies

LEMMA CommandBegin ==
  ASSUME Session!TypeOK, Steady, Session!Begin
  PROVE  Session!TypeOK' /\ Steady' /\ txns' = txns
<1>1. PICK reply \in Replies : SendBegin(reply) /\ Session!Goes("begin", {}, reply)
  BY SameServer DEF Session!Begin
<1>2. Session!Free /\ txns' = txns /\ used' = used
  BY DEF Session!Begin
<1>3. ServerTypeOK /\ Quiet /\ store \cup pending \subseteq used /\ used \subseteq Rows
      /\ Remembers(txns')
  BY <1>2, SameServer, SameRemembers DEF Session!TypeOK, Steady, Known
<1>4. /\ ServerTypeOK' /\ Quiet' /\ store' = store
      /\ reply = "succeed" => level' = level + 1 /\ pending' = pending /\ Usable /\ proc' = "fetching"
      /\ reply = "fail" => \/ level' = 0 /\ pending' = {} /\ proc' = "dead"
                           \/ UNCHANGED server
      /\ Usable' => Usable
      /\ proc = "dead" => proc' = "dead"
  <2>1. ServerTypeOK' /\ Quiet'
    BY <1>1, <1>3, ServerTyped
  <2>2. reply = "succeed" => Usable /\ proc' = "fetching"
    BY <1>1 DEF SendBegin, Unsent, Answered, SessionIs
  <2> QED  BY <1>1, <1>3, <2>1, <2>2, BeginLevel, Sent
<1>5. CASE reply = "fail"
  BY <1>1, <1>2, <1>3, <1>4, <1>5, GoesFacts, ThrowsKeep DEF server
<1>6. CASE reply = "succeed"
  BY <1>1, <1>2, <1>3, <1>4, <1>6, GoesFacts, GoesKeep
<1> QED  BY <1>2, <1>5, <1>6 DEF Replies

LEMMA CommandCommit ==
  ASSUME Session!TypeOK, Steady, Session!Commit
  PROVE  Session!TypeOK' /\ Steady' /\ Len(txns') = Len(txns)
<1>1. PICK reply \in Replies : SendCommit(reply) /\ Session!Goes("commit", {}, reply)
  BY SameServer DEF Session!Commit
<1>2. Session!Free /\ HasActive /\ used' = used /\ Tries
  BY SameServer DEF Session!Commit, Tries
<1>3. ServerTypeOK /\ Quiet /\ store \cup pending \subseteq used /\ used \subseteq Rows
  BY SameServer DEF Session!TypeOK, Steady, Known
<1>4. Remembers(txns') /\ txns'[Len(txns)].tried /\ Len(txns') = Len(txns)
  BY <1>2, TriesRemembers, RemembersFacts DEF Session!TypeOK
<1>5. /\ ServerTypeOK' /\ Quiet'
      /\ store \subseteq store' /\ store' \cup pending' \subseteq store \cup pending
      /\ reply = "succeed" => level > 0 /\ level' = level - 1
      /\ reply = "succeed" => store \cup pending \subseteq store' \cup pending'
      /\ reply = "succeed" => Usable /\ proc' = "fetching"
      /\ reply = "fail" => level' = 0 \/ (proc = "rows" /\ level' = level)
      /\ Usable' => Usable
      /\ proc = "dead" => proc' = "dead"
  <2>1. ServerTypeOK' /\ Quiet'
    BY <1>1, <1>3, ServerTyped
  <2>2. reply = "succeed" => Usable /\ proc' = "fetching"
    BY <1>1 DEF SendCommit, Unsent, Refused, Answered, SessionIs
  <2> QED  BY <1>1, <1>3, <2>1, <2>2, CommitLevel, Sent
<1>6. CASE reply = "fail"
  <2>1. Usable' /\ level' = level /\ level > 0 => pending \subseteq pending'
    BY <1>5, <1>6 DEF Usable
  <2>2. level' \in {0, level}
    BY <1>5, <1>6
  <2> QED  BY <1>1, <1>2, <1>3, <1>4, <1>5, <1>6, <2>1, <2>2, GoesFacts, ThrowsKeep
<1>7. CASE reply = "succeed"
  BY <1>1, <1>2, <1>3, <1>4, <1>5, <1>7, GoesFacts, GoesKeep
<1> QED  BY <1>4, <1>6, <1>7 DEF Replies

\* rollback(), and the destructor of an object that is active.
LEMMA CommandRollback ==
  ASSUME Session!TypeOK, Steady, Session!Free, HasActive, used' = used,
         NEW op \in {"rollback", "destroy"}, NEW reply \in Replies,
         SendRollback(reply), Session!Goes(op, {}, reply)
  PROVE  /\ txns' = txns => Session!TypeOK' /\ Steady'
         /\ reply = "fail" /\ txns' = Front(txns) =>
                Session!TypeOK' /\ Steady' /\ Session!Undone(Last(txns))
<1>1. ServerTypeOK /\ Quiet /\ store \cup pending \subseteq used /\ used \subseteq Rows
  BY SameServer DEF Session!TypeOK, Steady, Known
<1>2. /\ ServerTypeOK' /\ Quiet' /\ store' = store
      /\ level' \in {0, level} /\ pending' \subseteq pending
      /\ Usable' => Usable
      /\ proc = "dead" => proc' = "dead"
      /\ reply = "succeed" => Usable /\ proc' = "fetching" /\ level' = 0
      /\ reply = "fail" => proc' = "dead" \/ (UNCHANGED server /\ (Usable => level = 0))
  <2>1. ServerTypeOK' /\ Quiet'
    BY <1>1, ServerTyped
  <2>2. reply = "succeed" => Usable /\ proc' = "fetching" /\ level' = 0
    BY DEF SendRollback, Unsent, Refused, Answered, SessionIs
  <2>3. reply = "fail" => proc' = "dead" \/ (UNCHANGED server /\ (Usable => level = 0))
    BY <1>1, RollbackFails
  <2> QED  BY <1>1, <2>1, <2>2, <2>3, RollbackLevel, Sent
<1>3. ASSUME txns' = txns PROVE Session!TypeOK' /\ Steady'
  <2>1. Remembers(txns')
    BY <1>3, SameRemembers DEF Session!TypeOK
  <2>2. CASE reply = "fail"
    <3>1. store' = store /\ (level' = level \/ proc' = "dead")
          /\ (Usable' /\ level' = level /\ level > 0 => pending \subseteq pending')
      BY <1>2, <2>2 DEF server, Usable
    <3> QED  BY <1>1, <1>2, <2>1, <2>2, <3>1, GoesFacts, ThrowsKeep
  <2>3. CASE reply = "succeed"
    BY <1>1, <1>2, <2>1, <2>3, GoesFacts, GoesKeep
  <2> QED  BY <2>2, <2>3 DEF Replies
<1>4. ASSUME reply = "fail", txns' = Front(txns)
      PROVE  Session!TypeOK' /\ Steady' /\ Session!Undone(Last(txns))
  <2>1. Usable' => Usable /\ level' = level /\ pending' = pending /\ (HasActive => level = 0)
    BY <1>2, <1>4 DEF Usable, server
  <2>2. call.op = "none" /\ call' = Session!NoCall /\ Innermost > 0
    BY <1>4, GoesFacts DEF Session!Free, HasActive
  <2> QED  BY <1>1, <1>2, <1>4, <2>1, <2>2, DropKeeps
<1> QED  BY <1>3, <1>4

LEMMA CommandDestroy ==
  ASSUME Session!TypeOK, Steady, Session!Destroy
  PROVE  Session!TypeOK' /\ Steady' /\ (txns' # txns => Session!Undone(Last(txns)))
<1>1. Session!Free /\ Innermost > 0 /\ used' = used
  BY SameServer DEF Session!Destroy
<1>2. CASE ~HasActive /\ txns' = Front(txns) /\ UNCHANGED <<server, call>>
  <2>1. /\ ServerTypeOK' /\ Quiet' /\ store' = store /\ pending' = pending /\ level' = level
        /\ Usable' => Usable
    BY <1>2, SameServer DEF server, Session!TypeOK, ServerTypeOK, Steady, Quiet, Usable
  <2>2. call.op = "none" /\ call' = Session!NoCall
    BY <1>1, <1>2 DEF Session!Free, Session!NoCall, Steady, InCall, Session!TypeOK, Session!Call
  <2> QED  BY <1>1, <1>2, <2>1, <2>2, DropKeeps
<1>3. ASSUME HasActive, NEW reply \in Replies, SendRollback(reply), Session!Goes("destroy", {}, reply),
             txns' = IF reply = "succeed" THEN txns ELSE Front(txns)
      PROVE  Session!TypeOK' /\ Steady' /\ (txns' # txns => Session!Undone(Last(txns)))
  <2>1. CASE reply = "succeed"
    BY <1>1, <1>3, <2>1, CommandRollback
  <2>2. CASE reply = "fail"
    BY <1>1, <1>3, <2>2, CommandRollback
  <2> QED  BY <1>3, <2>1, <2>2 DEF Replies
<1> QED  BY <1>2, <1>3, SameServer DEF Session!Destroy, Session!Front, Front, Session!server, server

LEMMA CommandUpdate ==
  ASSUME Session!TypeOK, Steady, NEW r \in Rows, Session!Update(r)
  PROVE  Session!TypeOK' /\ Steady' /\ Len(txns') = Len(txns)
<1>1. PICK reply \in Replies :
        SendWrite(r, reply) /\ Session!Goes("update", {r}, reply) /\ txns' = Session!Noted(reply = "fail")
  BY SameServer DEF Session!Update
<1>2. Session!Free /\ r \notin used /\ used' = used \cup {r}
  BY DEF Session!Update
<1>3. ServerTypeOK /\ Quiet /\ store \cup pending \subseteq used /\ used' \subseteq Rows
  BY <1>2, SameServer DEF Session!TypeOK, Steady, Known
<1>4. /\ Remembers(txns') /\ Len(txns') = Len(txns) /\ Len(txns) \in Nat
      /\ reply = "fail" => (0 < Len(txns) => txns'[Len(txns)].failed)
  <2>1. (reply = "fail") \in BOOLEAN /\ txns \in Seq(Session!Txn)
    BY DEF Session!TypeOK
  <2>2. Remembers(txns') /\ (reply = "fail" => \A i \in DOMAIN txns : txns'[i].failed)
    BY <1>1, <2>1, NotedRemembers
  <2> QED  BY <2>1, <2>2, RemembersFacts, ListFacts
<1>5. ServerTypeOK' /\ Quiet' /\ (Usable' => Usable) /\ (proc = "dead" => proc' = "dead")
      /\ (reply = "succeed" => Usable /\ proc' = "fetching")
  <2>1. ServerTypeOK' /\ Quiet'
    BY <1>1, <1>3, ServerTyped
  <2>2. reply = "succeed" => Usable /\ proc' = "fetching"
    BY <1>1 DEF SendWrite, Unsent, Refused, Victim, Answered, SessionIs
  <2> QED  BY <1>1, <1>3, <2>1, <2>2, Sent
<1>6. /\ store \subseteq store' /\ store' \cup pending' \subseteq used'
      /\ reply = "succeed" => /\ level' = level
                              /\ IF level = 0 THEN store' = store \cup {r}
                                 ELSE store' = store /\ pending' = pending \cup {r}
      /\ reply = "fail" => /\ level' \in {0, level}
                           /\ level' = level /\ level > 0 => pending \subseteq pending'
  BY <1>1, <1>2, <1>3, WriteLevel
<1>7. CASE reply = "fail"
  BY <1>1, <1>2, <1>3, <1>4, <1>5, <1>6, <1>7, GoesFacts, ThrowsKeep
<1>8. CASE reply = "succeed"
  <2>1. {r} \in SUBSET Rows /\ {r} \cap store = {}
    BY <1>2, <1>3
  <2> QED  BY <1>1, <1>2, <1>3, <1>4, <1>5, <1>6, <1>8, <2>1, GoesFacts, GoesKeep
<1> QED  BY <1>4, <1>7, <1>8 DEF Replies

\* A query that throws, with or without an INSERT in it.
LEMMA CommandQuery ==
  ASSUME Session!TypeOK, Steady, Session!Query \/ \E r \in Rows : Session!QueryWrite(r)
  PROVE  Session!TypeOK' /\ Steady' /\ Len(txns') = Len(txns)
<1>1. Session!Free /\ call' = call /\ txns' = Session!Noted(TRUE)
  BY DEF Session!Query, Session!QueryWrite
<1>2. call' = Session!NoCall
  BY <1>1 DEF Session!Free, Session!NoCall, Steady, InCall, Session!TypeOK, Session!Call
<1>3. ServerTypeOK /\ Quiet /\ store \cup pending \subseteq used /\ used \subseteq Rows
  BY SameServer DEF Session!TypeOK, Steady, Known
<1>4. Remembers(txns') /\ Len(txns') = Len(txns) /\ (0 < Len(txns) => txns'[Len(txns)].failed)
  <2>1. txns \in Seq(Session!Txn)
    BY DEF Session!TypeOK
  <2>2. Remembers(txns') /\ \A i \in DOMAIN txns : txns'[i].failed
    BY <1>1, <2>1, NotedRemembers
  <2> QED  BY <2>1, <2>2, RemembersFacts, ListFacts
<1>5. CASE Session!Query
  <2>1. PICK reply \in Replies : SendQuery(reply)
    BY <1>5, SameServer DEF Session!Query
  <2>2. ServerTypeOK' /\ Quiet' /\ (Usable' => Usable) /\ (proc = "dead" => proc' = "dead")
    BY <1>3, <2>1, ServerTyped, Sent
  <2>3. /\ store' = store /\ pending' \subseteq pending /\ level' \in {0, level}
        /\ level' = level => pending' = pending
    BY <1>3, <2>1, AskLevel
  <2>4. used' = used
    BY <1>5 DEF Session!Query
  <2> QED  BY <1>1, <1>2, <1>3, <1>4, <2>2, <2>3, <2>4, ThrowsKeep
<1>6. ASSUME NEW r \in Rows, Session!QueryWrite(r)
      PROVE  Session!TypeOK' /\ Steady'
  <2>1. PICK reply \in Replies : SendWrite(r, reply)
    BY <1>6, SameServer DEF Session!QueryWrite
  <2>2. ServerTypeOK' /\ Quiet' /\ (Usable' => Usable) /\ (proc = "dead" => proc' = "dead")
    BY <1>3, <2>1, ServerTyped, Sent
  <2>3. used' = used \cup {r} /\ used' \subseteq Rows
    BY <1>3, <1>6 DEF Session!QueryWrite
  <2>4. /\ store \subseteq store' /\ store' \cup pending' \subseteq used' /\ level' \in {0, level}
        /\ level' = level /\ level > 0 => pending \subseteq pending'
    <3>1. reply \in {"succeed", "fail"}
      BY <1>3, <2>1, WriteLevel DEF Replies
    <3>2. /\ store \subseteq store' /\ store' \cup pending' \subseteq store \cup pending \cup {r}
      BY <1>3, <2>1, WriteLevel
    <3>3. level' \in {0, level} /\ (level' = level /\ level > 0 => pending \subseteq pending')
      BY <1>3, <2>1, <3>1, WriteLevel
    <3> QED  BY <1>3, <2>3, <3>2, <3>3
  <2> QED  BY <1>1, <1>2, <1>4, <2>2, <2>3, <2>4, ThrowsKeep
<1> QED  BY <1>4, <1>5, <1>6

LEMMA DisconnectKeeps ==
  ASSUME Session!TypeOK, Steady, Session!Disconnect
  PROVE  Session!TypeOK' /\ Steady' /\ txns' = txns
<1>1. /\ Session!Free /\ proc' = "dead" /\ level' = 0 /\ pending' = {}
      /\ UNCHANGED <<store, txns, call, used>>
  BY DEF Session!Disconnect, Session!SessionEnds, Session!SessionIs, Session!client
<1>2. call' = Session!NoCall
  BY <1>1 DEF Session!Free, Session!NoCall, Steady, InCall, Session!TypeOK, Session!Call
<1>3. /\ ServerTypeOK' /\ Quiet' /\ store' \cup pending' \subseteq used' /\ used' \subseteq Rows
      /\ Remembers(txns') /\ ~Usable'
  BY <1>1, SameRemembers DEF Session!TypeOK, Session!ServerTypeOK, ServerTypeOK, Quiet, Steady, Known, Usable
<1> QED  BY <1>1, <1>2, <1>3, ThrowsKeep

LEMMA InitSteady == Session!Init => Session!TypeOK /\ Steady
<1> SUFFICES ASSUME Session!Init PROVE Session!TypeOK /\ Steady
  OBVIOUS
<1>1. /\ proc = "ready" /\ level = 0 /\ store = {} /\ pending = {} /\ used = {}
      /\ txns = <<>> /\ call = Session!NoCall
  BY DEF Session!Init, Session!ServerInit
<1>2. txns \in Seq(Session!Txn) /\ DOMAIN txns = {} /\ Active = {} /\ Cardinality(Active) = 0
  BY <1>1, EmptySeq, FS_EmptySet DEF Active
<1>3. call.op = "none" /\ call.rows = {} /\ call \in Session!Call
  BY <1>1 DEF Session!NoCall, Session!Call
<1>4. Session!TypeOK
  BY <1>1, <1>2, <1>3 DEF Session!TypeOK, Session!ServerTypeOK
<1>5. Quiet /\ InCall /\ Known /\ Accounted
  BY <1>1, <1>2, <1>3 DEF Quiet, InCall, Known, Accounted, Session!Free
<1>6. OutermostWhole /\ InnermostUnstored
  BY <1>2 DEF OutermostWhole, InnermostUnstored
<1> QED  BY <1>4, <1>5, <1>6 DEF Steady

\* Of the loops only the destructor's makes the list of objects shorter.
LEMMA DrainShortens ==
  ASSUME Session!TypeOK, Steady, Session!Drain, Len(txns') < Len(txns)
  PROVE  call.op = "destroy" /\ txns' # txns
<1>1. Len(txns) \in Nat /\ txns \in Seq(Session!Txn)
  BY ObjectsOf DEF Session!TypeOK
<1>2. txns' # txns
  BY <1>1
<1>3. txns' = Session!Finished(call.op) /\ ~Session!Free
  BY <1>2 DEF Session!Drain
<1>4. call.op \in {"begin", "commit", "rollback", "destroy", "update"} /\ call.rows \subseteq Rows
  BY <1>3 DEF Session!TypeOK, Session!Call, Session!Free
<1>5. ASSUME call.op = "begin" PROVE FALSE
  <2>1. txns' = Append([i \in DOMAIN txns |-> [txns[i] EXCEPT !.nested = TRUE]], Session!NewTxn)
    BY <1>3, <1>5 DEF Session!Finished
  <2>2. Len(txns') = Len(txns) + 1
    BY <1>1, <2>1, NewList
  <2> QED  BY <1>1, <2>2
<1>6. ASSUME call.op \in {"commit", "rollback"} PROVE FALSE
  <2>1. DOMAIN txns' = DOMAIN txns
    BY <1>3, <1>6 DEF Session!Finished
  <2>2. Session!TypeOK'
    BY DrainKeeps
  <2>3. txns' \in Seq(Session!Txn)
    BY <2>2 DEF Session!TypeOK
  <2>4. Len(txns') = Len(txns)
    BY <1>1, <2>1, <2>3, LenProperties
  <2> QED  BY <1>1, <2>4
<1>7. ASSUME call.op = "update" PROVE FALSE
  <2>1. Inserts
    BY <1>3, <1>7 DEF Session!Finished, Inserts
  <2>2. Len(txns') = Len(txns)
    BY <1>1, <1>4, <2>1, InsertsFacts
  <2> QED  BY <1>1, <2>2
<1> QED  BY <1>2, <1>4, <1>5, <1>6, <1>7

LEMMA NextSteady ==
  ASSUME Session!TypeOK, Steady, [Session!Next]_Session!vars
  PROVE  /\ Session!TypeOK' /\ Steady'
         /\ Len(txns') < Len(txns) => Session!Undone(Last(txns))
<1>1. Len(txns) \in Nat
  BY ObjectsOf DEF Session!TypeOK
<1>2. CASE Session!Begin \/ Session!Disconnect
  BY <1>1, <1>2, CommandBegin, DisconnectKeeps
<1>3. CASE Session!Commit \/ Session!Query
  BY <1>1, <1>3, CommandCommit, CommandQuery
<1>4. ASSUME NEW r \in Rows, Session!Update(r) \/ Session!QueryWrite(r)
      PROVE  Session!TypeOK' /\ Steady' /\ Len(txns') = Len(txns)
  BY <1>4, CommandUpdate, CommandQuery
<1>5. CASE Session!Rollback
  <2>1. PICK reply \in Replies : SendRollback(reply) /\ Session!Goes("rollback", {}, reply)
    BY <1>5, SameServer DEF Session!Rollback
  <2>2. Session!Free /\ HasActive /\ used' = used /\ txns' = txns
    BY <1>5, SameServer DEF Session!Rollback
  <2> QED  BY <1>1, <2>1, <2>2, CommandRollback
<1>6. CASE Session!Destroy
  <2>1. Session!TypeOK' /\ Steady' /\ (txns' # txns => Session!Undone(Last(txns)))
    BY <1>6, CommandDestroy
  <2> QED  BY <1>1, <2>1
<1>7. CASE Session!Drain
  <2>1. /\ Session!TypeOK' /\ Steady'
        /\ call.op = "destroy" /\ txns' # txns => Session!Undone(Last(txns))
    BY <1>7, DrainKeeps
  <2>2. Len(txns') < Len(txns) => call.op = "destroy" /\ txns' # txns
    BY <1>1, <1>7, DrainShortens
  <2> QED  BY <2>1, <2>2
<1>8. CASE UNCHANGED Session!vars
  <2>1. txns' = txns
    BY <1>8 DEF Session!vars
  <2> QED  BY <1>1, <1>8, <2>1, StutterKeeps
<1> QED  BY <1>1, <1>2, <1>3, <1>4, <1>5, <1>6, <1>7, <1>8 DEF Session!Next

LEMMA SessionInductive == Session!Spec => [](Session!TypeOK /\ Steady)
BY InitSteady, NextSteady, PTL DEF Session!Spec

-----------------------------------------------------------------------------
(* SybSession: the theorems.                                               *)

\* On a session that can be used no transaction level is left behind, whatever
\* threw, failed or was swallowed; the types are part of it
\* (src/sybase/SybTransaction.cpp:12-74).
THEOREM SessionBalanced == Session!Spec => []Session!Balanced
<1>1. Session!TypeOK /\ Steady => Session!Balanced
  <2>1. Session!Cardinality(Active) = Cardinality(Active)
    BY DEF Session!Cardinality, Cardinality
  <2> QED  BY <2>1, SameServer DEF Steady, Accounted, Session!Balanced, Session!Free, Active
<1> QED  BY <1>1, SessionInductive, PTL

\* When commit() of the outermost object returned, everything inserted in its
\* life is stored (SybTransaction.cpp:26-49).
THEOREM SessionCommitsTold == Session!Spec => []Session!CommitReport
<1>1. Session!TypeOK /\ Steady => Session!CommitReport
  BY DEF Steady, OutermostWhole, Session!CommitReport
<1> QED  BY <1>1, SessionInductive, PTL

\* An object that leaves its scope without commit() has left nothing, with the
\* exceptions the property names (SybTransaction.cpp:15-24).
THEOREM SessionRolledBack == Session!Spec => Session!AutoRollback
<1>1. ASSUME Session!TypeOK, Steady, [Session!Next]_Session!vars, Len(txns') < Len(txns)
      PROVE  Session!Undone(Last(txns))
  BY <1>1, NextSteady
<1>2. Session!TypeOK /\ Steady /\ [Session!Next]_Session!vars =>
        (Len(txns') < Len(txns) => Session!Undone(Session!Last(txns)))
  BY <1>1 DEF Session!Last, Last
<1> QED  BY <1>2, SessionInductive, PTL DEF Session!Spec, Session!AutoRollback
=============================================================================
