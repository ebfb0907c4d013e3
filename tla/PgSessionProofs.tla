-------------------------- MODULE PgSessionProofs --------------------------
(***************************************************************************)
(* Proofs about PgSession, for any number of rows and transaction objects: *)
(* what a transaction object tells the program is true of the server, with *)
(* the exceptions the properties name, insertBatch() included.             *)
(***************************************************************************)
EXTENDS PgSession, SequenceTheorems, TLAPS

-----------------------------------------------------------------------------
(* The inductive invariant.                                                *)

\* Only the innermost object may have no transaction begun inside it.  Such an
\* object, while it is active, speaks for the transaction on the server; once
\* its commit() has returned it is inactive, and its rows are stored.
TopSpeaks ==
    \A i \in DOMAIN txns : ~txns[i].nested =>
        /\ i = Len(txns)
        /\ txns[i].active /\ ~txns[i].refused /\ alive =>
               status = "open" /\ txns[i].rows \subseteq pending
        /\ txns[i].active /\ ~txns[i].tried =>
               txns[i].rows \cap store = {} /\ (alive => status # "idle")
        /\ txns[i].returned => ~txns[i].active /\ (~txns[i].refused => txns[i].rows \subseteq store)

\* A transaction on the server has an object that will end it.
Owned == status # "idle" => \E i \in DOMAIN txns : txns[i].active

\* Each row is inserted once.
RowsOnce == store \cup pending \subseteq used

Truthful == TopSpeaks /\ Owned /\ RowsOnce

-----------------------------------------------------------------------------
(* The list of transaction objects.                                        *)

LEMMA Objects ==
  ASSUME TypeOK
  PROVE  /\ txns \in Seq(Txn) /\ Len(txns) \in Nat /\ DOMAIN txns = 1 .. Len(txns)
         /\ \A i \in DOMAIN txns : txns[i] \in Txn
BY LenProperties, ElementOfSeq DEF TypeOK

\* A list whose objects were changed one by one.
LEMMA Changed ==
  ASSUME TypeOK, NEW f \in [DOMAIN txns -> Txn]
  PROVE  f \in Seq(Txn) /\ Len(f) = Len(txns) /\ DOMAIN f = DOMAIN txns
<1>1. Len(txns) \in Nat /\ DOMAIN txns = 1 .. Len(txns)
  BY Objects
<1>2. f \in Seq(Txn)
  BY <1>1, SeqDef
<1> QED  BY <1>1, <1>2, LenProperties

\* A new innermost object.
LEMMA Pushed ==
  ASSUME NEW s \in Seq(Txn), NEW t \in Txn
  PROVE  /\ Append(s, t) \in Seq(Txn) /\ Len(Append(s, t)) = Len(s) + 1
         /\ DOMAIN Append(s, t) = 1 .. Len(s) + 1
         /\ \A i \in 1 .. Len(s) : Append(s, t)[i] = s[i]
         /\ Append(s, t)[Len(s) + 1] = t
BY AppendProperties, LenProperties

LEMMA PrefixFacts ==
  ASSUME NEW s \in Seq(Txn), Len(s) > 0
  PROVE  /\ SubSeq(s, 1, Len(s) - 1) \in Seq(Txn)
         /\ Len(SubSeq(s, 1, Len(s) - 1)) = Len(s) - 1
         /\ \A i \in 1 .. Len(s) - 1 : SubSeq(s, 1, Len(s) - 1)[i] = s[i]
<1>1. PICK n \in Nat : n = Len(s) - 1
  BY LenProperties
<1>2. \A i \in 1 .. n : s[i] \in Txn
  BY <1>1, ElementOfSeq, LenProperties
<1>3. SubSeq(s, 1, n) = [i \in 1 .. n |-> s[i]]
  BY <1>1
<1>4. SubSeq(s, 1, n) \in Seq(Txn)
  BY <1>2, <1>3, SeqDef
<1>5. Len(SubSeq(s, 1, n)) = n /\ \A i \in 1 .. n : SubSeq(s, 1, n)[i] = s[i]
  BY <1>3, <1>4, LenProperties
<1> QED  BY <1>1, <1>4, <1>5

\* The innermost object goes out of scope.
LEMMA Popped ==
  ASSUME TypeOK, Innermost > 0
  PROVE  /\ Front(txns) \in Seq(Txn) /\ Len(Front(txns)) = Len(txns) - 1
         /\ DOMAIN Front(txns) = 1 .. Len(txns) - 1
         /\ \A i \in 1 .. Len(txns) - 1 : Front(txns)[i] = txns[i]
         /\ Last(txns) = txns[Len(txns)]
<1>1. txns \in Seq(Txn) /\ Len(txns) \in Nat /\ Len(txns) > 0
  BY Objects DEF Innermost
<1>2. /\ SubSeq(txns, 1, Len(txns) - 1) \in Seq(Txn)
      /\ Len(SubSeq(txns, 1, Len(txns) - 1)) = Len(txns) - 1
      /\ \A i \in 1 .. Len(txns) - 1 : SubSeq(txns, 1, Len(txns) - 1)[i] = txns[i]
  BY <1>1, PrefixFacts
<1> QED  BY <1>1, <1>2, LenProperties DEF Front, Last
-----------------------------------------------------------------------------
(* Types.                                                                  *)

\* What a statement can leave on the server (PgServer).
LEMMA ServerTyped ==
  ASSUME ServerTypeOK, NEW reply,
         \/ ExecBegin(reply) \/ ExecCommit(reply) \/ ExecRollback(reply)
         \/ ExecSelect(reply) \/ SendUnbound(reply) \/ UNCHANGED server
         \/ \E r \in Rows : ExecInsert(r, reply)
  PROVE  ServerTypeOK'
BY DEF ServerTypeOK, ExecBegin, ExecCommit, ExecRollback, ExecSelect, ExecInsert, SendUnbound,
   Unheard, Refused, SessionIs, server

\* What the operations do to the list of objects.
LEMMA NotedTyped ==
  ASSUME TypeOK, NEW reply
  PROVE  Noted(reply) \in [DOMAIN txns -> Txn]
BY Objects DEF Noted, Txn

LEMMA BeginTyped ==
  ASSUME TypeOK, NEW reply \in Replies, Begin(reply)
  PROVE  ServerTypeOK' /\ txns' \in Seq(Txn) /\ Len(txns') \in {Len(txns), Len(txns) + 1}
<1>1. ServerTypeOK'
  BY ServerTyped DEF Begin, TypeOK
<1>2. CASE reply = "commandOk"
  <2> DEFINE f == [i \in DOMAIN txns |-> [txns[i] EXCEPT !.nested = TRUE]]
  <2>1. f \in [DOMAIN txns -> Txn]
    BY Objects DEF Txn
  <2>2. NewTxn \in Txn
    BY DEF NewTxn, Txn
  <2>3. txns' = Append(f, NewTxn)
    BY <1>2 DEF Begin
  <2> HIDE DEF f
  <2> QED  BY <1>1, <2>1, <2>2, <2>3, Changed, Pushed
<1> QED  BY <1>1, <1>2 DEF Begin, TypeOK

LEMMA CommitTyped ==
  ASSUME TypeOK, NEW reply \in Replies, NEW i \in Nat, Commit(i, reply) \/ Rollback(i, reply)
  PROVE  ServerTypeOK' /\ txns' \in Seq(Txn) /\ Len(txns') = Len(txns)
<1>1. ServerTypeOK'
  BY ServerTyped DEF Commit, Rollback, TypeOK
<1>2. txns \in [DOMAIN txns -> Txn]
  BY Objects
<1>3. CASE i \in DOMAIN txns /\ Commit(i, reply)
  <2>1. [txns[i] EXCEPT !.active = (reply # "commandOk"), !.tried = TRUE,
            !.returned = (reply = "commandOk"),
            !.refused = @ \/ reply = "error"] \in Txn
    <3>1. txns[i] \in Txn /\ (txns[i].refused \/ reply = "error") \in BOOLEAN
      BY <1>2, <1>3
    <3> QED  BY <3>1 DEF Txn
  <2> QED  BY <1>1, <1>2, <1>3, <2>1, Changed DEF Commit
<1>4. CASE i \in DOMAIN txns /\ Rollback(i, reply)
  <2>1. [txns[i] EXCEPT !.active = (reply # "commandOk")] \in Txn
    BY <1>2, <1>4 DEF Txn
  <2> QED  BY <1>1, <1>2, <1>4, <2>1, Changed DEF Rollback
<1>5. CASE i \notin DOMAIN txns
  <2>1. txns' = txns
    BY <1>2, <1>5 DEF Commit, Rollback
  <2> QED  BY <1>1, <2>1 DEF TypeOK
<1> QED  BY <1>3, <1>4, <1>5

LEMMA DestroyTyped ==
  ASSUME TypeOK, Destroy
  PROVE  ServerTypeOK' /\ txns' \in Seq(Txn)
<1>1. ServerTypeOK'
  BY ServerTyped DEF Destroy, TypeOK
<1> QED  BY <1>1, Popped DEF Destroy

LEMMA InsertTyped ==
  ASSUME TypeOK, NEW reply \in Replies, NEW r \in Rows, Insert(r, reply)
  PROVE  ServerTypeOK' /\ txns' \in Seq(Txn) /\ Len(txns') = Len(txns)
<1>1. ServerTypeOK'
  BY ServerTyped DEF Insert, TypeOK
<1>2. txns' \in [DOMAIN txns -> Txn]
  <2>1. CASE reply = "commandOk"
    <3>1. txns' = [i \in DOMAIN txns |->
                     IF txns[i].active THEN [txns[i] EXCEPT !.rows = @ \cup {r}] ELSE txns[i]]
      BY <2>1 DEF Insert
    <3> QED  BY <3>1, Objects DEF Txn
  <2>2. CASE reply # "commandOk"
    BY <2>2, NotedTyped DEF Insert
  <2> QED  BY <2>1, <2>2
<1> QED  BY <1>1, <1>2, Changed

\* A statement that inserts nothing: insertPS() and the queries.
LEMMA AskTyped ==
  ASSUME TypeOK, NEW reply, SendUnbound(reply) \/ (ExecSelect(reply) /\ txns' = Noted(reply))
  PROVE  ServerTypeOK' /\ txns' \in Seq(Txn) /\ Len(txns') = Len(txns)
BY ServerTyped, NotedTyped, Changed DEF SendUnbound, TypeOK

LEMMA InitTyped == Init => TypeOK
BY EmptySeq DEF Init, TypeOK, ServerInit, ServerTypeOK, Phases

LEMMA NextTyped == TypeOK /\ [Next]_vars => TypeOK'
<1> SUFFICES ASSUME TypeOK, [Next]_vars PROVE TypeOK'
  OBVIOUS
<1>1. batch \in Phases /\ used \in SUBSET Rows /\ Innermost \in Nat
  BY Objects DEF TypeOK, Innermost
<1>4. ASSUME ProgramBegins \/ ProgramCommits \/ ProgramRollsBack \/ ProgramLeavesScope
      PROVE  TypeOK'
  <2>1. ServerTypeOK' /\ txns' \in Seq(Txn)
    BY <1>1, <1>4, BeginTyped, CommitTyped, DestroyTyped
       DEF ProgramBegins, ProgramCommits, ProgramRollsBack, ProgramLeavesScope
  <2> QED
    BY <1>1, <1>4, <2>1
       DEF ProgramBegins, ProgramCommits, ProgramRollsBack, ProgramLeavesScope, TypeOK
<1>5. ASSUME NEW r \in Rows, ProgramInserts(r) PROVE TypeOK'
  <2>1. ServerTypeOK' /\ txns' \in Seq(Txn)
    BY <1>5, InsertTyped DEF ProgramInserts
  <2> QED  BY <1>1, <1>5, <2>1 DEF ProgramInserts, Insert, TypeOK
<1>6. CASE InsertPS
  <2>1. ServerTypeOK' /\ txns' \in Seq(Txn)
    BY <1>6, AskTyped DEF InsertPS
  <2> QED  BY <1>1, <1>6, <2>1 DEF InsertPS, TypeOK
<1>7. CASE Select
  <2>1. ServerTypeOK' /\ txns' \in Seq(Txn)
    BY <1>7, AskTyped DEF Select
  <2> QED  BY <1>1, <1>7, <2>1 DEF Select, TypeOK
<1>8. CASE Disconnect
  BY <1>8 DEF Disconnect, SessionIs, client, TypeOK, ServerTypeOK
<1>9. CASE BatchBegin
  <2>1. ServerTypeOK' /\ txns' \in Seq(Txn)
    BY <1>9, BeginTyped DEF BatchBegin
  <2>2. batch' \in Phases
    BY <1>1, <1>9 DEF BatchBegin, Phases
  <2> QED  BY <1>1, <1>9, <2>1, <2>2 DEF BatchBegin, TypeOK
<1>10. ASSUME BatchInsert \/ BatchCommit \/ BatchRollback PROVE TypeOK'
  <2>1. ServerTypeOK' /\ txns' \in Seq(Txn)
    <3>1. CASE BatchInsert
      BY <3>1, AskTyped DEF BatchInsert, TypeOK, ServerTypeOK, server
    <3>2. CASE BatchCommit \/ BatchRollback
      BY <1>1, <3>2, CommitTyped DEF BatchCommit, BatchRollback
    <3> QED  BY <1>10, <3>1, <3>2
  <2>2. used' = used /\ batch' \in Phases
    BY <1>10 DEF BatchInsert, BatchCommit, BatchRollback, Phases
  <2> QED  BY <1>1, <2>1, <2>2 DEF TypeOK
<1>11. CASE BatchEnd
  <2>1. used' = used /\ batch' \in Phases
    BY <1>11 DEF BatchEnd, Phases
  <2> QED  BY <1>1, <1>11, <2>1, DestroyTyped DEF BatchEnd, TypeOK
<1>12. CASE UNCHANGED vars
  BY <1>12 DEF vars, TypeOK, ServerTypeOK
<1> QED
  BY <1>4, <1>5, <1>6, <1>7, <1>8, <1>9, <1>10, <1>11, <1>12 DEF Next
-----------------------------------------------------------------------------
(* What each operation does to the truth of the objects.                   *)

\* The objects and the transaction on the server.
Speaking == TopSpeaks /\ Owned

\* Nothing but an INSERT adds a row.
NoRowAdded == store' \cup pending' \subseteq store \cup pending

LEMMA NoRowComes ==
  ASSUME ServerTypeOK, NEW reply,
         \/ ExecBegin(reply) \/ ExecCommit(reply) \/ ExecRollback(reply)
         \/ ExecSelect(reply) \/ SendUnbound(reply) \/ UNCHANGED server
  PROVE  NoRowAdded
BY DEF NoRowAdded, ExecBegin, ExecCommit, ExecRollback, ExecSelect, SendUnbound,
   Unheard, Refused, SessionIs, server

\* BEGIN inside a transaction makes every object before it nested; the new one
\* has no rows, and the session is open.
LEMMA BeginSpeaks ==
  ASSUME TypeOK, Speaking, NEW reply \in Replies, Begin(reply)
  PROVE  Speaking'
<1>1. CASE reply = "commandOk"
  <2> DEFINE f == [i \in DOMAIN txns |-> [txns[i] EXCEPT !.nested = TRUE]]
  <2>1. f \in [DOMAIN txns -> Txn] /\ \A i \in DOMAIN txns : f[i].nested = TRUE
    BY Objects DEF Txn
  <2>2. txns' = Append(f, NewTxn) /\ NewTxn \in Txn
    BY <1>1 DEF Begin, NewTxn, Txn
  <2> HIDE DEF f
  <2>3. /\ Len(txns) \in Nat /\ Len(txns') = Len(txns) + 1
        /\ DOMAIN txns' = 1 .. Len(txns) + 1
        /\ \A i \in 1 .. Len(txns) : txns'[i].nested = TRUE
        /\ txns'[Len(txns) + 1] = NewTxn
    BY <2>1, <2>2, Changed, Pushed, Objects
  <2>4. status' = "open" /\ alive' = TRUE
    BY <1>1 DEF Begin, ExecBegin, Unheard, SessionIs
  <2>5. TopSpeaks'
    <3> SUFFICES ASSUME NEW i \in DOMAIN txns', ~ txns'[i].nested
                 PROVE  i = Len(txns') /\ txns'[i] = NewTxn
      BY <2>4 DEF TopSpeaks, NewTxn
    <3> QED  BY <2>3
  <2>6. Owned'
    BY <2>3 DEF Owned, NewTxn
  <2> QED  BY <2>5, <2>6 DEF Speaking
<1>2. CASE reply # "commandOk"
  <2>1. /\ txns' = txns /\ store' = store
        /\ \/ alive' = FALSE /\ status' = "idle"
           \/ alive' = alive /\ status' = status /\ pending' = pending
    BY <1>2 DEF Begin, ExecBegin, Unheard, SessionIs, server
  <2>2. TopSpeaks'
    BY <2>1 DEF Speaking, TopSpeaks
  <2>3. Owned'
    BY <2>1 DEF Speaking, Owned
  <2> QED  BY <2>2, <2>3 DEF Speaking
<1> QED  BY <1>1, <1>2

\* After COMMIT and ROLLBACK the session is idle.  Only the innermost object
\* can have spoken for the transaction.
LEMMA EndSpeaks ==
  ASSUME TypeOK, Speaking, NEW reply \in Replies,
         Commit(Innermost, reply) \/ Rollback(Innermost, reply)
  PROVE  Speaking'
<1> DEFINE n == Len(txns)
<1>1. /\ n \in Nat /\ DOMAIN txns = 1 .. n /\ DOMAIN txns' = DOMAIN txns /\ Len(txns') = n
      /\ \A i \in DOMAIN txns : txns[i] \in Txn
  <2>1. DOMAIN txns' = DOMAIN txns
    BY DEF Commit, Rollback
  <2>2. txns' \in Seq(Txn)
    BY CommitTyped, Objects DEF Innermost
  <2> QED  BY <2>1, <2>2, Objects, LenProperties
<1>2. Owned'
  BY DEF Owned, Commit, Rollback, ExecCommit, ExecRollback, Unheard, SessionIs
<1> HIDE DEF n
<1>3. \A i \in DOMAIN txns : i # n => txns[i].nested /\ txns'[i] = txns[i]
  BY DEF Speaking, TopSpeaks, Commit, Rollback, Innermost, n
<1>4. ASSUME n \in DOMAIN txns, ~ txns'[n].nested
      PROVE  /\ txns'[n].active /\ ~txns'[n].refused /\ alive' =>
                 status' = "open" /\ txns'[n].rows \subseteq pending'
             /\ txns'[n].active /\ ~txns'[n].tried =>
                 txns'[n].rows \cap store' = {} /\ (alive' => status' # "idle")
             /\ txns'[n].returned =>
                 ~txns'[n].active /\ (~txns'[n].refused => txns'[n].rows \subseteq store')
  <2>1. txns[n].active /\ txns[n] \in Txn
    BY <1>1, <1>4 DEF Commit, Rollback, Innermost, n
  <2>2. CASE Commit(Innermost, reply)
    <3>1. /\ txns'[n].active = (reply # "commandOk") /\ txns'[n].tried = TRUE
          /\ txns'[n].returned = (reply = "commandOk")
          /\ txns'[n].refused = (txns[n].refused \/ reply = "error")
          /\ txns'[n].nested = txns[n].nested /\ txns'[n].rows = txns[n].rows
      BY <1>1, <1>4, <2>1, <2>2 DEF Commit, Innermost, n, Txn
    <3>2. CASE reply = "error"
      BY <3>1, <3>2
    <3>3. CASE reply = "commandOk"
      <4>1. alive /\ (status = "open" => store' = store \cup pending)
        BY <2>2, <3>3 DEF Commit, ExecCommit, Unheard
      <4>2. ~ txns[n].refused => status = "open" /\ txns[n].rows \subseteq pending
        BY <1>4, <2>1, <3>1, <4>1 DEF Speaking, TopSpeaks
      <4> QED  BY <3>1, <3>3, <4>1, <4>2
    <3> QED  BY <3>2, <3>3 DEF Replies
  <2>3. CASE Rollback(Innermost, reply)
    <3>1. /\ txns'[n].active = (reply # "commandOk")
          /\ txns'[n].tried = txns[n].tried /\ txns'[n].returned = txns[n].returned
          /\ txns'[n].refused = txns[n].refused
          /\ txns'[n].nested = txns[n].nested /\ txns'[n].rows = txns[n].rows
      BY <1>1, <1>4, <2>1, <2>3 DEF Rollback, Innermost, n, Txn
    <3>2. store' = store /\ (reply # "commandOk" => alive' = FALSE)
      BY <2>3 DEF Rollback, ExecRollback, Unheard, SessionIs
    <3>3. ~ txns[n].returned /\ (~ txns[n].tried => txns[n].rows \cap store = {})
      BY <1>4, <2>1, <3>1 DEF Speaking, TopSpeaks
    <3> QED  BY <3>1, <3>2, <3>3
  <2> QED  BY <2>2, <2>3
<1>5. TopSpeaks'
  <2> SUFFICES ASSUME NEW i \in DOMAIN txns', ~ txns'[i].nested
               PROVE  i = n
    BY <1>1, <1>4 DEF TopSpeaks
  <2> QED  BY <1>1, <1>3
<1> QED  BY <1>2, <1>5 DEF Speaking

\* Every object that stays is nested; if the one that goes was active, its
\* ROLLBACK has left the session idle.
LEMMA DestroySpeaks ==
  ASSUME TypeOK, Speaking, Destroy
  PROVE  Speaking' /\ store' = store
<1>1. /\ Len(txns) \in Nat /\ Len(txns) > 0 /\ DOMAIN txns = 1 .. Len(txns)
      /\ DOMAIN txns' = 1 .. Len(txns) - 1
      /\ \A i \in 1 .. Len(txns) - 1 : txns'[i] = txns[i]
      /\ Last(txns) = txns[Len(txns)]
  BY Popped, Objects DEF Destroy, Innermost
<1>2. TopSpeaks'
  <2> SUFFICES ASSUME NEW i \in DOMAIN txns' PROVE txns'[i].nested
    BY DEF TopSpeaks
  <2> QED  BY <1>1 DEF Speaking, TopSpeaks
<1>3. store' = store
  BY DEF Destroy, ExecRollback, Unheard, SessionIs, server
<1>4. Owned'
  <2>1. CASE txns[Len(txns)].active
    BY <1>1, <2>1 DEF Owned, Destroy, ExecRollback, Unheard, SessionIs
  <2>2. CASE ~ txns[Len(txns)].active
    <3>1. status' = status
      BY <1>1, <2>2 DEF Destroy, server
    <3>2. \A i \in DOMAIN txns : txns[i].active => i \in DOMAIN txns'
      BY <1>1, <2>2
    <3> QED  BY <1>1, <3>1, <3>2 DEF Speaking, Owned
  <2> QED  BY <2>1, <2>2
<1> QED  BY <1>2, <1>3, <1>4 DEF Speaking
\* A statement that fails is noted by every object: none speaks for the
\* session any more, and none but an untried one says anything of its rows.
LEMMA FailureSpeaks ==
  ASSUME TypeOK, Speaking, txns' = Noted("error"),
         \/ alive' = FALSE /\ status' = "idle"
         \/ alive' = alive /\ status' = (IF status = "idle" THEN "idle" ELSE "aborted"),
         store' = store \/ (alive /\ status = "idle")
  PROVE  Speaking'
<1>1. /\ Len(txns) \in Nat /\ DOMAIN txns' = DOMAIN txns /\ Len(txns') = Len(txns)
  BY NotedTyped, Changed, Objects
<1>2. \A i \in DOMAIN txns :
        /\ txns'[i].refused = TRUE /\ txns'[i].active = txns[i].active
        /\ txns'[i].tried = txns[i].tried /\ txns'[i].returned = txns[i].returned
        /\ txns'[i].nested = txns[i].nested /\ txns'[i].rows = txns[i].rows
  BY Objects DEF Noted, Txn
<1>3. TopSpeaks'
  <2> SUFFICES ASSUME NEW i \in DOMAIN txns', ~ txns'[i].nested
               PROVE  /\ i = Len(txns')
                      /\ txns'[i].active /\ ~txns'[i].tried =>
                           txns'[i].rows \cap store' = {} /\ (alive' => status' # "idle")
                      /\ txns'[i].returned => ~txns'[i].active
    BY <1>1, <1>2 DEF TopSpeaks
  <2>1. /\ i = Len(txns)
        /\ txns[i].active /\ ~txns[i].tried =>
             txns[i].rows \cap store = {} /\ (alive => status # "idle")
        /\ txns[i].returned => ~txns[i].active
    BY <1>1, <1>2 DEF Speaking, TopSpeaks
  <2> QED  BY <1>1, <1>2, <2>1
<1>4. Owned'
  BY <1>1, <1>2 DEF Speaking, Owned
<1> QED  BY <1>3, <1>4 DEF Speaking

\* An INSERT by an object that speaks for the session joins its transaction.
LEMMA InsertSpeaks ==
  ASSUME TypeOK, Speaking, NEW reply \in Replies, NEW r \in Rows \ store, Insert(r, reply)
  PROVE  Speaking'
<1>1. CASE reply = "error"
  <2>1. txns' = Noted("error")
    BY <1>1 DEF Insert
  <2>2. /\ \/ alive' = FALSE /\ status' = "idle"
           \/ alive' = alive /\ status' = (IF status = "idle" THEN "idle" ELSE "aborted")
        /\ store' = store \/ (alive /\ status = "idle")
    BY <1>1 DEF Insert, ExecInsert, Unheard, Refused, SessionIs, server
  <2> QED  BY <2>1, <2>2, FailureSpeaks
<1>2. CASE reply = "commandOk"
  <2>1. /\ alive /\ alive' = TRUE /\ status' = status
        /\ \/ status = "idle"
           \/ status = "open" /\ pending' = pending \cup {r} /\ store' = store
        /\ store \subseteq store'
    BY <1>2 DEF Insert, ExecInsert, Unheard, Refused, SessionIs
  <2>2. txns' = [i \in DOMAIN txns |->
                   IF txns[i].active THEN [txns[i] EXCEPT !.rows = @ \cup {r}] ELSE txns[i]]
    BY <1>2 DEF Insert
  <2>3. Len(txns) \in Nat /\ DOMAIN txns' = DOMAIN txns /\ Len(txns') = Len(txns)
    <3>1. txns' \in Seq(Txn)
      BY InsertTyped
    <3> QED  BY <2>2, <3>1, Objects, LenProperties
  <2>4. \A i \in DOMAIN txns :
          /\ txns'[i].refused = txns[i].refused /\ txns'[i].active = txns[i].active
          /\ txns'[i].tried = txns[i].tried /\ txns'[i].returned = txns[i].returned
          /\ txns'[i].nested = txns[i].nested
          /\ txns'[i].rows = IF txns[i].active THEN txns[i].rows \cup {r} ELSE txns[i].rows
    BY <2>2, Objects DEF Txn
  <2>5. TopSpeaks'
    <3> SUFFICES ASSUME NEW i \in DOMAIN txns', ~ txns'[i].nested
                 PROVE  /\ i = Len(txns')
                        /\ txns'[i].active /\ ~txns'[i].refused /\ alive' =>
                             status' = "open" /\ txns'[i].rows \subseteq pending'
                        /\ txns'[i].active /\ ~txns'[i].tried =>
                             txns'[i].rows \cap store' = {} /\ (alive' => status' # "idle")
                        /\ txns'[i].returned =>
                             ~txns'[i].active /\ (~txns'[i].refused => txns'[i].rows \subseteq store')
      BY DEF TopSpeaks
    <3>1. /\ i = Len(txns)
          /\ txns[i].active /\ ~txns[i].refused => status = "open" /\ txns[i].rows \subseteq pending
          /\ txns[i].active /\ ~txns[i].tried => txns[i].rows \cap store = {} /\ status # "idle"
          /\ txns[i].returned => ~txns[i].active /\ (~txns[i].refused => txns[i].rows \subseteq store)
      BY <2>1, <2>3, <2>4 DEF Speaking, TopSpeaks
    <3>2. CASE txns[i].active
      BY <2>1, <2>3, <2>4, <3>1, <3>2
    <3>3. CASE ~ txns[i].active
      BY <2>1, <2>3, <2>4, <3>1, <3>3
    <3> QED  BY <3>2, <3>3
  <2>6. Owned'
    BY <2>1, <2>3, <2>4 DEF Speaking, Owned
  <2> QED  BY <2>5, <2>6 DEF Speaking
<1> QED  BY <1>1, <1>2 DEF Replies

\* insertPS(), the queries, and a failure before anything is sent.
LEMMA AskSpeaks ==
  ASSUME TypeOK, Speaking, NEW reply,
         SendUnbound(reply) \/ (ExecSelect(reply) /\ txns' = Noted(reply) /\ reply \in {"tuplesOk", "error"})
  PROVE  Speaking'
<1>1. CASE reply = "error"
  <2>1. txns' = Noted("error")
    BY <1>1 DEF SendUnbound
  <2>2. /\ \/ alive' = FALSE /\ status' = "idle"
           \/ alive' = alive /\ status' = (IF status = "idle" THEN "idle" ELSE "aborted")
        /\ store' = store
    BY <1>1 DEF SendUnbound, ExecSelect, Unheard, Refused, SessionIs, server
  <2>3. store' = store \/ (alive /\ status = "idle")
    BY <2>2
  <2> QED  BY <2>1, <2>2, <2>3, FailureSpeaks, Zenon
<1>2. CASE reply = "tuplesOk"
  <2>1. UNCHANGED server /\ txns' = Noted(reply)
    BY <1>2 DEF SendUnbound, ExecSelect, Unheard, Refused
  <2>2. \A i \in DOMAIN txns : [txns[i] EXCEPT !.refused = @ \/ reply = "error"] = txns[i]
    BY <1>2, Objects DEF Txn
  <2>3. Noted(reply) = txns
    BY <2>2, Objects DEF Noted
  <2> QED  BY <2>1, <2>3 DEF Speaking, TopSpeaks, Owned, server
<1> QED  BY <1>1, <1>2 DEF SendUnbound, Unheard, Refused

LEMMA DisconnectSpeaks ==
  ASSUME TypeOK, Speaking, Disconnect
  PROVE  Speaking' /\ NoRowAdded /\ UNCHANGED client
BY DEF Speaking, TopSpeaks, Owned, Disconnect, SessionIs, client, NoRowAdded
-----------------------------------------------------------------------------
(* The whole invariant.                                                    *)

LEMMA InitTruthful == Init => Truthful
<1> SUFFICES ASSUME Init PROVE Truthful
  OBVIOUS
<1>1. DOMAIN txns = {} /\ status = "idle" /\ store = {} /\ pending = {}
  BY EmptySeq, LenProperties DEF Init, ServerInit
<1> QED
  BY <1>1 DEF Truthful, TopSpeaks, Owned, RowsOnce

LEMMA NextTruthful == TypeOK /\ Truthful /\ [Next]_vars => Truthful'
<1> SUFFICES ASSUME TypeOK, Truthful, [Next]_vars PROVE Truthful'
  OBVIOUS
<1>1. Speaking /\ ServerTypeOK /\ store \subseteq used
  BY DEF Truthful, Speaking, RowsOnce, TypeOK
<1>2. ASSUME Speaking', NoRowAdded, used' = used PROVE Truthful'
  BY <1>2 DEF Truthful, Speaking, RowsOnce, NoRowAdded
<1>3. ASSUME NEW reply \in Replies, Begin(reply) PROVE Speaking' /\ NoRowAdded
  <2>1. Speaking'
    BY <1>1, <1>3, BeginSpeaks
  <2>2. NoRowAdded
    BY <1>1, <1>3, NoRowComes DEF Begin
  <2> QED  BY <2>1, <2>2
<1>4. ASSUME NEW reply \in Replies, Commit(Innermost, reply) \/ Rollback(Innermost, reply)
      PROVE  Speaking' /\ NoRowAdded
  <2>1. Speaking'
    BY <1>1, <1>4, EndSpeaks
  <2>2. NoRowAdded
    BY <1>1, <1>4, NoRowComes DEF Commit, Rollback
  <2> QED  BY <2>1, <2>2
<1>5. ASSUME Destroy PROVE Speaking' /\ NoRowAdded
  <2>1. Speaking'
    BY <1>1, <1>5, DestroySpeaks
  <2>2. NoRowAdded
    BY <1>1, <1>5, NoRowComes DEF Destroy
  <2> QED  BY <2>1, <2>2
<1>6. ASSUME NEW reply \in Replies, SendUnbound(reply) PROVE Speaking' /\ NoRowAdded
  <2>1. Speaking'
    BY <1>1, <1>6, AskSpeaks
  <2>2. NoRowAdded
    BY <1>1, <1>6, NoRowComes
  <2> QED  BY <2>1, <2>2
<1>7. CASE ProgramBegins \/ ProgramCommits \/ ProgramRollsBack \/ ProgramLeavesScope
  BY <1>2, <1>3, <1>4, <1>5, <1>7
     DEF ProgramBegins, ProgramCommits, ProgramRollsBack, ProgramLeavesScope
<1>8. ASSUME NEW r \in Rows, ProgramInserts(r) PROVE Truthful'
  <2>1. PICK reply \in Replies : Insert(r, reply)
    BY <1>8 DEF ProgramInserts
  <2>2. r \notin used /\ used' = used \cup {r}
    BY <1>8, <2>1 DEF ProgramInserts, Insert
  <2>3. Speaking'
    BY <1>1, <2>1, <2>2, InsertSpeaks
  <2>4. store' \cup pending' \subseteq store \cup pending \cup {r}
    BY <2>1 DEF Insert, ExecInsert, Unheard, Refused, SessionIs, server
  <2>5. RowsOnce'
    BY <2>2, <2>4 DEF Truthful, RowsOnce
  <2> QED  BY <2>3, <2>5 DEF Speaking, Truthful
<1>9. CASE InsertPS
  BY <1>2, <1>6, <1>9 DEF InsertPS
<1>10. CASE Select
  <2>1. Speaking' /\ NoRowAdded
    BY <1>1, <1>10, AskSpeaks, NoRowComes DEF Select
  <2> QED  BY <1>2, <1>10, <2>1 DEF Select
<1>11. CASE Disconnect
  BY <1>1, <1>2, <1>11, DisconnectSpeaks DEF client
<1>12. CASE BatchBegin
  BY <1>2, <1>3, <1>12 DEF BatchBegin
<1>13. CASE BatchInsert
  <2>1. ASSUME UNCHANGED <<server, txns>> PROVE Speaking' /\ NoRowAdded
    BY <1>1, <2>1 DEF Speaking, TopSpeaks, Owned, NoRowAdded, server
  <2> QED  BY <1>2, <1>6, <1>13, <2>1 DEF BatchInsert
<1>14. CASE BatchCommit \/ BatchRollback
  BY <1>2, <1>4, <1>14 DEF BatchCommit, BatchRollback
<1>15. CASE BatchEnd
  BY <1>2, <1>5, <1>15 DEF BatchEnd
<1>16. CASE UNCHANGED vars
  BY <1>16 DEF vars, Truthful, TopSpeaks, Owned, RowsOnce
<1> QED
  BY <1>7, <1>8, <1>9, <1>10, <1>11, <1>12, <1>13, <1>14, <1>15, <1>16 DEF Next

-----------------------------------------------------------------------------
(* The theorems.                                                           *)

LEMMA Inductive == Spec => [](TypeOK /\ Truthful)
<1>1. Init => TypeOK /\ Truthful
  BY InitTyped, InitTruthful
<1>2. TypeOK /\ Truthful /\ [Next]_vars => (TypeOK /\ Truthful)'
  BY NextTyped, NextTruthful
<1> QED  BY <1>1, <1>2, PTL DEF Spec

\* No transaction outlives the scope it was begun in (PgTransaction.cpp:12-21).
THEOREM NoneOrphaned == Spec => []NoOrphanTransaction
<1>1. TypeOK /\ Truthful => NoOrphanTransaction
  BY DEF Truthful, Owned, NoOrphanTransaction
<1> QED  BY <1>1, Inductive, PTL

\* commit() of an unnested object, during whose life no statement failed, tells
\* the truth about its rows (PgTransaction.cpp:25-37).
THEOREM CommitsTold == Spec => []CommitReport
<1>1. TypeOK /\ Truthful => CommitReport
  BY DEF Truthful, TopSpeaks, CommitReport
<1> QED  BY <1>1, Inductive, PTL

\* Only the destructor makes the list of objects shorter.
LEMMA OthersStay ==
  ASSUME TypeOK, [Next]_vars
  PROVE  Destroy \/ (Len(txns) \in Nat /\ Len(txns') >= Len(txns))
<1>1. Len(txns) \in Nat /\ Innermost \in Nat
  BY Objects DEF Innermost
<1>2. ASSUME txns' = txns PROVE Len(txns') >= Len(txns)
  BY <1>1, <1>2
<1>3. ASSUME NEW reply \in Replies,
             \/ Begin(reply) \/ Commit(Innermost, reply) \/ Rollback(Innermost, reply)
             \/ SendUnbound(reply) \/ \E r \in Rows : Insert(r, reply)
      PROVE  Len(txns') >= Len(txns)
  <2>1. Len(txns') \in {Len(txns), Len(txns) + 1}
    BY <1>1, <1>3, BeginTyped, CommitTyped, AskTyped, InsertTyped
  <2> QED  BY <1>1, <2>1
<1>4. ASSUME NEW reply, txns' = Noted(reply) PROVE Len(txns') >= Len(txns)
  BY <1>1, <1>4, NotedTyped, Changed
<1>5. CASE ProgramBegins \/ ProgramCommits \/ ProgramRollsBack \/ ProgramLeavesScope
  BY <1>1, <1>3, <1>5 DEF ProgramBegins, ProgramCommits, ProgramRollsBack, ProgramLeavesScope
<1>6. ASSUME InsertPS \/ \E r \in Rows : ProgramInserts(r) PROVE Len(txns') >= Len(txns)
  BY <1>3, <1>6 DEF ProgramInserts, InsertPS
<1>7. CASE Select
  BY <1>1, <1>4, <1>7 DEF Select
<1>8. CASE Disconnect
  BY <1>1, <1>2, <1>8 DEF Disconnect, client
<1>9. CASE BatchBegin
  BY <1>3, <1>9 DEF BatchBegin
<1>10. CASE BatchInsert \/ BatchCommit \/ BatchRollback
  BY <1>1, <1>2, <1>3, <1>10 DEF BatchInsert, BatchCommit, BatchRollback
<1>11. CASE BatchEnd
  BY <1>11 DEF BatchEnd
<1>12. CASE UNCHANGED vars
  BY <1>1, <1>2, <1>12 DEF vars
<1> QED
  BY <1>1, <1>5, <1>6, <1>7, <1>8, <1>9, <1>10, <1>11, <1>12 DEF Next

\* The destructor undoes an active object that no commit() was called on and in
\* which no other was begun (PgTransaction.cpp:12-21).
THEOREM FlatRolledBack == Spec => FlatAutoRollback
<1>1. ASSUME TypeOK, Truthful, [Next]_vars, LeavesScope, ~ Last(txns).nested
      PROVE  Undone(Last(txns))
  <2>1. Destroy
    <3>1. Destroy \/ (Len(txns) \in Nat /\ Len(txns') >= Len(txns))
      BY <1>1, OthersStay
    <3>2. Len(txns') < Len(txns)
      BY <1>1 DEF LeavesScope
    <3>3. txns' \in Seq(Txn) /\ Len(txns') \in Nat
      BY <1>1, NextTyped, LenProperties DEF TypeOK
    <3> QED  BY <3>1, <3>2, <3>3
  <2>2. store' = store /\ Last(txns) = txns[Len(txns)] /\ Len(txns) \in DOMAIN txns
    BY <1>1, <2>1, DestroySpeaks, Popped, Objects DEF Destroy, Innermost, Truthful, Speaking
  <2> QED  BY <1>1, <2>2 DEF Truthful, TopSpeaks, Undone
<1>2. TypeOK /\ Truthful /\ [Next]_vars =>
        (LeavesScope /\ ~ Last(txns).nested => Undone(Last(txns)))
  BY <1>1
<1> QED  BY <1>2, Inductive, PTL DEF Spec, FlatAutoRollback
=============================================================================
