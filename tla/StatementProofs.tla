--------------------------- MODULE StatementProofs ---------------------------
(***************************************************************************)
(* Proofs about the two modules of statements, side by side:               *)
(*   StatementCache   which prepared statement a thread is given;          *)
(*   EntityPipeline   what a statement makes of the entity it is given.    *)
(*                                                                         *)
(* StatementCache.  The strengthening is Guarded: from the moment          *)
(* expired() says a statement is dead until the new one is cached, nobody  *)
(* can bring the old one back, because a dead statement has no owner to    *)
(* copy and only the thread with the mutex can ask the map.                *)
(*                                                                         *)
(* EntityPipeline.  The statement builders are folds over sequences, so    *)
(* the proofs begin with induction over numbers and sequences as facts     *)
(* about sets, and with what the library's folds compute.  They then show  *)
(* that a placeholder is replaced by its own parameter, that the members   *)
(* before the first bool are bound in the places of their columns, and     *)
(* that every operation keeps PipelineInv.                                 *)
(***************************************************************************)
EXTENDS StatementCache, EntityPipeline, SequenceTheorems, FiniteSetTheorems,
        WellFoundedInduction, TLAPS

-----------------------------------------------------------------------------
(* StatementCache: types.                                                  *)

\* Make numbers a statement with the size of a set, which must be finite; a
\* thread inside get() has no result yet.
Awaiting == \A t \in Threads : pc[t] # "idle" => got[t] = Null
Typed == TypeOK /\ IsFiniteSet(prepared) /\ Awaiting

LEMMA NullIsNoStatement == Null \notin Statement
BY StatementCacheAssumption DEF Statement

LEMMA InitTyped == Init => Typed
BY FS_EmptySet, StatementCacheAssumption DEF Init, Typed, Awaiting, TypeOK

LEMMA NextTyped == Typed /\ [Next]_vars => Typed'
<1> SUFFICES ASSUME Typed, [Next]_vars PROVE Typed'
    OBVIOUS
<1> USE StatementCacheAssumption
<1>1. ASSUME NEW t \in Threads, NEW s \in Sqls, CallGet(t, s) PROVE Typed'
    BY <1>1 DEF Typed, Awaiting, TypeOK, CallGet, Goto
<1>2. ASSUME NEW t \in Threads, Find(t) PROVE Typed'
    BY <1>2 DEF Typed, Awaiting, TypeOK, Find, Goto
<1>3. ASSUME NEW t \in Threads, Lock(t) PROVE Typed'
  <2>1. PICK st \in Statement \cup {Null} : Return(t, st)
      BY <1>3 DEF Lock, Typed, Awaiting, TypeOK
  <2>2. {st} \ {Null} \subseteq Statement
      OBVIOUS
  <2>3. owns' \in [Threads -> SUBSET Statement]
      BY <2>1, <2>2 DEF Return, Typed, Awaiting, TypeOK
  <2> QED BY <1>3, <2>1, <2>3 DEF Lock, Return, Goto, Typed, Awaiting, TypeOK
<1>4. ASSUME NEW t \in Threads, Make(t) PROVE Typed'
  <2> DEFINE st == [id |-> Cardinality(prepared) + 1, sql |-> asked[t], era |-> era]
  <2>1. Cardinality(prepared) \in Nat
      BY FS_CardinalityType DEF Typed
  <2>2. st \in Statement
      BY <1>4, <2>1 DEF Make, Statement, Typed, Awaiting, TypeOK
  <2>3. /\ prepared' = prepared \cup {st} /\ Return(t, st)
        /\ entry' = [entry EXCEPT ![asked[t]] = st]
        /\ UNCHANGED <<asked, era>>
      BY <1>4 DEF Make
  <2> HIDE DEF st
  <2>4. IsFiniteSet(prepared')
      BY <2>3, FS_AddElement DEF Typed
  <2>5. owns' \in [Threads -> SUBSET Statement]
      BY <2>2, <2>3 DEF Return, Typed, Awaiting, TypeOK
  <2> QED BY <2>2, <2>3, <2>4, <2>5 DEF Return, Goto, Typed, Awaiting, TypeOK
<1>5. ASSUME NEW t \in Threads, MakeFails(t) PROVE Typed'
    BY <1>5 DEF Typed, Awaiting, TypeOK, MakeFails, Goto
<1>6. ASSUME NEW t \in Threads, NEW st \in owns[t], Drop(t, st) PROVE Typed'
    BY <1>6 DEF Typed, Awaiting, TypeOK, Drop
<1>7. CASE Clear
    BY <1>7 DEF Typed, Awaiting, TypeOK, Clear
<1>8. CASE UNCHANGED vars
    BY <1>8 DEF Typed, Awaiting, TypeOK, vars
<1> QED BY <1>1, <1>2, <1>3, <1>4, <1>5, <1>6, <1>7, <1>8 DEF Next

\* Every statement, entry and result is of its type, whatever the threads,
\* the texts and the bound.
THEOREM TypeCorrect == Spec => []TypeOK
<1>1. Typed => TypeOK
    BY DEF Typed
<1> QED BY <1>1, InitTyped, NextTyped, PTL DEF Spec

-----------------------------------------------------------------------------
(* One live statement per text.                                            *)

\* Inside get() a thread has the mutex, and what it will replace is dead.
Guarded ==
    \A t \in Threads :
        /\ pc[t] \in {"lock", "make"} => owner = t
        /\ pc[t] = "make" => entry[asked[t]] \notin Live

\* The map finds every live statement made since the last clear().
Findable ==
    \A st \in Live : st.era <= era /\ (st.era = era => entry[st.sql] = st)

\* An entry was prepared from its key's text, in this era.
Keyed ==
    \A s \in Sqls : entry[s] # Null => entry[s].sql = s /\ entry[s].era = era

Sharing == Guarded /\ Findable /\ Keyed /\ OneLiveStatement

LEMMA InitSharing == Init => Sharing
<1> SUFFICES ASSUME Init PROVE Sharing
    OBVIOUS
<1>1. Live = {}
    BY DEF Init, Live
<1> QED BY <1>1 DEF Init, Sharing, Guarded, Findable, Keyed, OneLiveStatement

\* A statement is alive if and only if somebody owns it.
LEMMA LiveOwned == \A st : st \in Live <=> \E t \in Threads : st \in owns[t]
BY DEF Live

\* get() makes no other statement live than the one it returns.
LEMMA ReturnLive ==
    ASSUME Typed, NEW t \in Threads, NEW st, Return(t, st)
    PROVE  Live' \subseteq Live \cup {st}
<1> SUFFICES ASSUME NEW x \in Live' PROVE x \in Live \cup {st}
    OBVIOUS
<1>1. PICK u \in Threads : x \in owns'[u]
    BY DEF Live
<1>2. owns'[u] \subseteq owns[u] \cup {st}
    BY DEF Return, Typed, TypeOK
<1> QED BY <1>1, <1>2, LiveOwned

\* Steps that make nothing live and leave the map alone keep the sharing, as
\* long as the mutex discipline holds.
LEMMA QuietStep ==
    ASSUME Sharing, Live' \subseteq Live, UNCHANGED <<entry, era>>,
           \A t \in Threads :
              /\ pc'[t] \in {"lock", "make"} => owner' = t
              /\ pc'[t] = "make" => entry[asked'[t]] \notin Live
    PROVE  Sharing'
BY DEF Sharing, Guarded, Findable, Keyed, OneLiveStatement

LEMMA NextSharing == Typed /\ Sharing /\ [Next]_vars => Sharing'
<1> SUFFICES ASSUME Typed, Sharing, [Next]_vars PROVE Sharing'
    OBVIOUS
<1> USE StatementCacheAssumption
<1>1. ASSUME NEW t \in Threads, NEW s \in Sqls, CallGet(t, s) PROVE Sharing'
  <2>1. Live' \subseteq Live
      BY <1>1 DEF CallGet, Live
  <2> QED BY <1>1, <2>1, QuietStep DEF CallGet, Goto, Typed, TypeOK, Sharing, Guarded
<1>2. ASSUME NEW t \in Threads, Find(t) PROVE Sharing'
  <2>1. Live' \subseteq Live
      BY <1>2 DEF Find, Live
  <2>2. \A u \in Threads : u # t => pc'[u] = pc[u] /\ pc[u] \notin {"lock", "make"}
      BY <1>2 DEF Find, Goto, Typed, TypeOK, Sharing, Guarded
  <2>3. owner' = t /\ (pc'[t] = "make" => entry[asked[t]] \notin Live)
      BY <1>2 DEF Find, Goto, Typed, TypeOK
  <2>4. UNCHANGED <<entry, era, asked>>
      BY <1>2 DEF Find
  <2> QED BY <2>1, <2>2, <2>3, <2>4, QuietStep
<1>3. ASSUME NEW t \in Threads, Lock(t) PROVE Sharing'
  <2> DEFINE st == IF entry[asked[t]] \in Live THEN entry[asked[t]] ELSE Null
  <2>1. Return(t, st) /\ pc[t] = "lock" /\ UNCHANGED <<entry, asked, era>>
      BY <1>3 DEF Lock
  <2>2. Live' \subseteq Live
    <3> SUFFICES ASSUME NEW x \in Live' PROVE x \in Live
        OBVIOUS
    <3>1. PICK u \in Threads : x \in owns'[u]
        BY DEF Live
    <3>2. owns'[u] \subseteq owns[u] \cup ({st} \ {Null})
        BY <2>1 DEF Return, Typed, TypeOK
    <3>3. CASE x \in owns[u]
        BY <3>3, LiveOwned
    <3>4. CASE x = st /\ x # Null
        BY <3>4
    <3> QED BY <3>1, <3>2, <3>3, <3>4
  <2>3. \A u \in Threads : u # t => pc'[u] = pc[u] /\ pc[u] \notin {"lock", "make"}
      BY <2>1 DEF Return, Goto, Typed, TypeOK, Sharing, Guarded
  <2>4. pc'[t] = "idle"
      BY <2>1 DEF Return, Goto, Typed, TypeOK
  <2> HIDE DEF st
  <2> QED BY <2>1, <2>2, <2>3, <2>4, QuietStep
<1>4. ASSUME NEW t \in Threads, Make(t) PROVE Sharing'
  <2> DEFINE st == [id |-> Cardinality(prepared) + 1, sql |-> asked[t], era |-> era]
  <2>1. /\ Return(t, st) /\ pc[t] = "make" /\ UNCHANGED <<asked, era>>
        /\ entry' = [entry EXCEPT ![asked[t]] = st]
      BY <1>4 DEF Make
  <2>2. st.sql = asked[t] /\ st.era = era /\ st # Null
    <3>1. Cardinality(prepared) \in Nat
        BY FS_CardinalityType DEF Typed
    <3>2. st \in Statement
        BY <1>4, <3>1 DEF Make, Statement, Typed, TypeOK
    <3> QED BY <2>1, <3>2, NullIsNoStatement
  <2> HIDE DEF st
  <2>3. Live' \subseteq Live \cup {st}
      BY <2>1, ReturnLive
  <2>4. entry[asked[t]] \notin Live
      BY <2>1 DEF Sharing, Guarded
  <2>5. asked[t] \in Sqls /\ entry'[asked[t]] = st
        /\ \A s \in Sqls : s # asked[t] => entry'[s] = entry[s]
      BY <2>1 DEF Typed, TypeOK
  <2>6. \A x \in Live : x.sql \in Sqls /\ (x.era = era => x.sql # asked[t])
    <3> SUFFICES ASSUME NEW x \in Live PROVE x.sql \in Sqls /\ (x.era = era => x.sql # asked[t])
        OBVIOUS
    <3>1. x \in Statement
        BY LiveOwned DEF Typed, TypeOK
    <3>2. x.sql \in Sqls
        BY <3>1 DEF Statement
    <3>3. x.era = era => entry[x.sql] = x
        BY DEF Sharing, Findable
    <3> QED BY <2>4, <3>2, <3>3
  <2>7. Guarded'
    <3>1. \A u \in Threads : u # t => pc'[u] = pc[u] /\ pc[u] \notin {"lock", "make"}
        BY <2>1 DEF Return, Goto, Typed, TypeOK, Sharing, Guarded
    <3>2. pc'[t] = "idle"
        BY <2>1 DEF Return, Goto, Typed, TypeOK
    <3> QED BY <3>1, <3>2 DEF Guarded
  <2>8. Findable'
    <3> SUFFICES ASSUME NEW x \in Live'
                 PROVE  x.era <= era /\ (x.era = era => entry'[x.sql] = x)
        BY <2>1 DEF Findable
    <3>1. CASE x = st
        BY <3>1, <2>2, <2>5 DEF Typed, TypeOK
    <3>2. CASE x \in Live
        BY <3>2, <2>5, <2>6 DEF Sharing, Findable
    <3> QED BY <2>3, <3>1, <3>2
  <2>9. Keyed'
      BY <2>1, <2>2, <2>5 DEF Sharing, Keyed
  <2>10. OneLiveStatement'
    <3> SUFFICES ASSUME NEW a \in Live', NEW b \in Live', a.sql = b.sql, a.era = b.era
                 PROVE  a = b
        BY DEF OneLiveStatement
    <3> QED BY <2>2, <2>3, <2>6 DEF Sharing, OneLiveStatement
  <2> QED BY <2>7, <2>8, <2>9, <2>10 DEF Sharing
<1>5. ASSUME NEW t \in Threads, MakeFails(t) PROVE Sharing'
  <2>1. Live' \subseteq Live
      BY <1>5 DEF MakeFails, Live
  <2>2. \A u \in Threads : u # t => pc'[u] = pc[u] /\ pc[u] \notin {"lock", "make"}
      BY <1>5 DEF MakeFails, Goto, Typed, TypeOK, Sharing, Guarded
  <2>3. pc'[t] = "idle" /\ UNCHANGED <<entry, era, asked>>
      BY <1>5 DEF MakeFails, Goto, Typed, TypeOK
  <2> QED BY <2>1, <2>2, <2>3, QuietStep
<1>6. ASSUME NEW t \in Threads, NEW st \in owns[t], Drop(t, st) PROVE Sharing'
  <2>1. \A u \in Threads : owns'[u] \subseteq owns[u]
      BY <1>6 DEF Drop, Typed, TypeOK
  <2>2. Live' \subseteq Live
      BY <2>1 DEF Live
  <2>3. UNCHANGED <<entry, era, owner, pc, asked>>
      BY <1>6 DEF Drop
  <2> QED BY <2>2, <2>3, QuietStep DEF Sharing, Guarded
<1>7. CASE Clear
  <2>1. Live' = Live /\ UNCHANGED <<owner, pc, asked>> /\ era' = era + 1
        /\ owner = Null /\ entry' = [s \in Sqls |-> Null]
      BY <1>7 DEF Clear, Live
  <2>2. Guarded'
      BY <2>1 DEF Sharing, Guarded
  <2>3. Findable'
    <3> SUFFICES ASSUME NEW x \in Live PROVE x.era <= era + 1 /\ x.era # era + 1
        BY <2>1 DEF Findable
    <3>1. x \in Statement
        BY LiveOwned DEF Typed, TypeOK
    <3> QED BY <3>1 DEF Sharing, Findable, Statement, Typed, TypeOK
  <2>4. Keyed'
      BY <2>1 DEF Keyed
  <2>5. OneLiveStatement'
      BY <2>1 DEF Sharing, OneLiveStatement
  <2> QED BY <2>2, <2>3, <2>4, <2>5 DEF Sharing
<1>8. CASE UNCHANGED vars
  <2>1. Live' = Live
      BY <1>8 DEF vars, Live
  <2> QED BY <1>8, <2>1 DEF vars, Sharing, Guarded, Findable, Keyed, OneLiveStatement
<1> QED BY <1>1, <1>2, <1>3, <1>4, <1>5, <1>6, <1>7, <1>8 DEF Next

LEMMA SpecSharing == Spec => [](Typed /\ Sharing)
BY InitTyped, NextTyped, InitSharing, NextSharing, PTL DEF Spec

\* Between two clear() calls at most one statement of a text is alive, for any
\* number of threads and texts, although owners let go without the mutex.
THEOREM Shared == Spec => []OneLiveStatement
<1>1. Sharing => OneLiveStatement
    BY DEF Sharing
<1> QED BY <1>1, SpecSharing, PTL

\* Every statement get() returns is of the text asked for and younger than the
\* last clear().
THEOREM AnswersRight == Spec => RightAnswer
<1> DEFINE Right ==
      \A t \in Threads :
         pc[t] \in {"lock", "make"} /\ pc'[t] = "idle" /\ got'[t] # Null
           => got'[t].sql = asked[t] /\ got'[t].era = era
<1>1. ASSUME Typed, Sharing, [Next]_vars PROVE [Right]_vars
  <2> SUFFICES ASSUME Next, NEW t \in Threads, pc[t] \in {"lock", "make"}, pc'[t] = "idle",
                      got'[t] # Null
               PROVE  got'[t].sql = asked[t] /\ got'[t].era = era
      BY <1>1
  <2>1. Typed /\ Sharing
      BY <1>1
  <2>2. asked[t] \in Sqls
      BY <2>1 DEF Typed, TypeOK
  <2>3. CASE Lock(t)
    <3>1. got'[t] = entry[asked[t]]
        BY <2>1, <2>3 DEF Lock, Return, Typed, TypeOK
    <3> QED BY <2>1, <2>2, <3>1 DEF Sharing, Keyed
  <2>4. CASE Make(t)
      BY <2>1, <2>4 DEF Make, Return, Typed, TypeOK
  <2>5. CASE MakeFails(t)
      BY <2>1, <2>5 DEF MakeFails, Typed, Awaiting
  <2> QED BY <2>1, <2>3, <2>4, <2>5
       DEF Next, CallGet, Find, Lock, Make, MakeFails, Drop, Clear, Return, Goto, Typed, TypeOK
<1>2. Typed /\ Sharing /\ [Next]_vars => [Right]_vars
    BY <1>1
<1> QED BY <1>2, SpecSharing, PTL DEF Spec, RightAnswer
-----------------------------------------------------------------------------
(* The atomic cache.                                                       *)

\* The statements that are alive are the same in both.
LEMMA SameLive == Promise!Live = Live
BY DEF Promise!Live, Live

\* A statement that is being made is not one of those that are alive: of this
\* text nothing made since the last clear() is.
LEMMA MadeIsNew ==
    ASSUME Typed, Sharing, NEW t \in Threads, pc[t] = "make",
           NEW st \in Statement, st.sql = asked[t], st.era = era
    PROVE  st \notin Live /\ entry[asked[t]] \notin Live
BY DEF Sharing, Guarded, Findable

LEMMA StepRefines ==
    Typed /\ Sharing /\ [Next]_vars => [Promise!Next]_<<entry, owns>>
<1> SUFFICES ASSUME Typed, Sharing, [Next]_vars
             PROVE  Promise!Next \/ UNCHANGED <<entry, owns>>
    OBVIOUS
<1>1. ASSUME NEW t \in Threads, Lock(t) PROVE Promise!Next \/ UNCHANGED <<entry, owns>>
  <2>1. CASE entry[asked[t]] \in Live
    <3>1. entry[asked[t]] # Null
      <4>1. entry[asked[t]] \in Statement
          BY <2>1, LiveOwned DEF Typed, TypeOK
      <4> QED BY <4>1, NullIsNoStatement
    <3>2. Return(t, entry[asked[t]]) /\ UNCHANGED entry
        BY <1>1, <2>1 DEF Lock
    <3>3. owns' = [owns EXCEPT ![t] = @ \cup {entry[asked[t]]}]
        BY <3>1, <3>2 DEF Return
    <3>4. Promise!Share(t, asked[t])
        BY <2>1, <3>2, <3>3, SameLive DEF Promise!Share, Promise!Keep
    <3> QED BY <3>4 DEF Promise!Next, Typed, TypeOK
  <2>2. CASE entry[asked[t]] \notin Live
    <3>1. Return(t, Null) /\ UNCHANGED entry
        BY <1>1, <2>2 DEF Lock
    <3>2. owns' = owns
        BY <3>1 DEF Return, Typed, TypeOK
    <3> QED BY <3>1, <3>2
  <2> QED BY <2>1, <2>2
<1>2. ASSUME NEW t \in Threads, Make(t) PROVE Promise!Next
  <2> DEFINE st == [id |-> Cardinality(prepared) + 1, sql |-> asked[t], era |-> era]
  <2>1. Cardinality(prepared) \in Nat
      BY FS_CardinalityType DEF Typed
  <2>2. st \in Statement
      BY <1>2, <2>1, StatementCacheAssumption DEF Make, Statement, Typed, TypeOK
  <2>3. /\ pc[t] = "make" /\ Return(t, st)
        /\ entry' = [entry EXCEPT ![asked[t]] = st]
        /\ st.sql = asked[t] /\ st.era = era
      BY <1>2 DEF Make
  <2> HIDE DEF st
  <2>4. st \notin Live /\ entry[asked[t]] \notin Live
      BY <2>2, <2>3, MadeIsNew
  <2>5. owns' = [owns EXCEPT ![t] = @ \cup {st}]
      BY <2>2, <2>3, NullIsNoStatement DEF Return
  <2>6. Promise!Prepare(t, asked[t], st)
      BY <2>2, <2>3, <2>4, <2>5, SameLive DEF Promise!Prepare, Promise!Keep
  <2> QED BY <2>2, <2>6 DEF Promise!Next, Typed, TypeOK
<1>3. ASSUME NEW t \in Threads, NEW st \in owns[t], Drop(t, st) PROVE Promise!Next
  <2>1. Promise!LetGo(t, st)
      BY <1>3 DEF Drop, Promise!LetGo
  <2> QED BY <2>1 DEF Promise!Next
<1>4. CASE Clear
    BY <1>4 DEF Clear, Promise!Forget, Promise!Next
<1>5. CASE UNCHANGED <<entry, owns>>
    BY <1>5
<1> QED BY <1>1, <1>2, <1>3, <1>4, <1>5 DEF Next, CallGet, Find, MakeFails, vars

\* The class implements the atomic cache of SharedStatements, for any number
\* of threads and texts: whatever owners do between expired() and lock(), a
\* call either shares the one statement in use, or prepares one when there is
\* none, or takes nothing.
THEOREM Implements == Spec => RefinesPromise
<1>1. Init => Promise!Init
    BY DEF Init, Promise!Init
<1> QED BY <1>1, StepRefines, SpecSharing, PTL DEF Spec, RefinesPromise, Promise!Spec

-----------------------------------------------------------------------------
(* EntityPipeline.  Induction, for a set of numbers or of sequences instead *)
(* of a predicate.                                                         *)

\* A set of numbers that is not empty has a least one.
LEMMA LeastNumber ==
  ASSUME NEW T \in SUBSET Nat, T # {}
  PROVE  \E x \in T : \A y \in T : ~ (y < x)
<1> DEFINE R == {ss \in Nat \X Nat : ss[1] < ss[2]}
<1>1. IsWellFoundedOn(R, Nat)
  BY NatLessThanWellFounded DEF OpToRel
<1>2. PICK x \in T : \A y \in T : ~ (<<y, x>> \in R)
  BY <1>1, WFMin
<1> QED  BY <1>2

\* A set that holds 0 and the successor of each of its numbers holds all of them.
LEMMA NumberInduction ==
  ASSUME NEW P, 0 \in P, \A n \in Nat : n \in P => n + 1 \in P
  PROVE  Nat \subseteq P
<1> SUFFICES ASSUME Nat \ P # {} PROVE FALSE
  OBVIOUS
<1>1. PICK x \in Nat \ P : \A y \in Nat \ P : ~ (y < x)
  BY LeastNumber
<1>2. x - 1 \in Nat /\ x - 1 \in P
  BY <1>1
<1> QED  BY <1>1, <1>2

\* A set of sequences that is closed under Append is that of all sequences.
LEMMA SequenceInduction ==
  ASSUME NEW S, NEW P, <<>> \in P, \A s \in Seq(S), e \in S : s \in P => Append(s, e) \in P
  PROVE  Seq(S) \subseteq P
<1> DEFINE N == {n \in Nat : \A s \in Seq(S) : Len(s) = n => s \in P}
<1>1. 0 \in N
  <2>1. \A s \in Seq(S) : Len(s) = 0 => s = <<>>
    BY EmptySeq
  <2> QED  BY <2>1
<1>2. ASSUME NEW n \in Nat, n \in N PROVE n + 1 \in N
  <2> SUFFICES ASSUME NEW s \in Seq(S), Len(s) = n + 1 PROVE s \in P
    OBVIOUS
  <2>1. s # <<>>
    BY EmptySeq
  <2>2. PICK t \in Seq(S), e \in S : s = Append(t, e)
    BY <2>1, SequenceEmptyOrAppend
  <2>3. Len(t) = n
    BY <2>2, AppendProperties, LenProperties
  <2> QED  BY <1>2, <2>2, <2>3
<1> HIDE DEF N
<1>3. Nat \subseteq N
  BY <1>1, <1>2, NumberInduction
<1> QED  BY <1>3, LenProperties DEF N

-----------------------------------------------------------------------------
(* FlattenSeq.                                                             *)

\* The function FlattenSeq is defined by: what the first i sequences make.
Running(ss, g) ==
  g = [i \in 1 .. Len(ss) |-> IF i = 1 THEN ss[i] ELSE g[i - 1] \o ss[i]]

\* The value the running join has after i parts.
LEMMA RunningValues ==
  ASSUME NEW ss, NEW g, Running(ss, g), NEW i \in 1 .. Len(ss)
  PROVE  g[i] = IF i = 1 THEN ss[i] ELSE g[i - 1] \o ss[i]
<1> DEFINE h == [j \in 1 .. Len(ss) |-> IF j = 1 THEN ss[j] ELSE g[j - 1] \o ss[j]]
<1>1. h[i] = IF i = 1 THEN ss[i] ELSE g[i - 1] \o ss[i]
  OBVIOUS
<1>2. g = h
  BY Zenon DEF Running
<1> QED  BY <1>1, <1>2, Zenon

\* FlattenSeq, which the library writes as a fold, by its running values.
LEMMA FlattenIs ==
  ASSUME NEW S, NEW ss \in Seq(S), ss # <<>>, NEW g, Running(ss, g)
  PROVE  FlattenSeq(ss) = g[Len(ss)]
<1> DEFINE h == CHOOSE f : Running(ss, f)
           P == {n \in Nat : n + 1 \in 1 .. Len(ss) => g[n + 1] = h[n + 1]}
<1>1. Running(ss, h)
  BY Zenon
<1>2. Len(ss) \in Nat \ {0}
  BY EmptySeq
<1>3. FlattenSeq(ss) = h[Len(ss)]
  BY <1>2 DEF FlattenSeq, Running
<1> HIDE DEF h
<1>4. 0 \in P
  BY <1>1, <1>2, RunningValues
<1>5. ASSUME NEW n \in Nat, n \in P PROVE n + 1 \in P
  <2> SUFFICES ASSUME NEW i \in 1 .. Len(ss), i = n + 2 PROVE g[i] = h[i]
    OBVIOUS
  <2>1. i # 1 /\ i - 1 \in 1 .. Len(ss) /\ i - 1 = n + 1
    BY <1>2
  <2>2. g[i] = g[i - 1] \o ss[i]
    BY <2>1, RunningValues
  <2>3. h[i] = h[i - 1] \o ss[i]
    BY <1>1, <2>1, RunningValues
  <2> QED  BY <1>5, <2>1, <2>2, <2>3
<1> HIDE DEF P
<1>6. Nat \subseteq P
  BY <1>4, <1>5, NumberInduction
<1>7. Len(ss) - 1 \in Nat /\ Len(ss) - 1 \in P
  BY <1>2, <1>6
<1> QED  BY <1>2, <1>3, <1>7 DEF P

LEMMA RunningStep ==
  ASSUME NEW S, NEW ss \in Seq(Seq(S)), NEW s \in Seq(S),
         NEW g \in [1 .. Len(ss) -> Seq(S)], Running(ss, g)
  PROVE  \E h \in [1 .. Len(Append(ss, s)) -> Seq(S)] :
           /\ Running(Append(ss, s), h)
           /\ h[Len(ss) + 1] = IF ss = <<>> THEN s ELSE g[Len(ss)] \o s
<1> DEFINE n == Len(ss)
           new == IF n = 0 THEN s ELSE g[n] \o s
           h == [i \in 1 .. n + 1 |-> IF i = n + 1 THEN new ELSE g[i]]
           ts == Append(ss, s)
<1>1. n \in Nat /\ (n = 0 <=> ss = <<>>)
  BY EmptySeq, LenProperties
<1>2. Len(ts) = n + 1 /\ (\A i \in 1 .. n : ts[i] = ss[i]) /\ ts[n + 1] = s
  BY AppendProperties
<1>3. new \in Seq(S)
  BY <1>1, ConcatProperties
<1>4. h \in [1 .. n + 1 -> Seq(S)]
  BY <1>1, <1>3
<1>5. ASSUME NEW i \in 1 .. n + 1
      PROVE  h[i] = IF i = 1 THEN ts[i] ELSE h[i - 1] \o ts[i]
  <2>1. CASE i = n + 1
    <3>1. i = 1 <=> n = 0
      BY <1>1, <2>1
    <3>2. n # 0 => i - 1 \in 1 .. n + 1 /\ i - 1 = n /\ h[i - 1] = g[n]
      BY <1>1, <2>1
    <3> QED  BY <1>2, <2>1, <3>1, <3>2
  <2>2. CASE i # n + 1
    <3>1. i \in 1 .. n /\ h[i] = g[i] /\ ts[i] = ss[i]
      BY <1>1, <1>2, <2>2
    <3>2. i # 1 => i - 1 \in 1 .. n + 1 /\ i - 1 # n + 1 /\ h[i - 1] = g[i - 1]
      BY <1>1, <3>1
    <3>3. g[i] = IF i = 1 THEN ss[i] ELSE g[i - 1] \o ss[i]
      BY <3>1, RunningValues
    <3> QED  BY <3>1, <3>2, <3>3
  <2> QED  BY <2>1, <2>2
<1>6. h = [i \in 1 .. n + 1 |-> IF i = 1 THEN ts[i] ELSE h[i - 1] \o ts[i]]
  BY <1>4, <1>5
<1>7. Running(ts, h)
  BY <1>2, <1>6, Zenon DEF Running
<1>8. h[n + 1] = new
  BY <1>1
<1> HIDE DEF h
<1> QED  BY <1>1, <1>2, <1>4, <1>7, <1>8

LEMMA RunningExists ==
  ASSUME NEW S, NEW ss \in Seq(Seq(S))
  PROVE  \E g \in [1 .. Len(ss) -> Seq(S)] : Running(ss, g)
<1> DEFINE P == {ts \in Seq(Seq(S)) : \E g \in [1 .. Len(ts) -> Seq(S)] : Running(ts, g)}
<1>1. <<>> \in P
  <2> DEFINE g == [i \in 1 .. 0 |-> <<>>]
  <2>1. g \in [1 .. Len(<<>>) -> Seq(S)] /\ Running(<<>>, g)
    BY EmptySeq DEF Running
  <2> QED  BY <2>1, EmptySeq
<1>2. ASSUME NEW ts \in Seq(Seq(S)), NEW s \in Seq(S), ts \in P PROVE Append(ts, s) \in P
  BY <1>2, RunningStep, AppendProperties
<1> HIDE DEF P
<1>3. Seq(Seq(S)) \subseteq P
  BY <1>1, <1>2, SequenceInduction
<1> QED  BY <1>3 DEF P

LEMMA FlattenEmpty == FlattenSeq(<<>>) = <<>>
BY EmptySeq DEF FlattenSeq

\* One sequence more.
LEMMA FlattenAppend ==
  ASSUME NEW S, NEW ss \in Seq(Seq(S)), NEW s \in Seq(S)
  PROVE  /\ FlattenSeq(ss) \in Seq(S)
         /\ FlattenSeq(Append(ss, s)) = FlattenSeq(ss) \o s
<1>1. PICK g \in [1 .. Len(ss) -> Seq(S)] : Running(ss, g)
  BY RunningExists
<1>2. PICK h \in [1 .. Len(Append(ss, s)) -> Seq(S)] :
         /\ Running(Append(ss, s), h)
         /\ h[Len(ss) + 1] = IF ss = <<>> THEN s ELSE g[Len(ss)] \o s
  BY <1>1, RunningStep, SMTT(30)
<1>3. /\ Append(ss, s) \in Seq(Seq(S)) /\ Append(ss, s) # <<>>
      /\ Len(Append(ss, s)) = Len(ss) + 1
  BY AppendProperties
<1>4. FlattenSeq(Append(ss, s)) = h[Len(ss) + 1]
  BY <1>2, <1>3, FlattenIs
<1>5. CASE ss = <<>>
  BY <1>2, <1>4, <1>5, FlattenEmpty, EmptySeq, ConcatEmptySeq
<1>6. CASE ss # <<>>
  <2>1. FlattenSeq(ss) = g[Len(ss)] /\ Len(ss) \in 1 .. Len(ss)
    BY <1>1, <1>6, FlattenIs, EmptySeq
  <2> QED  BY <1>2, <1>4, <1>6, <2>1
<1> QED  BY <1>5, <1>6

\* The parts of a sequence of sequences stay in their set when they are joined.
LEMMA FlattenTyped ==
  ASSUME NEW S, NEW ss \in Seq(Seq(S))
  PROVE  FlattenSeq(ss) \in Seq(S)
BY FlattenAppend, EmptySeq

\* Joining to the left and appending may be done in either order.
LEMMA ConcatAppend ==
  ASSUME NEW S, NEW s \in Seq(S), NEW t \in Seq(S), NEW e \in S
  PROVE  s \o Append(t, e) = Append(s \o t, e)
<1>1. s \o t \in Seq(S) /\ <<e>> \in Seq(S)
  BY ConcatProperties
<1>2. Append(t, e) = t \o <<e>> /\ Append(s \o t, e) = (s \o t) \o <<e>>
  BY <1>1, AppendIsConcat
<1>3. (s \o t) \o <<e>> = s \o (t \o <<e>>)
  BY <1>1, ConcatAssociative
<1> QED  BY <1>2, <1>3

\* Sequences of sequences behind one another.
LEMMA FlattenConcat ==
  ASSUME NEW S, NEW ss \in Seq(Seq(S)), NEW ts \in Seq(Seq(S))
  PROVE  FlattenSeq(ss \o ts) = FlattenSeq(ss) \o FlattenSeq(ts)
<1> DEFINE P == {us \in Seq(Seq(S)) : FlattenSeq(ss \o us) = FlattenSeq(ss) \o FlattenSeq(us)}
<1>1. <<>> \in P
  BY FlattenEmpty, FlattenAppend, ConcatEmptySeq, EmptySeq
<1>2. ASSUME NEW us \in Seq(Seq(S)), NEW s \in Seq(S), us \in P PROVE Append(us, s) \in P
  <2> DEFINE a == FlattenSeq(ss)
             b == FlattenSeq(us)
  <2>1. a \in Seq(S) /\ b \in Seq(S) /\ ss \o us \in Seq(Seq(S)) /\ Append(us, s) \in Seq(Seq(S))
    BY FlattenAppend, ConcatProperties, AppendProperties
  <2>2. ss \o Append(us, s) = Append(ss \o us, s)
    <3> DEFINE D == Seq(S)
    <3>1. ss \in Seq(D) /\ us \in Seq(D) /\ s \in D
      OBVIOUS
    <3> HIDE DEF D
    <3> QED  BY <3>1, ConcatAppend, SMTT(30)
  <2>3. FlattenSeq(Append(ss \o us, s)) = (a \o b) \o s
    BY <1>2, <2>1, FlattenAppend
  <2>4. FlattenSeq(Append(us, s)) = b \o s
    BY FlattenAppend
  <2>5. (a \o b) \o s = a \o (b \o s)
    BY <2>1, ConcatAssociative, SMTT(30)
  <2> QED  BY <2>1, <2>2, <2>3, <2>4, <2>5
<1> HIDE DEF P
<1>3. Seq(Seq(S)) \subseteq P
  BY <1>1, <1>2, SequenceInduction
<1> QED  BY <1>3 DEF P

\* Sequences that are empty, or hold one element, or more.
LEMMA FlattenOne ==
  ASSUME NEW S, NEW s \in Seq(S)
  PROVE  FlattenSeq(<<s>>) = s
<1>1. <<>> \in Seq(Seq(S)) /\ Append(<<>>, s) = <<s>>
  OBVIOUS
<1>2. FlattenSeq(Append(<<>>, s)) = FlattenSeq(<<>>) \o s
  BY <1>1, FlattenAppend
<1> QED  BY <1>1, <1>2, FlattenEmpty, ConcatEmptySeq

-----------------------------------------------------------------------------
(* A function of each element, which gives a sequence.                     *)

Pieces(s, f) == [i \in DOMAIN s |-> f[s[i]]]
FlatMap(s, f) == FlattenSeq(Pieces(s, f))
Maps(S, T) == [S -> Seq(T)]

LEMMA PiecesTyped ==
  ASSUME NEW S, NEW T, NEW s \in Seq(S), NEW f \in Maps(S, T)
  PROVE  Pieces(s, f) \in Seq(Seq(T))
<1>1. Len(s) \in Nat /\ DOMAIN s = 1 .. Len(s) /\ \A i \in 1 .. Len(s) : s[i] \in S
  BY LenProperties, ElementOfSeq
<1>2. Pieces(s, f) = [i \in 1 .. Len(s) |-> f[s[i]]]
  BY <1>1 DEF Pieces
<1> QED  BY <1>1, <1>2 DEF Maps

LEMMA FlatMapTyped ==
  ASSUME NEW S, NEW T, NEW s \in Seq(S), NEW f \in Maps(S, T)
  PROVE  FlatMap(s, f) \in Seq(T)
BY PiecesTyped, FlattenTyped DEF FlatMap

LEMMA FlatMapEmpty ==
  ASSUME NEW f
  PROVE  FlatMap(<<>>, f) = <<>>
<1>1. Pieces(<<>>, f) = <<>>
  BY DEF Pieces
<1> QED  BY <1>1, FlattenEmpty DEF FlatMap

LEMMA FlatMapOne ==
  ASSUME NEW S, NEW T, NEW x \in S, NEW f \in Maps(S, T)
  PROVE  FlatMap(<<x>>, f) = f[x]
<1>1. Pieces(<<x>>, f) = <<f[x]>>
  BY DEF Pieces
<1> QED  BY <1>1, FlattenOne DEF FlatMap, Maps

LEMMA PiecesConcat ==
  ASSUME NEW S, NEW s \in Seq(S), NEW t \in Seq(S), NEW f
  PROVE  Pieces(s \o t, f) = Pieces(s, f) \o Pieces(t, f)
<1> DEFINE p == Pieces(s, f)
           q == Pieces(t, f)
           u == s \o t
<1>1. /\ u \in Seq(S) /\ Len(u) = Len(s) + Len(t) /\ Len(s) \in Nat /\ Len(t) \in Nat
      /\ \A i \in 1 .. Len(s) + Len(t) : u[i] = IF i <= Len(s) THEN s[i] ELSE t[i - Len(s)]
  BY ConcatProperties, LenProperties
<1>2. /\ DOMAIN u = 1 .. Len(s) + Len(t)
      /\ DOMAIN s = 1 .. Len(s) /\ DOMAIN t = 1 .. Len(t)
  BY <1>1, LenProperties
<1>3. p = [i \in 1 .. Len(s) |-> f[s[i]]] /\ q = [i \in 1 .. Len(t) |-> f[t[i]]]
  BY <1>2 DEF Pieces
<1>4. Pieces(u, f) = [i \in 1 .. Len(s) + Len(t) |-> IF i <= Len(s) THEN f[s[i]] ELSE f[t[i - Len(s)]]]
  BY <1>1, <1>2 DEF Pieces
<1>5. p \o q = [i \in 1 .. Len(s) + Len(t) |-> IF i <= Len(s) THEN p[i] ELSE q[i - Len(s)]]
  BY <1>1, <1>3
<1> HIDE DEF p, q
<1>6. \A i \in 1 .. Len(s) + Len(t) : i <= Len(s) => i \in 1 .. Len(s)
  BY <1>1
<1>7. \A i \in 1 .. Len(s) + Len(t) : ~ (i <= Len(s)) => i - Len(s) \in 1 .. Len(t)
  BY <1>1
<1>8. p \o q = [i \in 1 .. Len(s) + Len(t) |-> IF i <= Len(s) THEN f[s[i]] ELSE f[t[i - Len(s)]]]
  BY <1>3, <1>5, <1>6, <1>7
<1> QED  BY <1>4, <1>8 DEF p, q

LEMMA PiecesAppend ==
  ASSUME NEW S, NEW s \in Seq(S), NEW e \in S, NEW f
  PROVE  Pieces(Append(s, e), f) = Append(Pieces(s, f), f[e])
<1>1. Len(s) \in Nat /\ DOMAIN s = 1 .. Len(s)
  BY LenProperties
<1>2. DOMAIN Append(s, e) = 1 .. Len(s) + 1
  BY AppendProperties, LenProperties
<1>3. Pieces(s, f) = [i \in 1 .. Len(s) |-> f[s[i]]]
  BY <1>1 DEF Pieces
<1>4. Pieces(Append(s, e), f) =
        [i \in 1 .. Len(s) + 1 |-> IF i = Len(s) + 1 THEN f[e] ELSE f[s[i]]]
  BY <1>1, <1>2, AppendProperties DEF Pieces
<1> QED  BY <1>1, <1>3, <1>4

\* FlatMap of a joined sequence is the join of two FlatMaps.
LEMMA FlatMapConcat ==
  ASSUME NEW S, NEW T, NEW s \in Seq(S), NEW t \in Seq(S), NEW f \in Maps(S, T)
  PROVE  FlatMap(s \o t, f) = FlatMap(s, f) \o FlatMap(t, f)
<1>1. Pieces(s, f) \in Seq(Seq(T)) /\ Pieces(t, f) \in Seq(Seq(T))
  BY PiecesTyped
<1>2. Pieces(s \o t, f) = Pieces(s, f) \o Pieces(t, f)
  BY PiecesConcat
<1> QED  BY <1>1, <1>2, FlattenConcat DEF FlatMap

\* Of a flattened sequence: each of its parts by itself.
LEMMA FlatMapFlatten ==
  ASSUME NEW S, NEW T, NEW ss \in Seq(Seq(S)), NEW f \in Maps(S, T)
  PROVE  FlatMap(FlattenSeq(ss), f) = FlattenSeq([i \in DOMAIN ss |-> FlatMap(ss[i], f)])
<1> DEFINE F == [s \in Seq(S) |-> FlatMap(s, f)]
           P == {ts \in Seq(Seq(S)) : /\ Pieces(ts, F) \in Seq(Seq(T))
                                      /\ FlatMap(FlattenSeq(ts), f) = FlattenSeq(Pieces(ts, F))}
<1>1. <<>> \in P
  <2>1. Pieces(<<>>, F) = <<>>
    BY DEF Pieces
  <2> QED  BY <2>1, FlattenEmpty, FlatMapEmpty, EmptySeq
<1>2. ASSUME NEW ts \in Seq(Seq(S)), NEW s \in Seq(S), ts \in P PROVE Append(ts, s) \in P
  <2>1. FlattenSeq(ts) \in Seq(S) /\ FlattenSeq(Append(ts, s)) = FlattenSeq(ts) \o s
    BY FlattenAppend
  <2>2. FlatMap(FlattenSeq(ts) \o s, f) = FlatMap(FlattenSeq(ts), f) \o FlatMap(s, f)
    BY <2>1, FlatMapConcat
  <2>3. FlatMap(s, f) \in Seq(T)
    BY FlatMapTyped
  <2>4. Pieces(Append(ts, s), F) = Append(Pieces(ts, F), FlatMap(s, f))
    <3> DEFINE D == Seq(S)
    <3>1. ts \in Seq(D) /\ s \in D
      OBVIOUS
    <3>2. F[s] = FlatMap(s, f)
      OBVIOUS
    <3> HIDE DEF D, F
    <3> QED  BY <3>1, <3>2, PiecesAppend
  <2> HIDE DEF F
  <2>5. Pieces(ts, F) \in Seq(Seq(T))
    BY <1>2
  <2>6. /\ Append(Pieces(ts, F), FlatMap(s, f)) \in Seq(Seq(T))
        /\ FlattenSeq(Append(Pieces(ts, F), FlatMap(s, f))) = FlattenSeq(Pieces(ts, F)) \o FlatMap(s, f)
    BY <2>3, <2>5, FlattenAppend, AppendProperties
  <2>7. Append(ts, s) \in Seq(Seq(S))
    BY AppendProperties
  <2> QED  BY <1>2, <2>1, <2>2, <2>4, <2>6, <2>7
<1> HIDE DEF P
<1>3. Seq(Seq(S)) \subseteq P
  BY <1>1, <1>2, SequenceInduction
<1>4. FlatMap(FlattenSeq(ss), f) = FlattenSeq(Pieces(ss, F))
  BY <1>3 DEF P
<1>5. Pieces(ss, F) = [i \in DOMAIN ss |-> FlatMap(ss[i], f)]
  <2>1. \A i \in DOMAIN ss : ss[i] \in Seq(S)
    BY LenProperties, ElementOfSeq
  <2> QED  BY <2>1 DEF Pieces
<1> QED  BY <1>4, <1>5

LEMMA FlatMapAppend ==
  ASSUME NEW S, NEW T, NEW s \in Seq(S), NEW e \in S, NEW f \in Maps(S, T)
  PROVE  FlatMap(Append(s, e), f) = FlatMap(s, f) \o f[e]
<1>1. Pieces(s, f) \in Seq(Seq(T)) /\ f[e] \in Seq(T)
  BY PiecesTyped DEF Maps
<1>2. Pieces(Append(s, e), f) = Append(Pieces(s, f), f[e])
  BY PiecesAppend
<1> QED  BY <1>1, <1>2, FlattenAppend DEF FlatMap

\* Elements that stay as they are; that disappear; that do at most one of the two.
LEMMA FlatMapSame ==
  ASSUME NEW S, NEW s \in Seq(S), NEW f \in Maps(S, S),
         \A i \in 1 .. Len(s) : f[s[i]] = <<s[i]>>
  PROVE  FlatMap(s, f) = s
<1> DEFINE P == {t \in Seq(S) : (\A i \in 1 .. Len(t) : f[t[i]] = <<t[i]>>) => FlatMap(t, f) = t}
<1>1. <<>> \in P
  BY FlatMapEmpty, EmptySeq
<1>2. ASSUME NEW t \in Seq(S), NEW e \in S, t \in P PROVE Append(t, e) \in P
  <2> DEFINE u == Append(t, e)
  <2>1. /\ u \in Seq(S) /\ Len(u) = Len(t) + 1 /\ Len(t) \in Nat
        /\ (\A i \in 1 .. Len(t) : u[i] = t[i]) /\ u[Len(t) + 1] = e
    BY AppendProperties, LenProperties
  <2>2. FlatMap(u, f) = FlatMap(t, f) \o f[e] /\ u = t \o <<e>>
    BY FlatMapAppend, AppendIsConcat
  <2> HIDE DEF u
  <2>3. ASSUME \A i \in 1 .. Len(u) : f[u[i]] = <<u[i]>> PROVE FlatMap(u, f) = u
    <3>1. (\A i \in 1 .. Len(t) : f[t[i]] = <<t[i]>>) /\ f[e] = <<e>>
      BY <2>1, <2>3
    <3> QED  BY <1>2, <2>2, <3>1
  <2>4. u \in P
    BY <2>1, <2>3
  <2> QED  BY <2>4 DEF u
<1> HIDE DEF P
<1>3. Seq(S) \subseteq P
  BY <1>1, <1>2, SequenceInduction
<1> QED  BY <1>3 DEF P

\* A sequence of which every element becomes nothing becomes nothing.
LEMMA FlatMapNone ==
  ASSUME NEW S, NEW T, NEW s \in Seq(S), NEW f \in Maps(S, T),
         \A i \in 1 .. Len(s) : f[s[i]] = <<>>
  PROVE  FlatMap(s, f) = <<>>
<1> DEFINE P == {t \in Seq(S) : (\A i \in 1 .. Len(t) : f[t[i]] = <<>>) => FlatMap(t, f) = <<>>}
<1>1. <<>> \in P
  BY FlatMapEmpty, EmptySeq
<1>2. ASSUME NEW t \in Seq(S), NEW e \in S, t \in P PROVE Append(t, e) \in P
  <2> DEFINE u == Append(t, e)
  <2>1. /\ u \in Seq(S) /\ Len(u) = Len(t) + 1 /\ Len(t) \in Nat
        /\ (\A i \in 1 .. Len(t) : u[i] = t[i]) /\ u[Len(t) + 1] = e
    BY AppendProperties, LenProperties
  <2>2. FlatMap(u, f) = FlatMap(t, f) \o f[e]
    BY FlatMapAppend
  <2> HIDE DEF u
  <2>3. ASSUME \A i \in 1 .. Len(u) : f[u[i]] = <<>> PROVE FlatMap(u, f) = <<>>
    <3>1. (\A i \in 1 .. Len(t) : f[t[i]] = <<>>) /\ f[e] = <<>>
      BY <2>1, <2>3
    <3> QED  BY <1>2, <2>2, <3>1, EmptySeq, ConcatEmptySeq
  <2>4. u \in P
    BY <2>1, <2>3
  <2> QED  BY <2>4 DEF u
<1> HIDE DEF P
<1>3. Seq(S) \subseteq P
  BY <1>1, <1>2, SequenceInduction
<1> QED  BY <1>3 DEF P

LEMMA FlatMapShort ==
  ASSUME NEW S, NEW T, NEW s \in Seq(S), NEW f \in Maps(S, T),
         \A x \in S : Len(f[x]) <= 1
  PROVE  Len(FlatMap(s, f)) <= Len(s)
<1> DEFINE P == {t \in Seq(S) : Len(FlatMap(t, f)) <= Len(t)}
<1>1. <<>> \in P
  BY FlatMapEmpty, EmptySeq
<1>2. ASSUME NEW t \in Seq(S), NEW e \in S, t \in P PROVE Append(t, e) \in P
  <2>1. /\ Append(t, e) \in Seq(S) /\ Len(Append(t, e)) = Len(t) + 1 /\ Len(t) \in Nat
        /\ FlatMap(Append(t, e), f) = FlatMap(t, f) \o f[e]
    BY AppendProperties, LenProperties, FlatMapAppend
  <2>2. FlatMap(t, f) \in Seq(T) /\ f[e] \in Seq(T)
    BY FlatMapTyped DEF Maps
  <2>3. /\ Len(FlatMap(t, f) \o f[e]) = Len(FlatMap(t, f)) + Len(f[e])
        /\ Len(FlatMap(t, f)) \in Nat /\ Len(f[e]) \in Nat
    BY <2>2, ConcatProperties, LenProperties
  <2> QED  BY <1>2, <2>1, <2>3
<1> HIDE DEF P
<1>3. Seq(S) \subseteq P
  BY <1>1, <1>2, SequenceInduction
<1> QED  BY <1>3 DEF P

\* A sequence in two parts, the second one after element i.
Upto(s, i) == SubSeq(s, 1, i)
Beyond(s, i) == SubSeq(s, i + 1, Len(s))

\* A sequence is what stands up to a place and what stands beyond it.
LEMMA Split ==
  ASSUME NEW S, NEW s \in Seq(S), NEW i \in 0 .. Len(s)
  PROVE  /\ Upto(s, i) \in Seq(S) /\ Beyond(s, i) \in Seq(S)
         /\ s = Upto(s, i) \o Beyond(s, i)
         /\ Len(Upto(s, i)) = i /\ Len(Beyond(s, i)) = Len(s) - i
         /\ \A j \in 1 .. i : Upto(s, i)[j] = s[j]
         /\ \A j \in 1 .. Len(s) - i : Beyond(s, i)[j] = s[i + j]
<1> DEFINE t == SubSeq(s, 1, i)
           u == SubSeq(s, i + 1, Len(s))
<1>1. Len(s) \in Nat /\ i \in Int /\ \A j \in 1 .. Len(s) : s[j] \in S
  BY LenProperties, ElementOfSeq
<1>2. t \in Seq(S) /\ Len(t) = i /\ \A j \in 1 .. i : t[j] = s[j]
  BY <1>1, SubSeqProperties
<1>3. u \in Seq(S) /\ Len(u) = Len(s) - i /\ \A j \in 1 .. Len(s) - i : u[j] = s[i + j]
  <2>1. \A j \in i + 1 .. Len(s) : s[j] \in S
    BY <1>1
  <2>2. /\ u \in Seq(S) /\ Len(u) = IF i + 1 <= Len(s) THEN Len(s) - (i + 1) + 1 ELSE 0
        /\ \A j \in 1 .. Len(s) - (i + 1) + 1 : u[j] = s[(i + 1) + j - 1]
    BY <1>1, <2>1, SubSeqProperties
  <2> HIDE DEF u
  <2>4. u \in Seq(S) /\ Len(u) = Len(s) - i
    BY <1>1, <2>2
  <2>5. ASSUME NEW j \in 1 .. Len(s) - i PROVE u[j] = s[i + j]
    <3>1. j \in 1 .. Len(s) - (i + 1) + 1 /\ (i + 1) + j - 1 = i + j
      BY <1>1
    <3>2. u[j] = s[(i + 1) + j - 1]
      BY <2>2, <3>1
    <3> QED  BY <3>1, <3>2
  <2> QED  BY <2>4, <2>5
<1> HIDE DEF t, u
<1>4. t \o u \in Seq(S) /\ Len(t \o u) = Len(s)
  BY <1>1, <1>2, <1>3, ConcatProperties
<1>5. \A j \in 1 .. Len(s) : (t \o u)[j] = s[j]
  <2> SUFFICES ASSUME NEW j \in 1 .. Len(s) PROVE (t \o u)[j] = s[j]
    OBVIOUS
  <2>1. (t \o u)[j] = IF j <= i THEN t[j] ELSE u[j - i]
    BY <1>1, <1>2, <1>3, ConcatProperties
  <2>2. CASE j <= i
    BY <1>1, <1>2, <2>1, <2>2
  <2>3. CASE ~ (j <= i)
    <3>1. j - i \in 1 .. Len(s) - i /\ i + (j - i) = j
      BY <1>1, <2>3
    <3> QED  BY <1>3, <2>1, <2>3, <3>1
  <2> QED  BY <2>2, <2>3
<1>6. s = t \o u
  BY <1>4, <1>5, SeqEqual
<1> QED  BY <1>2, <1>3, <1>6 DEF t, u, Upto, Beyond

\* The elements before the first that is not kept as it is keep their places.
LEMMA FlatMapPrefix ==
  ASSUME NEW S, NEW s \in Seq(S), NEW f \in Maps(S, S), NEW i \in 0 .. Len(s),
         \A j \in 1 .. i : f[s[j]] = <<s[j]>>
  PROVE  Len(FlatMap(s, f)) >= i /\ \A j \in 1 .. i : FlatMap(s, f)[j] = s[j]
<1> DEFINE t == Upto(s, i)
           u == Beyond(s, i)
<1>1. /\ t \in Seq(S) /\ u \in Seq(S) /\ s = t \o u /\ Len(t) = i
      /\ \A j \in 1 .. i : t[j] = s[j]
  BY Split
<1> HIDE DEF t, u
<1>2. FlatMap(t, f) = t
  <2>1. \A j \in 1 .. Len(t) : f[t[j]] = <<t[j]>>
    BY <1>1
  <2> QED  BY <1>1, <2>1, FlatMapSame
<1>3. FlatMap(s, f) = t \o FlatMap(u, f) /\ FlatMap(u, f) \in Seq(S)
  <2>1. FlatMap(t \o u, f) = FlatMap(t, f) \o FlatMap(u, f)
    BY <1>1, FlatMapConcat
  <2> QED  BY <1>1, <1>2, <2>1, FlatMapTyped
<1>4. /\ Len(t \o FlatMap(u, f)) = Len(t) + Len(FlatMap(u, f)) /\ Len(FlatMap(u, f)) \in Nat
      /\ \A j \in 1 .. Len(t) + Len(FlatMap(u, f)) : j <= Len(t) => (t \o FlatMap(u, f))[j] = t[j]
  BY <1>3, ConcatProperties, LenProperties
<1> QED  BY <1>1, <1>3, <1>4

\* Every piece holds elements of one set: so does the whole.
LEMMA FlatMapWithin ==
  ASSUME NEW S, NEW T, NEW s \in Seq(S), NEW f, \A i \in 1 .. Len(s) : f[s[i]] \in Seq(T)
  PROVE  FlatMap(s, f) \in Seq(T)
<1>1. Len(s) \in Nat /\ DOMAIN s = 1 .. Len(s)
  BY LenProperties
<1>2. Pieces(s, f) = [i \in 1 .. Len(s) |-> f[s[i]]]
  BY <1>1 DEF Pieces
<1>3. Pieces(s, f) \in Seq(Seq(T))
  BY <1>1, <1>2
<1> QED  BY <1>3, FlattenTyped DEF FlatMap

\* One piece and nothing next to it.
LEMMA FlatMapSingle ==
  ASSUME NEW S, NEW T, NEW s \in Seq(S), NEW f \in Maps(S, T), NEW i \in 1 .. Len(s),
         \A j \in 1 .. Len(s) : j # i => f[s[j]] = <<>>
  PROVE  FlatMap(s, f) = f[s[i]]
<1> DEFINE k == i - 1
<1>1. Len(s) \in Nat /\ k \in 0 .. Len(s) /\ k + 1 = i /\ s[i] \in S
  BY LenProperties, ElementOfSeq
<1> HIDE DEF k
<1> DEFINE a == Upto(s, k)
           b == Beyond(s, k)
<1>2. /\ a \in Seq(S) /\ b \in Seq(S) /\ s = a \o b /\ Len(a) = k /\ Len(b) = Len(s) - k
      /\ \A j \in 1 .. k : a[j] = s[j]
      /\ \A j \in 1 .. Len(s) - k : b[j] = s[k + j]
  BY <1>1, Split, ZenonT(40)
<1> HIDE DEF a, b
<1> DEFINE one == 1
<1>3. one = 1 /\ a \in Seq(S)
  BY <1>2
<1>3a. one \in 0 .. Len(b) /\ b \in Seq(S)
  BY <1>1, <1>2
<1> HIDE DEF one
<1> DEFINE c == Upto(b, one)
           d == Beyond(b, one)
<1>4. /\ c \in Seq(S) /\ d \in Seq(S) /\ b = c \o d /\ Len(c) = one /\ Len(d) = Len(b) - one
      /\ \A j \in 1 .. one : c[j] = b[j]
      /\ \A j \in 1 .. Len(b) - one : d[j] = b[one + j]
  BY <1>3a, Split
<1> HIDE DEF c, d
<1>5. c[1] = s[i]
  BY <1>1, <1>2, <1>3, <1>4
<1>6. c = <<s[i]>>
  <2>1. Len(<<s[i]>>) = 1 /\ <<s[i]>>[1] = s[i] /\ <<s[i]>> \in Seq(S)
    BY <1>1
  <2> QED  BY <1>3, <1>4, <1>5, <2>1, SeqEqual
<1>7. FlatMap(a, f) = <<>>
  <2>1. \A j \in 1 .. Len(a) : f[a[j]] = <<>>
    BY <1>1, <1>2
  <2> QED  BY <1>3, <2>1, FlatMapNone
<1>8. FlatMap(d, f) = <<>>
  <2>1. ASSUME NEW j \in 1 .. Len(d) PROVE f[d[j]] = <<>>
    <3>1. j \in 1 .. Len(b) - 1 /\ 1 + j \in 1 .. Len(s) - k /\ k + (1 + j) \in 1 .. Len(s)
          /\ k + (1 + j) # i
      BY <1>1, <1>2, <1>3, <1>4
    <3>2. d[j] = b[1 + j]
      BY <1>3, <1>4, <3>1
    <3>2a. b[1 + j] = s[k + (1 + j)]
      BY <1>2, <3>1
    <3> QED  BY <3>1, <3>2, <3>2a
  <2>2. d \in Seq(S)
    BY <1>4
  <2> QED  BY <2>1, <2>2, FlatMapNone
<1>9. FlatMap(c, f) = f[s[i]]
  BY <1>1, <1>6, FlatMapOne
<1>10. FlatMap(s, f) = FlatMap(a, f) \o FlatMap(b, f)
  <2>1. FlatMap(a \o b, f) = FlatMap(a, f) \o FlatMap(b, f)
    BY <1>3, <1>3a, FlatMapConcat
  <2> QED  BY <1>2, <2>1, Zenon
<1>11. FlatMap(b, f) = FlatMap(c, f) \o FlatMap(d, f)
  <2>1. c \in Seq(S) /\ d \in Seq(S) /\ b = c \o d
    BY <1>4
  <2>2. FlatMap(c \o d, f) = FlatMap(c, f) \o FlatMap(d, f)
    BY <2>1, FlatMapConcat
  <2> QED  BY <2>1, <2>2, Zenon
<1>12. f[s[i]] \in Seq(T)
  BY <1>1 DEF Maps
<1> QED  BY <1>7, <1>8, <1>9, <1>10, <1>11, <1>12, ConcatEmptySeq

-----------------------------------------------------------------------------
(* Tokens.                                                                 *)

Forms == {"ref", "digit", "number", "quoted", "bare", "char", "bool"}
Words == {"", "n", "wide", "half", "fine", "cut", "word", "digits", "long", "ref", "true", "key"}
           \cup {ToString(i) : i \in Nat}
Token == [kind : Forms, n : Nat, content : Words, col : Nat]
Values == Seq(Token)

\* The value put in the place of a token.
Placed(value, c) == [j \in DOMAIN value |-> [value[j] EXCEPT !.col = c]]

\* A token has these four fields.
LEMMA TokenMade ==
  ASSUME NEW k \in Forms, NEW n \in Nat, NEW w \in Words, NEW c \in Nat
  PROVE  [kind |-> k, n |-> n, content |-> w, col |-> c] \in Token
BY DEF Token

LEMMA TokenIs ==
  ASSUME NEW t \in Token
  PROVE  /\ t.kind \in Forms /\ t.n \in Nat /\ t.content \in Words /\ t.col \in Nat
         /\ \A c \in Nat : /\ [t EXCEPT !.col = c] \in Token
                           /\ [t EXCEPT !.col = c].kind = t.kind
                           /\ [t EXCEPT !.col = c].n = t.n
                           /\ [t EXCEPT !.col = c].content = t.content
                           /\ [t EXCEPT !.col = c].col = c
BY DEF Token

\* A value put at the place of a column is a sequence of tokens.
LEMMA PlacedTyped ==
  ASSUME NEW value \in Seq(Token), NEW c \in Nat
  PROVE  /\ Placed(value, c) \in Seq(Token) /\ Len(Placed(value, c)) = Len(value)
         /\ \A j \in 1 .. Len(value) : /\ Placed(value, c)[j].kind = value[j].kind
                                      /\ Placed(value, c)[j].n = value[j].n
                                      /\ Placed(value, c)[j].content = value[j].content
                                      /\ Placed(value, c)[j].col = c
<1>1. Len(value) \in Nat /\ DOMAIN value = 1 .. Len(value)
      /\ \A j \in 1 .. Len(value) : value[j] \in Token
  BY LenProperties, ElementOfSeq
<1>2. Placed(value, c) = [j \in 1 .. Len(value) |-> [value[j] EXCEPT !.col = c]]
  BY <1>1 DEF Placed
<1>3. Placed(value, c) \in Seq(Token)
  BY <1>1, <1>2, TokenIs
<1>4. Len(Placed(value, c)) = Len(value)
  BY <1>1, <1>2
<1>5. ASSUME NEW j \in 1 .. Len(value)
      PROVE  /\ Placed(value, c)[j].kind = value[j].kind
             /\ Placed(value, c)[j].n = value[j].n
             /\ Placed(value, c)[j].content = value[j].content
             /\ Placed(value, c)[j].col = c
  <2>1. Placed(value, c)[j] = [value[j] EXCEPT !.col = c]
    BY <1>2
  <2>2. value[j] \in Token
    BY <1>1
  <2> QED  BY <2>1, <2>2, TokenIs
<1> QED  BY <1>3, <1>4, <1>5

\* Replacing "$k" at a reference to k leaves the value alone; at one to k0 .. k9, a digit too.
LEMMA ReplacedIs ==
  ASSUME NEW t \in Token, NEW k \in Nat, NEW value \in Seq(Token)
  PROVE  /\ Replaced(t, k, value) \in Seq(Token)
         /\ t.n = k => Replaced(t, k, value) = Placed(value, t.col)
<1>1. t.n \in Nat /\ t.col \in Nat
  BY TokenIs
<1> DEFINE word == ToString(t.n % 10)
           digit == [Lit("digit", word) EXCEPT !.col = t.col]
           rest == IF t.n = k THEN <<>> ELSE <<digit>>
<1>2. digit \in Token
  <2>1. t.n % 10 \in Nat
    BY <1>1
  <2>2. word \in Words
    BY <2>1 DEF Words
  <2> HIDE DEF word
  <2> DEFINE c == t.col
  <2>3. c \in Nat
    BY <1>1
  <2>4. digit = [kind |-> "digit", n |-> 0, content |-> word, col |-> c]
    BY DEF Lit
  <2> HIDE DEF c, digit
  <2>5. [kind |-> "digit", n |-> 0, content |-> word, col |-> c] \in Token
    <3>1. "digit" \in Forms /\ 0 \in Nat
      BY DEF Forms
    <3> QED  BY <2>2, <2>3, <3>1, TokenMade
  <2> QED  BY <2>4, <2>5
<1>3. Replaced(t, k, value) = Placed(value, t.col) \o rest
  BY DEF Replaced, Placed
<1> HIDE DEF digit
<1>4. rest \in Seq(Token)
  BY <1>2
<1>5. Placed(value, t.col) \in Seq(Token)
  BY <1>1, PlacedTyped
<1> QED  BY <1>3, <1>4, <1>5, ConcatProperties, ConcatEmptySeq

LEMMA MinMax ==
  ASSUME NEW H \in SUBSET Nat, H # {}
  PROVE  /\ Min(H) \in H /\ \A y \in H : Min(H) <= y
         /\ \A x \in H : (\A y \in H : x >= y) => Max(H) = x
<1>1. PICK x \in H : \A y \in H : ~ (y < x)
  BY LeastNumber
<1>2. \A y \in H : x <= y
  BY <1>1
<1>3. Min(H) \in H /\ \A y \in H : Min(H) <= y
  BY <1>2 DEF Min
<1>4. ASSUME NEW z \in H, \A y \in H : z >= y PROVE Max(H) = z
  <2>1. Max(H) \in H /\ \A y \in H : Max(H) >= y
    BY <1>4 DEF Max
  <2>2. Max(H) \in Nat /\ z \in Nat /\ z >= Max(H) /\ Max(H) >= z
    BY <1>4, <2>1
  <2> QED  BY <2>2
<1> QED  BY <1>3, <1>4

-----------------------------------------------------------------------------
(* One replacement.                                                        *)

Clean(k) == {t \in Token : ~ Found(t, k)}

\* In a sequence clean of k the search for "$k" finds nothing.
LEMMA CleanIs ==
  ASSUME NEW k, NEW s \in Seq(Clean(k))
  PROVE  s \in Seq(Token) /\ \A i \in 1 .. Len(s) : s[i] \in Token /\ ~ Found(s[i], k)
<1>1. Len(s) \in Nat /\ \A i \in 1 .. Len(s) : s[i] \in Clean(k)
  BY LenProperties, ElementOfSeq
<1>2. \A i \in 1 .. Len(s) : s[i] \in Token /\ ~ Found(s[i], k)
  BY <1>1 DEF Clean
<1>3. s \in Seq(Token)
  <2>1. Clean(k) \subseteq Token
    BY DEF Clean
  <2> QED  BY <2>1
<1> QED  BY <1>2, <1>3

\* Nothing to find: the text stays.
LEMMA ReplaceNone ==
  ASSUME NEW k \in Nat, NEW s \in Seq(Clean(k)), NEW value
  PROVE  ReplaceFirst(s, k, value) = s
<1>1. {i \in DOMAIN s : Found(s[i], k)} = {}
  BY CleanIs, LenProperties
<1> QED  BY <1>1 DEF ReplaceFirst

\* The first place it is found at.
LEMMA ReplaceThere ==
  ASSUME NEW k \in Nat, NEW a \in Seq(Clean(k)), NEW t \in Token, NEW b \in Seq(Token),
         NEW value \in Seq(Token), t.kind = "ref", t.n = k
  PROVE  ReplaceFirst((a \o <<t>>) \o b, k, value) = (a \o Replaced(t, k, value)) \o b
<1> SUFFICES ASSUME NEW s, s = (a \o <<t>>) \o b
             PROVE  ReplaceFirst(s, k, value) = (a \o Replaced(t, k, value)) \o b
  OBVIOUS
<1> DEFINE n == Len(a) + 1
<1>0. n = Len(a) + 1
  OBVIOUS
<1> HIDE DEF n
<1> DEFINE hits == {i \in DOMAIN s : Found(s[i], k)}
<1>1. a \in Seq(Token) /\ Len(a) \in Nat /\ Len(b) \in Nat /\ <<t>> \in Seq(Token)
  BY CleanIs, LenProperties
<1>2. /\ a \o <<t>> \in Seq(Token) /\ Len(a \o <<t>>) = Len(a) + 1
      /\ \A i \in 1 .. Len(a) : (a \o <<t>>)[i] = a[i]
      /\ (a \o <<t>>)[Len(a) + 1] = t
  <2>1. a \o <<t>> = Append(a, t)
    BY <1>1, AppendIsConcat
  <2> QED  BY <1>1, <2>1, AppendProperties
<1> DEFINE c == a \o <<t>>
<1> HIDE DEF c
<1>3. c \in Seq(Token) /\ Len(c) = n /\ (\A i \in 1 .. Len(a) : c[i] = a[i]) /\ c[n] = t /\ s = c \o b
  BY <1>0, <1>2 DEF c
<1>4. /\ s \in Seq(Token) /\ Len(s) = n + Len(b)
      /\ \A i \in 1 .. n + Len(b) : s[i] = IF i <= n THEN c[i] ELSE b[i - n]
  <2>1. /\ c \o b \in Seq(Token) /\ Len(c \o b) = Len(c) + Len(b)
        /\ \A i \in 1 .. Len(c) + Len(b) : (c \o b)[i] = IF i <= Len(c) THEN c[i] ELSE b[i - Len(c)]
    BY <1>3, ConcatProperties
  <2>2. Len(c) = n /\ s = c \o b
    BY <1>3
  <2> QED  BY <2>1, <2>2
<1>5. DOMAIN s = 1 .. n + Len(b)
  BY <1>4, LenProperties
<1>6. n \in hits /\ hits \in SUBSET Nat
  <2>1. Found(t, k)
    BY DEF Found
  <2> QED  BY <1>0, <1>1, <1>3, <1>4, <1>5, <2>1
<1>7. ASSUME NEW i \in hits PROVE i >= n
  <2>1. i \in Nat /\ n \in Nat /\ i \in 1 .. n + Len(b) /\ Found(s[i], k)
    BY <1>0, <1>1, <1>5
  <2>2. ASSUME i < n PROVE FALSE
    <3>1. i \in 1 .. Len(a)
      BY <1>0, <1>1, <2>1, <2>2
    <3>2. s[i] = a[i]
      BY <1>0, <1>1, <1>3, <1>4, <2>1, <3>1
    <3> QED  BY <2>1, <3>1, <3>2, CleanIs
  <2> QED  BY <2>1, <2>2
<1>8. Min(hits) = n
  <2> DEFINE m == Min(hits)
  <2>1. m \in hits /\ m <= n
    BY <1>6, MinMax
  <2>2. m \in Nat /\ n \in Nat /\ m >= n
    BY <1>6, <1>7, <2>1
  <2> HIDE DEF m
  <2>3. m = n
    BY <2>1, <2>2
  <2> QED  BY <2>3 DEF m
<1>9. SubSeq(s, 1, n - 1) = a
  <2> DEFINE d == SubSeq(s, 1, n - 1)
  <2>1. n - 1 = Len(a) /\ \A i \in 1 .. n - 1 : s[i] \in Token
    BY <1>0, <1>1, <1>4, ElementOfSeq
  <2>2. d \in Seq(Token) /\ Len(d) = Len(a) /\ \A i \in 1 .. Len(a) : d[i] = s[i]
    BY <1>1, <1>4, <2>1, SubSeqProperties
  <2> HIDE DEF d
  <2>3. \A i \in 1 .. Len(a) : d[i] = a[i]
    BY <1>0, <1>1, <1>3, <1>4, <2>2
  <2>4. d = a
    BY <1>1, <2>2, <2>3, SeqEqual
  <2> QED  BY <2>4 DEF d
<1>10. SubSeq(s, n + 1, Len(s)) = b
  <2> DEFINE d == SubSeq(s, n + 1, Len(s))
  <2>1. n \in 0 .. Len(s) /\ d = Beyond(s, n)
    BY <1>0, <1>1, <1>4 DEF Beyond
  <2> HIDE DEF d
  <2>2. d \in Seq(Token) /\ Len(d) = Len(s) - n /\ \A i \in 1 .. Len(s) - n : d[i] = s[n + i]
    BY <1>4, <2>1, Split
  <2>3. \A i \in 1 .. Len(b) : d[i] = b[i]
    <3> SUFFICES ASSUME NEW i \in 1 .. Len(b) PROVE d[i] = b[i]
      OBVIOUS
    <3>1. n + i \in 1 .. n + Len(b) /\ ~ (n + i <= n) /\ (n + i) - n = i /\ i \in 1 .. Len(s) - n
      BY <1>0, <1>1, <1>4
    <3>2. d[i] = s[n + i]
      BY <2>2, <3>1
    <3>3. s[n + i] = b[(n + i) - n]
      BY <1>4, <3>1
    <3> QED  BY <3>1, <3>2, <3>3
  <2>4. d = b
    BY <1>0, <1>1, <1>4, <2>2, <2>3, SeqEqual
  <2> QED  BY <2>4 DEF d
<1>11. s[n] = t
  BY <1>0, <1>1, <1>3, <1>4
<1> HIDE DEF hits
<1>12. hits # {}
  BY <1>6
<1>13. ReplaceFirst(s, k, value)
         = (SubSeq(s, 1, n - 1) \o Replaced(s[n], k, value)) \o SubSeq(s, n + 1, Len(s))
  BY <1>8, <1>12 DEF ReplaceFirst, hits
<1> QED  BY <1>9, <1>10, <1>11, <1>13, Zenon

-----------------------------------------------------------------------------
(* The folds over the parameters.                                          *)

\* The function a fold is defined by: on the parameters of a set, the highest one last.
Folds(X, x, n, g) ==
  {h \in [SUBSET (1 .. n) -> X] :
     \A s \in SUBSET (1 .. n) : h[s] = IF s = {} THEN x ELSE g[<<h[s \ {Max(s)}], Max(s)>>]}

Actions(X, n) == [X \X (1 .. n) -> X]

\* The fold of the library over a finite set of numbers, one number more.
LEMMA FoldsStep ==
  ASSUME NEW X, NEW x \in X, NEW m \in Nat, NEW n \in Nat, n < m,
         NEW g \in Actions(X, m), NEW h \in Folds(X, x, n, g)
  PROVE  Folds(X, x, n + 1, g) # {}
<1> DEFINE D == SUBSET (1 .. n + 1)
           e == [s \in D |-> IF n + 1 \in s THEN g[<<h[s \ {n + 1}], n + 1>>] ELSE h[s]]
<1>1. /\ h \in [SUBSET (1 .. n) -> X]
      /\ \A s \in SUBSET (1 .. n) : h[s] = IF s = {} THEN x ELSE g[<<h[s \ {Max(s)}], Max(s)>>]
  BY DEF Folds
<1>2. \A s \in D : s \ {n + 1} \in SUBSET (1 .. n) /\ (n + 1 \notin s => s \in SUBSET (1 .. n))
  OBVIOUS
<1>3. n + 1 \in 1 .. m
  OBVIOUS
<1>4. e \in [D -> X]
  <2>1. ASSUME NEW s \in D PROVE (IF n + 1 \in s THEN g[<<h[s \ {n + 1}], n + 1>>] ELSE h[s]) \in X
    <3>1. h[s \ {n + 1}] \in X /\ (n + 1 \notin s => h[s] \in X)
      BY <1>1, <1>2
    <3>2. <<h[s \ {n + 1}], n + 1>> \in X \X (1 .. m)
      BY <1>3, <3>1
    <3> QED  BY <3>1, <3>2 DEF Actions
  <2> QED  BY <2>1
<1>5. ASSUME NEW s \in D
      PROVE  e[s] = IF s = {} THEN x ELSE g[<<e[s \ {Max(s)}], Max(s)>>]
  <2>1. CASE n + 1 \in s
    <3>1. s \in SUBSET Nat /\ s # {} /\ \A y \in s : n + 1 >= y
      BY <2>1
    <3>2. Max(s) = n + 1
      BY <2>1, <3>1, MinMax
    <3>3. e[s \ {n + 1}] = h[s \ {n + 1}]
      <4>1. s \ {n + 1} \in D /\ n + 1 \notin s \ {n + 1}
        OBVIOUS
      <4> QED  BY <4>1
    <3>4. e[s] = g[<<h[s \ {n + 1}], n + 1>>]
      BY <2>1
    <3> HIDE DEF e
    <3> QED  BY <3>1, <3>2, <3>3, <3>4
  <2>2. CASE n + 1 \notin s
    <3>1. s \in SUBSET (1 .. n) /\ e[s] = h[s]
      BY <1>2, <2>2
    <3>2. \A y : s \ {y} \in D /\ n + 1 \notin s \ {y}
      BY <2>2
    <3>3. \A y : e[s \ {y}] = h[s \ {y}]
      BY <3>2
    <3>4. h[s] = IF s = {} THEN x ELSE g[<<h[s \ {Max(s)}], Max(s)>>]
      BY <1>1, <3>1
    <3> HIDE DEF e
    <3> QED  BY <3>1, <3>3, <3>4
  <2> QED  BY <2>1, <2>2
<1> HIDE DEF e
<1>6. e \in Folds(X, x, n + 1, g)
  BY <1>4, <1>5 DEF Folds
<1> QED  BY <1>6

\* That fold exists for any number of numbers, so that its steps may be used.
LEMMA FoldsExist ==
  ASSUME NEW X, NEW x \in X, NEW n \in Nat, NEW g \in Actions(X, n)
  PROVE  Folds(X, x, n, g) # {}
<1> DEFINE P == {i \in Nat : i <= n => Folds(X, x, i, g) # {}}
<1>1. 0 \in P
  <2> DEFINE h == [s \in SUBSET (1 .. 0) |-> x]
  <2>1. \A s \in SUBSET (1 .. 0) : s = {}
    OBVIOUS
  <2>2. h \in Folds(X, x, 0, g)
    BY <2>1 DEF Folds
  <2> QED  BY <2>2
<1>2. ASSUME NEW i \in Nat, i \in P PROVE i + 1 \in P
  <2> SUFFICES ASSUME i + 1 <= n PROVE Folds(X, x, i + 1, g) # {}
    OBVIOUS
  <2>1. PICK h \in Folds(X, x, i, g) : TRUE
    BY <1>2
  <2>2. i < n
    OBVIOUS
  <2> QED  BY <2>1, <2>2, FoldsStep
<1> HIDE DEF P
<1>3. Nat \subseteq P
  BY <1>1, <1>2, NumberInduction
<1> QED  BY <1>3 DEF P

LEMMA MaxIn ==
  ASSUME NEW n \in Nat, NEW s \in SUBSET (1 .. n), s # {}
  PROVE  Max(s) \in s
<1> DEFINE T == {n - y : y \in s}
<1>1. T \in SUBSET Nat /\ T # {}
  <2>1. PICK w \in s : TRUE
    OBVIOUS
  <2>2. n - w \in T
    OBVIOUS
  <2>3. \A y \in s : n - y \in Nat
    OBVIOUS
  <2> QED  BY <2>2, <2>3
<1>2. Min(T) \in T /\ \A z \in T : Min(T) <= z
  BY <1>1, MinMax
<1>3. PICK x \in s : Min(T) = n - x
  BY <1>2
<1>4. \A y \in s : n - x <= n - y
  BY <1>2, <1>3
<1>5. \A y \in s : x >= y
  BY <1>4
<1> QED  BY <1>5, MinMax

\* The greatest number of 1 .. n is n.
LEMMA MaxOfRange ==
  ASSUME NEW k \in Nat, k > 0
  PROVE  /\ 1 .. k # {} /\ Max(1 .. k) = k
         /\ (1 .. k) \ {Max(1 .. k)} = 1 .. k - 1
<1>1. 1 .. k \in SUBSET Nat /\ k \in 1 .. k /\ \A y \in 1 .. k : k >= y
  OBVIOUS
<1>2. Max(1 .. k) = k
  BY <1>1, MinMax
<1> QED  BY <1>1, <1>2

\* The texts between the steps of buildSQL and of buildFinalSQL.
Steps(text, params) ==
  {r \in [0 .. Len(params) -> Seq(Token)] :
     /\ r[0] = text
     /\ \A k \in 1 .. Len(params) : r[k] = ReplaceFirst(r[k - 1], k, params[k])}

StepsEvery(text, params) ==
  {r \in [0 .. Len(params) -> Seq(Token)] :
     /\ r[0] = text
     /\ \A k \in 1 .. Len(params) : r[k] = ReplaceEvery(r[k - 1], k, params[k])}

\* Replacing keeps a statement a statement.
LEMMA ReplaceFirstTyped ==
  ASSUME NEW text \in Seq(Token), NEW k \in Nat, NEW value \in Seq(Token)
  PROVE  ReplaceFirst(text, k, value) \in Seq(Token)
<1> DEFINE hits == {i \in DOMAIN text : Found(text[i], k)}
           at == Min(hits)
<1>1. CASE hits = {}
  BY <1>1 DEF ReplaceFirst
<1>2. CASE hits # {}
  <2>1. Len(text) \in Nat /\ DOMAIN text = 1 .. Len(text)
        /\ \A i \in 1 .. Len(text) : text[i] \in Token
    BY LenProperties, ElementOfSeq
  <2>2. at \in hits
    <3>1. hits \in SUBSET Nat
      BY <2>1
    <3> HIDE DEF hits
    <3> QED  BY <1>2, <3>1, MinMax
  <2>3. at \in 1 .. Len(text)
    BY <2>1, <2>2
  <2>4. ReplaceFirst(text, k, value)
          = (SubSeq(text, 1, at - 1) \o Replaced(text[at], k, value)) \o SubSeq(text, at + 1, Len(text))
    BY <1>2 DEF ReplaceFirst
  <2> HIDE DEF at, hits
  <2>5. SubSeq(text, 1, at - 1) \in Seq(Token)
    <3> DEFINE b == at - 1
    <3>1. b \in 0 .. Len(text)
      BY <2>1, <2>3
    <3> HIDE DEF b
    <3>2. Upto(text, b) \in Seq(Token)
      BY <3>1, Split
    <3> QED  BY <3>2 DEF Upto, b
  <2>6. SubSeq(text, at + 1, Len(text)) \in Seq(Token)
    <3>1. at \in 0 .. Len(text)
      BY <2>1, <2>3
    <3>2. Beyond(text, at) \in Seq(Token)
      BY <3>1, Split
    <3> QED  BY <3>2 DEF Beyond
  <2>7. Replaced(text[at], k, value) \in Seq(Token)
    BY <2>1, <2>3, ReplacedIs
  <2> DEFINE u == SubSeq(text, 1, at - 1)
             v == Replaced(text[at], k, value)
             w == SubSeq(text, at + 1, Len(text))
  <2>8. u \in Seq(Token) /\ v \in Seq(Token) /\ w \in Seq(Token)
    BY <2>5, <2>6, <2>7
  <2>9. ReplaceFirst(text, k, value) = (u \o v) \o w
    BY <2>4, Zenon
  <2> HIDE DEF u, v, w
  <2>10. u \o v \in Seq(Token)
    BY <2>8, ConcatProperties
  <2>11. (u \o v) \o w \in Seq(Token)
    BY <2>8, <2>10, ConcatProperties
  <2> QED  BY <2>9, <2>11, Zenon
<1> QED  BY <1>1, <1>2

\* What ReplaceEvery does at one token.
Every(k, value) ==
  [t \in Token |-> IF Found(t, k) THEN Replaced(t, k, value) ELSE <<t>>]

\* ReplaceEvery, element by element.
LEMMA ReplaceEveryIs ==
  ASSUME NEW text \in Seq(Token), NEW k \in Nat, NEW value \in Seq(Token)
  PROVE  /\ Every(k, value) \in Maps(Token, Token)
         /\ ReplaceEvery(text, k, value) = FlatMap(text, Every(k, value))
         /\ ReplaceEvery(text, k, value) \in Seq(Token)
<1>1. Every(k, value) \in Maps(Token, Token)
  <2>1. ASSUME NEW t \in Token
        PROVE  (IF Found(t, k) THEN Replaced(t, k, value) ELSE <<t>>) \in Seq(Token)
    BY ReplacedIs
  <2> QED  BY <2>1 DEF Every, Maps
<1>2. ReplaceEvery(text, k, value) = FlatMap(text, Every(k, value))
  <2>1. Len(text) \in Nat /\ DOMAIN text = 1 .. Len(text)
        /\ \A i \in 1 .. Len(text) : text[i] \in Token
    BY LenProperties, ElementOfSeq
  <2>2. Pieces(text, Every(k, value))
          = [i \in DOMAIN text |-> IF Found(text[i], k) THEN Replaced(text[i], k, value) ELSE <<text[i]>>]
    BY <2>1 DEF Pieces, Every
  <2> QED  BY <2>2, Zenon DEF ReplaceEvery, FlatMap
<1> QED  BY <1>1, <1>2, FlatMapTyped

\* buildSQL(): the statement after each of its parameters.
LEMMA BuildSQLSteps ==
  ASSUME NEW text \in Seq(Token), NEW params \in Seq(Values)
  PROVE  \E r \in Steps(text, params) : BuildSQL(text, params) = r[Len(params)]
<1> DEFINE X == Seq(Token)
           n == Len(params)
           g == [p \in X \X (1 .. n) |-> ReplaceFirst(p[1], p[2], params[p[2]])]
           F == [i \in DOMAIN params |-> i]
           Is(h) == h = [s \in SUBSET DOMAIN F |->
                          IF s = {} THEN text
                          ELSE ReplaceFirst(h[s \ {Max(s)}], F[Max(s)], params[F[Max(s)]])]
<1>1. n \in Nat /\ DOMAIN params = 1 .. n /\ \A k \in 1 .. n : params[k] \in Seq(Token)
  BY LenProperties, ElementOfSeq DEF Values
<1>2. g \in Actions(X, n)
  <2>1. ASSUME NEW p \in X \X (1 .. n) PROVE ReplaceFirst(p[1], p[2], params[p[2]]) \in X
    BY <1>1, ReplaceFirstTyped
  <2> QED  BY <2>1 DEF Actions
<1>3. PICK h \in Folds(X, text, n, g) : TRUE
  BY <1>1, <1>2, FoldsExist, ZenonT(40)
<1>4. Is(h)
  <2>1. /\ h \in [SUBSET (1 .. n) -> X]
        /\ \A s \in SUBSET (1 .. n) : h[s] = IF s = {} THEN text ELSE g[<<h[s \ {Max(s)}], Max(s)>>]
    BY <1>3 DEF Folds
  <2>2. ASSUME NEW s \in SUBSET (1 .. n), s # {}
        PROVE  g[<<h[s \ {Max(s)}], Max(s)>>]
                 = ReplaceFirst(h[s \ {Max(s)}], Max(s), params[Max(s)])
    <3>1. Max(s) \in 1 .. n
      BY <1>1, <2>2, MaxIn
    <3>2. h[s \ {Max(s)}] \in X
      BY <2>1
    <3> QED  BY <3>1, <3>2
  <2>3. \A s \in SUBSET (1 .. n) :
          h[s] = IF s = {} THEN text ELSE ReplaceFirst(h[s \ {Max(s)}], Max(s), params[Max(s)])
    BY <2>1, <2>2
  <2>4. DOMAIN F = 1 .. n
    BY <1>1
  <2>5. \A s \in SUBSET DOMAIN F :
          h[s] = IF s = {} THEN text ELSE ReplaceFirst(h[s \ {Max(s)}], F[Max(s)], params[F[Max(s)]])
    <3> SUFFICES ASSUME NEW s \in SUBSET DOMAIN F, s # {} PROVE F[Max(s)] = Max(s)
      BY <2>3, <2>4
    <3>1. Max(s) \in 1 .. n
      BY <1>1, <2>4, MaxIn
    <3> QED  BY <1>1, <3>1
  <2> HIDE DEF F
  <2> QED  BY <2>1, <2>4, <2>5
<1> HIDE DEF g
<1> DEFINE c == CHOOSE iter : Is(iter)
<1>5. Is(c)
  BY <1>4, Zenon
<1>6. BuildSQL(text, params) = c[DOMAIN F]
  BY Zenon DEF BuildSQL, FoldLeftDomain, FoldLeft, MapThenFoldSet
<1>7. ASSUME NEW k \in 0 .. n
      PROVE  c[1 .. k] = IF k = 0 THEN text ELSE ReplaceFirst(c[1 .. k - 1], k, params[k])
  <2>1. DOMAIN F = 1 .. n /\ \A i \in 1 .. n : F[i] = i
    BY <1>1
  <2>2. 1 .. k \in SUBSET DOMAIN F
    BY <1>1, <2>1
  <2>3. c[1 .. k] = IF 1 .. k = {} THEN text
                    ELSE ReplaceFirst(c[(1 .. k) \ {Max(1 .. k)}], F[Max(1 .. k)],
                                      params[F[Max(1 .. k)]])
    <3> DEFINE d == [s \in SUBSET DOMAIN F |->
                      IF s = {} THEN text
                      ELSE ReplaceFirst(c[s \ {Max(s)}], F[Max(s)], params[F[Max(s)]])]
    <3>1. d[1 .. k] = IF 1 .. k = {} THEN text
                      ELSE ReplaceFirst(c[(1 .. k) \ {Max(1 .. k)}], F[Max(1 .. k)],
                                        params[F[Max(1 .. k)]])
      <4> HIDE DEF F, c
      <4> QED  BY <2>2
    <3>2. c = d
      BY <1>5, Zenon
    <3> QED  BY <3>1, <3>2, Zenon
  <2> HIDE DEF c, F
  <2>4. CASE k = 0
    <3>1. 1 .. k = {}
      BY <2>4
    <3> QED  BY <2>3, <2>4, <3>1, Zenon
  <2>5. CASE k # 0
    <3>1. /\ 1 .. k # {} /\ Max(1 .. k) = k /\ (1 .. k) \ {Max(1 .. k)} = 1 .. k - 1
          /\ k \in 1 .. n
      <4>1. k \in Nat /\ k > 0 /\ k \in 1 .. n
        BY <1>1, <2>5
      <4> QED  BY <4>1, MaxOfRange
    <3>2. F[k] = k
      BY <2>1, <3>1
    <3> QED  BY <2>3, <2>5, <3>1, <3>2, Zenon
  <2> QED  BY <2>4, <2>5
<1> HIDE DEF c, Is
<1> DEFINE r == [k \in 0 .. n |-> c[1 .. k]]
           P == {k \in Nat : k <= n => c[1 .. k] \in Seq(Token)}
<1>8. r[0] = text /\ \A k \in 1 .. n : r[k] = ReplaceFirst(r[k - 1], k, params[k])
  <2>1. r[0] = text
    BY <1>1, <1>7
  <2>2. ASSUME NEW k \in 1 .. n PROVE r[k] = ReplaceFirst(r[k - 1], k, params[k])
    <3>1. k \in 0 .. n /\ k - 1 \in 0 .. n /\ k # 0
      BY <1>1
    <3> QED  BY <1>7, <3>1
  <2> QED  BY <2>1, <2>2
<1>9. 0 \in P
  BY <1>1, <1>7
<1>10. ASSUME NEW k \in Nat, k \in P PROVE k + 1 \in P
  <2> SUFFICES ASSUME k + 1 <= n PROVE c[1 .. k + 1] \in Seq(Token)
    OBVIOUS
  <2>1. k + 1 \in 0 .. n /\ k + 1 \in 1 .. n /\ (k + 1) - 1 = k /\ k + 1 # 0 /\ k + 1 \in Nat
    BY <1>1
  <2>2. c[1 .. k + 1] = ReplaceFirst(c[1 .. k], k + 1, params[k + 1])
    BY <1>7, <2>1
  <2>3. c[1 .. k] \in Seq(Token)
    BY <1>10, <2>1
  <2> QED  BY <1>1, <2>1, <2>2, <2>3, ReplaceFirstTyped
<1> HIDE DEF P
<1>11. Nat \subseteq P
  BY <1>9, <1>10, NumberInduction
<1>12. r \in [0 .. n -> Seq(Token)]
  <2>1. \A k \in 0 .. n : c[1 .. k] \in Seq(Token)
    BY <1>1, <1>11 DEF P
  <2> QED  BY <2>1
<1>13. r[n] = c[1 .. n]
  BY <1>1
<1>14. DOMAIN F = 1 .. n
  BY <1>1
<1> HIDE DEF r, F
<1>15. r \in Steps(text, params)
  BY <1>8, <1>12 DEF Steps
<1> QED  BY <1>6, <1>13, <1>14, <1>15

\* buildFinalSQL(): the same, where every place is replaced.
LEMMA BuildFinalSQLSteps ==
  ASSUME NEW text \in Seq(Token), NEW params \in Seq(Values)
  PROVE  \E r \in StepsEvery(text, params) : BuildFinalSQL(text, params) = r[Len(params)]
<1> DEFINE X == Seq(Token)
           n == Len(params)
           g == [p \in X \X (1 .. n) |-> ReplaceEvery(p[1], p[2], params[p[2]])]
           F == [i \in DOMAIN params |-> i]
           Is(h) == h = [s \in SUBSET DOMAIN F |->
                          IF s = {} THEN text
                          ELSE ReplaceEvery(h[s \ {Max(s)}], F[Max(s)], params[F[Max(s)]])]
<1>1. n \in Nat /\ DOMAIN params = 1 .. n /\ \A k \in 1 .. n : params[k] \in Seq(Token)
  BY LenProperties, ElementOfSeq DEF Values
<1>2. g \in Actions(X, n)
  <2>1. ASSUME NEW p \in X \X (1 .. n) PROVE ReplaceEvery(p[1], p[2], params[p[2]]) \in X
    BY <1>1, ReplaceEveryIs
  <2> QED  BY <2>1 DEF Actions
<1>3. PICK h \in Folds(X, text, n, g) : TRUE
  BY <1>1, <1>2, FoldsExist, ZenonT(40)
<1>4. Is(h)
  <2>1. /\ h \in [SUBSET (1 .. n) -> X]
        /\ \A s \in SUBSET (1 .. n) : h[s] = IF s = {} THEN text ELSE g[<<h[s \ {Max(s)}], Max(s)>>]
    BY <1>3 DEF Folds
  <2>2. ASSUME NEW s \in SUBSET (1 .. n), s # {}
        PROVE  g[<<h[s \ {Max(s)}], Max(s)>>]
                 = ReplaceEvery(h[s \ {Max(s)}], Max(s), params[Max(s)])
    <3>1. Max(s) \in 1 .. n
      BY <1>1, <2>2, MaxIn
    <3>2. h[s \ {Max(s)}] \in X
      BY <2>1
    <3> QED  BY <3>1, <3>2
  <2>3. \A s \in SUBSET (1 .. n) :
          h[s] = IF s = {} THEN text ELSE ReplaceEvery(h[s \ {Max(s)}], Max(s), params[Max(s)])
    BY <2>1, <2>2
  <2>4. DOMAIN F = 1 .. n
    BY <1>1
  <2>5. \A s \in SUBSET DOMAIN F :
          h[s] = IF s = {} THEN text ELSE ReplaceEvery(h[s \ {Max(s)}], F[Max(s)], params[F[Max(s)]])
    <3> SUFFICES ASSUME NEW s \in SUBSET DOMAIN F, s # {} PROVE F[Max(s)] = Max(s)
      BY <2>3, <2>4
    <3>1. Max(s) \in 1 .. n
      BY <1>1, <2>4, MaxIn
    <3> QED  BY <1>1, <3>1
  <2> HIDE DEF F
  <2> QED  BY <2>1, <2>4, <2>5
<1> HIDE DEF g
<1> DEFINE c == CHOOSE iter : Is(iter)
<1>5. Is(c)
  BY <1>4, Zenon
<1>6. BuildFinalSQL(text, params) = c[DOMAIN F]
  BY Zenon DEF BuildFinalSQL, FoldLeftDomain, FoldLeft, MapThenFoldSet
<1>7. ASSUME NEW k \in 0 .. n
      PROVE  c[1 .. k] = IF k = 0 THEN text ELSE ReplaceEvery(c[1 .. k - 1], k, params[k])
  <2>1. DOMAIN F = 1 .. n /\ \A i \in 1 .. n : F[i] = i
    BY <1>1
  <2>2. 1 .. k \in SUBSET DOMAIN F
    BY <1>1, <2>1
  <2>3. c[1 .. k] = IF 1 .. k = {} THEN text
                    ELSE ReplaceEvery(c[(1 .. k) \ {Max(1 .. k)}], F[Max(1 .. k)],
                                      params[F[Max(1 .. k)]])
    <3> DEFINE d == [s \in SUBSET DOMAIN F |->
                      IF s = {} THEN text
                      ELSE ReplaceEvery(c[s \ {Max(s)}], F[Max(s)], params[F[Max(s)]])]
    <3>1. d[1 .. k] = IF 1 .. k = {} THEN text
                      ELSE ReplaceEvery(c[(1 .. k) \ {Max(1 .. k)}], F[Max(1 .. k)],
                                        params[F[Max(1 .. k)]])
      <4> HIDE DEF F, c
      <4> QED  BY <2>2
    <3>2. c = d
      BY <1>5, Zenon
    <3> QED  BY <3>1, <3>2, Zenon
  <2> HIDE DEF c, F
  <2>4. CASE k = 0
    <3>1. 1 .. k = {}
      BY <2>4
    <3> QED  BY <2>3, <2>4, <3>1, Zenon
  <2>5. CASE k # 0
    <3>1. /\ 1 .. k # {} /\ Max(1 .. k) = k /\ (1 .. k) \ {Max(1 .. k)} = 1 .. k - 1
          /\ k \in 1 .. n
      <4>1. k \in Nat /\ k > 0 /\ k \in 1 .. n
        BY <1>1, <2>5
      <4> QED  BY <4>1, MaxOfRange
    <3>2. F[k] = k
      BY <2>1, <3>1
    <3> QED  BY <2>3, <2>5, <3>1, <3>2, Zenon
  <2> QED  BY <2>4, <2>5
<1> HIDE DEF c, Is
<1> DEFINE r == [k \in 0 .. n |-> c[1 .. k]]
           P == {k \in Nat : k <= n => c[1 .. k] \in Seq(Token)}
<1>8. r[0] = text /\ \A k \in 1 .. n : r[k] = ReplaceEvery(r[k - 1], k, params[k])
  <2>1. r[0] = text
    BY <1>1, <1>7
  <2>2. ASSUME NEW k \in 1 .. n PROVE r[k] = ReplaceEvery(r[k - 1], k, params[k])
    <3>1. k \in 0 .. n /\ k - 1 \in 0 .. n /\ k # 0
      BY <1>1
    <3> QED  BY <1>7, <3>1
  <2> QED  BY <2>1, <2>2
<1>9. 0 \in P
  BY <1>1, <1>7
<1>10. ASSUME NEW k \in Nat, k \in P PROVE k + 1 \in P
  <2> SUFFICES ASSUME k + 1 <= n PROVE c[1 .. k + 1] \in Seq(Token)
    OBVIOUS
  <2>1. k + 1 \in 0 .. n /\ k + 1 \in 1 .. n /\ (k + 1) - 1 = k /\ k + 1 # 0 /\ k + 1 \in Nat
    BY <1>1
  <2>2. c[1 .. k + 1] = ReplaceEvery(c[1 .. k], k + 1, params[k + 1])
    BY <1>7, <2>1
  <2>3. c[1 .. k] \in Seq(Token)
    BY <1>10, <2>1
  <2> QED  BY <1>1, <2>1, <2>2, <2>3, ReplaceEveryIs
<1> HIDE DEF P
<1>11. Nat \subseteq P
  BY <1>9, <1>10, NumberInduction
<1>12. r \in [0 .. n -> Seq(Token)]
  <2>1. \A k \in 0 .. n : c[1 .. k] \in Seq(Token)
    BY <1>1, <1>11 DEF P
  <2> QED  BY <2>1
<1>13. r[n] = c[1 .. n]
  BY <1>1
<1>14. DOMAIN F = 1 .. n
  BY <1>1
<1> HIDE DEF r, F
<1>15. r \in StepsEvery(text, params)
  BY <1>8, <1>12 DEF StepsEvery
<1> QED  BY <1>6, <1>13, <1>14, <1>15

-----------------------------------------------------------------------------
(* The text after k parameters.                                            *)

\* The references above k0 and up to k are replaced by their own parameters.
Filled(k0, k, params) ==
  [t \in Token |-> IF t.kind = "ref" /\ t.n \in k0 + 1 .. k
                   THEN Placed(params[t.n], t.col) ELSE <<t>>]

\* Filled(k0, k, params): the references above k0 and up to k, by their own values.
LEMMA FilledIs ==
  ASSUME NEW params \in Seq(Values), NEW k0 \in Nat, NEW k \in Nat, k <= Len(params)
  PROVE  /\ Filled(k0, k, params) \in Maps(Token, Token)
         /\ \A t \in Token : Filled(k0, k, params)[t] =
              IF t.kind = "ref" /\ t.n \in k0 + 1 .. k THEN Placed(params[t.n], t.col) ELSE <<t>>
<1>1. ASSUME NEW t \in Token
      PROVE  (IF t.kind = "ref" /\ t.n \in k0 + 1 .. k THEN Placed(params[t.n], t.col) ELSE <<t>>)
                \in Seq(Token)
  <2>1. CASE t.kind = "ref" /\ t.n \in k0 + 1 .. k
    <3>1. t.n \in 1 .. Len(params) /\ t.col \in Nat
      BY <2>1, TokenIs, LenProperties
    <3>2. params[t.n] \in Seq(Token)
      BY <3>1, ElementOfSeq DEF Values
    <3>3. Placed(params[t.n], t.col) \in Seq(Token)
      BY <3>1, <3>2, PlacedTyped
    <3> QED  BY <2>1, <3>3
  <2>2. CASE ~ (t.kind = "ref" /\ t.n \in k0 + 1 .. k)
    <3>1. <<t>> \in Seq(Token)
      OBVIOUS
    <3> QED  BY <2>2, <3>1
  <2> QED  BY <2>1, <2>2
<1>2. Filled(k0, k, params) \in Maps(Token, Token)
  BY <1>1 DEF Filled, Maps
<1>3. \A t \in Token : Filled(k0, k, params)[t] =
        IF t.kind = "ref" /\ t.n \in k0 + 1 .. k THEN Placed(params[t.n], t.col) ELSE <<t>>
  BY DEF Filled
<1> QED  BY <1>2, <1>3

\* The second half alone.
LEMMA FilledAt ==
  ASSUME NEW params \in Seq(Values), NEW k0 \in Nat, NEW k \in Nat, k <= Len(params)
  PROVE  \A t \in Token : Filled(k0, k, params)[t] =
           IF t.kind = "ref" /\ t.n \in k0 + 1 .. k THEN Placed(params[t.n], t.col) ELSE <<t>>
BY FilledIs

\* The statement that is meant has all references filled.
LEMMA IntendedIs ==
  ASSUME NEW text \in Seq(Token), NEW params \in Seq(Values)
  PROVE  Intended(text, params) = FlatMap(text, Filled(0, Len(params), params))
<1> DEFINE f == Filled(0, Len(params), params)
<1>1. /\ Len(text) \in Nat /\ DOMAIN text = 1 .. Len(text)
      /\ \A i \in 1 .. Len(text) : text[i] \in Token
      /\ Len(params) \in Nat /\ DOMAIN params = 1 .. Len(params)
      /\ \A i \in 1 .. Len(params) : params[i] \in Seq(Token)
  BY LenProperties, ElementOfSeq DEF Values
<1>1a. 0 \in Nat /\ Len(params) \in Nat /\ Len(params) <= Len(params) /\ 0 + 1 = 1
  BY <1>1
<1>1b. \A t \in Token : f[t] = IF t.kind = "ref" /\ t.n \in 0 + 1 .. Len(params)
                             THEN Placed(params[t.n], t.col) ELSE <<t>>
  BY <1>1a, FilledAt, Zenon
<1> HIDE DEF f
<1>2. ASSUME NEW i \in 1 .. Len(text)
      PROVE  f[text[i]] = IF text[i].kind = "ref" /\ text[i].n \in DOMAIN params
                          THEN Replaced(text[i], text[i].n, params[text[i].n]) ELSE <<text[i]>>
  <2> DEFINE t == text[i]
  <2>1. t \in Token /\ t.n \in Nat
    BY <1>1, TokenIs
  <2> HIDE DEF t
  <2>2. f[t] = IF t.kind = "ref" /\ t.n \in 1 .. Len(params) THEN Placed(params[t.n], t.col) ELSE <<t>>
    BY <1>1a, <1>1b, <2>1
  <2>3. t.n \in 1 .. Len(params) => Replaced(t, t.n, params[t.n]) = Placed(params[t.n], t.col)
    BY <1>1, <2>1, ReplacedIs
  <2>4. f[t] = IF t.kind = "ref" /\ t.n \in DOMAIN params
               THEN Replaced(t, t.n, params[t.n]) ELSE <<t>>
    BY <1>1, <2>2, <2>3
  <2> QED  BY <2>4 DEF t
<1>3. Pieces(text, f) = [i \in DOMAIN text |->
                           IF text[i].kind = "ref" /\ text[i].n \in DOMAIN params
                           THEN Replaced(text[i], text[i].n, params[text[i].n]) ELSE <<text[i]>>]
  BY <1>1, <1>2 DEF Pieces
<1>4. Intended(text, params) = FlatMap(text, f)
  BY <1>3, Zenon DEF Intended, FlatMap
<1> QED  BY <1>4 DEF f

LEMMA FilledNone ==
  ASSUME NEW text \in Seq(Token), NEW params \in Seq(Values), NEW k \in Nat, k <= Len(params)
  PROVE  FlatMap(text, Filled(k, k, params)) = text
<1>1. Len(text) \in Nat /\ \A i \in 1 .. Len(text) : text[i] \in Token
  BY LenProperties, ElementOfSeq
<1>2. \A i \in 1 .. Len(text) : Filled(k, k, params)[text[i]] = <<text[i]>>
  <2>1. ASSUME NEW t \in Token PROVE Filled(k, k, params)[t] = <<t>>
    <3>1. t.n \notin k + 1 .. k
      BY TokenIs
    <3> QED  BY <3>1, FilledIs
  <2> QED  BY <1>1, <2>1
<1>3. Filled(k, k, params) \in Maps(Token, Token)
  BY FilledIs
<1> QED  BY <1>2, <1>3, FlatMapSame

\* A value stays clean of k wherever it is placed.
LEMMA PlacedClean ==
  ASSUME NEW k \in Nat, NEW value \in Seq(Token), NEW c \in Nat,
         \A i \in 1 .. Len(value) : ~ Found(value[i], k)
  PROVE  Placed(value, c) \in Seq(Clean(k))
<1> DEFINE p == Placed(value, c)
<1>1. p \in Seq(Token) /\ Len(p) = Len(value)
  BY PlacedTyped
<1>1a. ASSUME NEW j \in 1 .. Len(value) PROVE ~ Found(p[j], k)
  <2>1. p[j].kind = value[j].kind /\ p[j].n = value[j].n
    BY PlacedTyped
  <2> HIDE DEF p
  <2>2. ~ Found(value[j], k)
    OBVIOUS
  <2> QED  BY <2>1, <2>2 DEF Found
<1> HIDE DEF p
<1>2. Len(p) \in Nat /\ DOMAIN p = 1 .. Len(p) /\ \A j \in 1 .. Len(p) : p[j] \in Token
  BY <1>1, LenProperties, ElementOfSeq
<1>3. \A j \in 1 .. Len(p) : p[j] \in Clean(k)
  BY <1>1, <1>1a, <1>2 DEF Clean
<1>4. p \in Seq(Clean(k))
  BY <1>1, <1>2, <1>3
<1> QED  BY <1>4 DEF p

\* Without a reference to k, one parameter more fills nothing more.
LEMMA FilledAgree ==
  ASSUME NEW y \in Seq(Token), NEW params \in Seq(Values), NEW k0 \in Nat, NEW k \in k0 + 1 .. Len(params),
         \A i \in 1 .. Len(y) : y[i].n # k
  PROVE  FlatMap(y, Filled(k0, k - 1, params)) = FlatMap(y, Filled(k0, k, params))
<1> DEFINE f == Filled(k0, k - 1, params)
           g == Filled(k0, k, params)
<1>1. Len(y) \in Nat /\ DOMAIN y = 1 .. Len(y) /\ \A i \in 1 .. Len(y) : y[i] \in Token
  BY LenProperties, ElementOfSeq
<1>2. Len(params) \in Nat /\ k \in Nat /\ k - 1 \in Nat /\ k - 1 <= Len(params) /\ k <= Len(params)
  BY LenProperties
<1>2a. \A t \in Token : f[t] = IF t.kind = "ref" /\ t.n \in k0 + 1 .. k - 1
                             THEN Placed(params[t.n], t.col) ELSE <<t>>
  BY <1>2, FilledAt, Zenon
<1>2b. \A t \in Token : g[t] = IF t.kind = "ref" /\ t.n \in k0 + 1 .. k
                             THEN Placed(params[t.n], t.col) ELSE <<t>>
  BY <1>2, FilledAt, Zenon
<1> HIDE DEF f, g
<1>3. ASSUME NEW i \in 1 .. Len(y) PROVE f[y[i]] = g[y[i]]
  <2>1. y[i] \in Token /\ y[i].n \in Nat /\ y[i].n # k
    BY <1>1, TokenIs
  <2>2. y[i].n \in k0 + 1 .. k - 1 <=> y[i].n \in k0 + 1 .. k
    BY <1>2, <2>1
  <2>3. f[y[i]] = IF y[i].kind = "ref" /\ y[i].n \in k0 + 1 .. k - 1
                  THEN Placed(params[y[i].n], y[i].col) ELSE <<y[i]>>
    BY <1>2a, <2>1
  <2>4. g[y[i]] = IF y[i].kind = "ref" /\ y[i].n \in k0 + 1 .. k
                  THEN Placed(params[y[i].n], y[i].col) ELSE <<y[i]>>
    BY <1>2b, <2>1
  <2> QED  BY <2>2, <2>3, <2>4
<1>4. Pieces(y, f) = Pieces(y, g)
  BY <1>1, <1>3 DEF Pieces
<1> QED  BY <1>4 DEF FlatMap, f, g

\* No value from k0 + 1 on carries the reference to a later parameter.
Apart(params, k0) ==
  \A i \in k0 + 1 .. Len(params) : \A j \in i + 1 .. Len(params) :
    \A m \in 1 .. Len(params[i]) : ~ Found(params[i][m], j)

\* The pieces that are filled, and those that are not a reference to k, are clean.
LEMMA FilledClean ==
  ASSUME NEW y \in Seq(Token), NEW params \in Seq(Values), NEW k0 \in Nat, NEW k \in k0 + 1 .. Len(params),
         Apart(params, k0),
         \A i \in 1 .. Len(y) : (y[i].kind = "ref" /\ y[i].n \in k0 + 1 .. k - 1) \/ ~ Found(y[i], k)
  PROVE  FlatMap(y, Filled(k0, k - 1, params)) \in Seq(Clean(k))
<1> DEFINE f == Filled(k0, k - 1, params)
<1>1. Len(y) \in Nat /\ DOMAIN y = 1 .. Len(y) /\ \A i \in 1 .. Len(y) : y[i] \in Token
  BY LenProperties, ElementOfSeq
<1>2. Len(params) \in Nat /\ k \in Nat /\ k - 1 \in Nat /\ k - 1 <= Len(params) /\ k <= Len(params)
  BY LenProperties
<1>2a. \A t \in Token : f[t] = IF t.kind = "ref" /\ t.n \in k0 + 1 .. k - 1
                             THEN Placed(params[t.n], t.col) ELSE <<t>>
  BY <1>2, FilledAt, Zenon
<1> HIDE DEF f
<1>3. ASSUME NEW i \in 1 .. Len(y) PROVE f[y[i]] \in Seq(Clean(k))
  <2>1. y[i] \in Token /\ y[i].n \in Nat /\ y[i].col \in Nat
    BY <1>1, TokenIs
  <2>2. f[y[i]] = IF y[i].kind = "ref" /\ y[i].n \in k0 + 1 .. k - 1
                  THEN Placed(params[y[i].n], y[i].col) ELSE <<y[i]>>
    BY <1>2a, <2>1
  <2>3. CASE y[i].kind = "ref" /\ y[i].n \in k0 + 1 .. k - 1
    <3> DEFINE n == y[i].n
    <3>1. n \in 1 .. Len(params) /\ n \in k0 + 1 .. Len(params) /\ k \in n + 1 .. Len(params)
      BY <1>2, <2>3
    <3>2. params[n] \in Seq(Token)
      BY <3>1, ElementOfSeq DEF Values
    <3>3. \A m \in 1 .. Len(params[n]) : ~ Found(params[n][m], k)
      BY <3>1 DEF Apart
    <3> HIDE DEF n
    <3>4. Placed(params[n], y[i].col) \in Seq(Clean(k))
      BY <1>2, <2>1, <3>2, <3>3, PlacedClean
    <3> QED  BY <2>2, <2>3, <3>4 DEF n
  <2>4. CASE ~ (y[i].kind = "ref" /\ y[i].n \in k0 + 1 .. k - 1)
    <3>1. y[i] \in Clean(k)
      BY <2>1, <2>4 DEF Clean
    <3> QED  BY <2>2, <2>4, <3>1
  <2> QED  BY <2>3, <2>4
<1>4. FlatMap(y, f) \in Seq(Clean(k))
  BY <1>3, FlatMapWithin
<1> QED  BY <1>4 DEF f

\* A sequence around one of its elements.
LEMMA SplitAt ==
  ASSUME NEW S, NEW s \in Seq(S), NEW i \in 1 .. Len(s)
  PROVE  /\ Upto(s, i - 1) \in Seq(S) /\ Beyond(s, i) \in Seq(S) /\ s[i] \in S
         /\ s = (Upto(s, i - 1) \o <<s[i]>>) \o Beyond(s, i)
         /\ Len(Upto(s, i - 1)) = i - 1 /\ Len(Beyond(s, i)) = Len(s) - i
         /\ \A j \in 1 .. i - 1 : Upto(s, i - 1)[j] = s[j]
         /\ \A j \in 1 .. Len(s) - i : Beyond(s, i)[j] = s[i + j]
<1> DEFINE k == i - 1
<1>1. Len(s) \in Nat /\ k \in 0 .. Len(s) /\ i \in 0 .. Len(s) /\ i = k + 1 /\ s[i] \in S
  BY LenProperties, ElementOfSeq
<1>1a. i \in 0 .. Len(s)
  BY <1>1
<1> HIDE DEF k
<1> DEFINE a == Upto(s, k)
           b == Beyond(s, i)
           c == Upto(s, i)
<1>2. /\ a \in Seq(S) /\ Len(a) = k /\ \A j \in 1 .. k : a[j] = s[j]
  BY <1>1, Split
<1>3. /\ c \in Seq(S) /\ b \in Seq(S) /\ s = c \o b /\ Len(c) = i /\ Len(b) = Len(s) - i
      /\ \A j \in 1 .. i : c[j] = s[j]
      /\ \A j \in 1 .. Len(s) - i : b[j] = s[i + j]
  BY <1>1a, Split
<1> HIDE DEF a, b, c
<1>4. a \o <<s[i]>> = Append(a, s[i])
  BY <1>1, <1>2, AppendIsConcat
<1>5. /\ Append(a, s[i]) \in Seq(S) /\ Len(Append(a, s[i])) = i
      /\ (\A j \in 1 .. k : Append(a, s[i])[j] = a[j]) /\ Append(a, s[i])[i] = s[i]
  BY <1>1, <1>2, AppendProperties
<1>6. Append(a, s[i]) = c
  <2>1. \A j \in 1 .. i : Append(a, s[i])[j] = c[j]
    BY <1>1, <1>2, <1>3, <1>5
  <2> QED  BY <1>3, <1>5, <2>1, SeqEqual
<1>7. s = (a \o <<s[i]>>) \o b
  BY <1>3, <1>4, <1>6, Zenon
<1> QED  BY <1>1, <1>2, <1>3, <1>7 DEF a, b, k

\* References above k0, each once, in rising order, $10 only after $1.
Rising(y, k0) ==
  /\ \A i \in 1 .. Len(y) : y[i].kind = "ref" /\ y[i].n > k0
  /\ \A i, j \in 1 .. Len(y) : i < j => y[i].n < y[j].n
  /\ \A i \in 1 .. Len(y) : y[i].n >= 10 /\ y[i].n \div 10 > k0 =>
       \E j \in 1 .. i - 1 : y[j].n = y[i].n \div 10

\* Concatenation and one element, as operators of their own.
Cat(a, b) == a \o b
One(t) == <<t>>

LEMMA CatTyped ==
  ASSUME NEW S, NEW a \in Seq(S), NEW b \in Seq(S)
  PROVE  Cat(a, b) \in Seq(S)
BY ConcatProperties DEF Cat

LEMMA OneTyped ==
  ASSUME NEW S, NEW t \in S
  PROVE  One(t) \in Seq(S)
BY DEF One

\* Cat, the join under a name the provers leave alone, is associative.
LEMMA CatAssociative ==
  ASSUME NEW S, NEW a \in Seq(S), NEW b \in Seq(S), NEW c \in Seq(S)
  PROVE  Cat(Cat(a, b), c) = Cat(a, Cat(b, c))
BY ConcatAssociative DEF Cat

LEMMA FlatMapCat ==
  ASSUME NEW S, NEW T, NEW a \in Seq(S), NEW b \in Seq(S), NEW f \in Maps(S, T)
  PROVE  FlatMap(Cat(a, b), f) = Cat(FlatMap(a, f), FlatMap(b, f))
BY FlatMapConcat DEF Cat

LEMMA FlatMapOf ==
  ASSUME NEW S, NEW T, NEW t \in S, NEW f \in Maps(S, T)
  PROVE  FlatMap(One(t), f) = f[t]
BY FlatMapOne DEF One

LEMMA CatSplit ==
  ASSUME NEW S, NEW s \in Seq(S), NEW i \in 1 .. Len(s)
  PROVE  s = Cat(Cat(Upto(s, i - 1), One(s[i])), Beyond(s, i))
BY SplitAt DEF Cat, One

\* FlatMap around one element.
LEMMA FlatMapSplit ==
  ASSUME NEW S, NEW T, NEW s \in Seq(S), NEW f \in Maps(S, T), NEW i \in 1 .. Len(s)
  PROVE  FlatMap(s, f) = Cat(Cat(FlatMap(Upto(s, i - 1), f), f[s[i]]), FlatMap(Beyond(s, i), f))
<1> DEFINE a == Upto(s, i - 1)
           b == Beyond(s, i)
           t == s[i]
<1>1. a \in Seq(S) /\ b \in Seq(S) /\ t \in S
  BY SplitAt
<1>2. s = Cat(Cat(a, One(t)), b)
  BY CatSplit
<1> HIDE DEF a, b, t
<1>3. One(t) \in Seq(S) /\ Cat(a, One(t)) \in Seq(S)
  BY <1>1, OneTyped, CatTyped
<1>4. FlatMap(Cat(Cat(a, One(t)), b), f) = Cat(FlatMap(Cat(a, One(t)), f), FlatMap(b, f))
  BY <1>1, <1>3, FlatMapCat
<1>5. FlatMap(Cat(a, One(t)), f) = Cat(FlatMap(a, f), FlatMap(One(t), f))
  BY <1>1, <1>3, FlatMapCat
<1>6. FlatMap(One(t), f) = f[t]
  BY <1>1, FlatMapOf
<1>7. FlatMap(s, f) = Cat(Cat(FlatMap(a, f), f[t]), FlatMap(b, f))
  BY <1>2, <1>4, <1>5, <1>6, Zenon
<1> QED  BY <1>7, Zenon DEF a, b, t

\* The same for tokens.
LEMMA TokensSplit ==
  ASSUME NEW s \in Seq(Token), NEW f \in Maps(Token, Token), NEW i \in 1 .. Len(s)
  PROVE  FlatMap(s, f) = Cat(Cat(FlatMap(Upto(s, i - 1), f), f[s[i]]), FlatMap(Beyond(s, i), f))
BY FlatMapSplit

\* buildSQL() looks past what is clean: it replaces the first place behind it.
LEMMA ReplaceBehind ==
  ASSUME NEW k \in Nat, NEW x \in Seq(Clean(k)), NEW a \in Seq(Clean(k)), NEW t \in Token,
         NEW b \in Seq(Token), NEW value \in Seq(Token), t.kind = "ref", t.n = k
  PROVE  ReplaceFirst(Cat(x, Cat(Cat(a, One(t)), b)), k, value)
           = Cat(x, Cat(Cat(a, Placed(value, t.col)), b))
<1> DEFINE c == Cat(x, a)
           v == Placed(value, t.col)
<1>1. x \in Seq(Token) /\ a \in Seq(Token) /\ t.col \in Nat
  BY CleanIs, TokenIs
<1>2. c \in Seq(Clean(k))
  BY CatTyped
<1>3. Replaced(t, k, value) = v
  BY ReplacedIs
<1>4. v \in Seq(Token)
  BY <1>1, PlacedTyped
<1> HIDE DEF v, c
<1>5. \A w \in Seq(Token) : Cat(x, Cat(Cat(a, w), b)) = Cat(Cat(c, w), b)
  <2> TAKE w \in Seq(Token)
  <2>1. Cat(x, Cat(a, w)) = Cat(c, w)
    BY <1>1, CatAssociative DEF c
  <2>2. Cat(a, w) \in Seq(Token)
    BY <1>1, CatTyped
  <2>3. Cat(Cat(x, Cat(a, w)), b) = Cat(x, Cat(Cat(a, w), b))
    BY <1>1, <2>2, CatAssociative
  <2> QED  BY <2>1, <2>3, Zenon
<1>6. One(t) \in Seq(Token)
  BY OneTyped
<1>7. ReplaceFirst(Cat(Cat(c, One(t)), b), k, value) = Cat(Cat(c, v), b)
  BY <1>2, <1>3, ReplaceThere, ZenonT(40) DEF Cat, One
<1> QED  BY <1>4, <1>5, <1>6, <1>7, Zenon DEF v

\* buildSQL, one parameter: behind a text without "$k", the one reference to k is replaced.
LEMMA FirstStep ==
  ASSUME NEW y \in Seq(Token), NEW params \in Seq(Values), NEW k0 \in Nat, NEW k \in k0 + 1 .. Len(params),
         Apart(params, k0), Rising(y, k0), NEW x \in Seq(Clean(k))
  PROVE  ReplaceFirst(Cat(x, FlatMap(y, Filled(k0, k - 1, params))), k, params[k])
           = Cat(x, FlatMap(y, Filled(k0, k, params)))
<1> DEFINE f == Filled(k0, k - 1, params)
           g == Filled(k0, k, params)
<1>1. /\ Len(y) \in Nat /\ DOMAIN y = 1 .. Len(y)
      /\ \A i \in 1 .. Len(y) : y[i] \in Token /\ y[i].n \in Nat /\ y[i].col \in Nat
      /\ \A i \in 1 .. Len(y) : y[i].kind = "ref" /\ y[i].n > k0
  BY LenProperties, ElementOfSeq, TokenIs DEF Rising
<1>2. /\ Len(params) \in Nat /\ k \in Nat \ {0} /\ k - 1 \in Nat /\ k - 1 <= Len(params)
      /\ k <= Len(params) /\ k \in 1 .. Len(params)
  BY LenProperties
<1>3. params[k] \in Seq(Token)
  BY <1>2, ElementOfSeq DEF Values
<1>4. x \in Seq(Token)
  BY CleanIs
<1>5. CASE \A i \in 1 .. Len(y) : y[i].n # k
  <2>1. ASSUME NEW i \in 1 .. Len(y)
        PROVE  (y[i].kind = "ref" /\ y[i].n \in k0 + 1 .. k - 1) \/ ~ Found(y[i], k)
    <3>1. CASE y[i].n < k
      BY <1>1, <1>2, <3>1
    <3>2. CASE ~ (y[i].n < k)
      <4>1. y[i].n # k /\ y[i].n \in Nat
        BY <1>1, <1>5
      <4>2. ASSUME y[i].n \div 10 = k PROVE FALSE
        <5>1. y[i].n >= 10 /\ y[i].n \div 10 > k0
          BY <1>2, <4>1, <4>2
        <5>2. PICK j \in 1 .. i - 1 : y[j].n = y[i].n \div 10
          BY <5>1 DEF Rising
        <5>3. j \in 1 .. Len(y)
          BY <1>1
        <5> QED  BY <1>5, <4>2, <5>2, <5>3
      <4> QED  BY <4>1, <4>2 DEF Found
    <3> QED  BY <3>1, <3>2
  <2>2. FlatMap(y, f) \in Seq(Clean(k))
    BY <2>1, FilledClean
  <2>3. FlatMap(y, f) = FlatMap(y, g)
    BY <1>5, FilledAgree
  <2> HIDE DEF f, g
  <2>4. Cat(x, FlatMap(y, f)) \in Seq(Clean(k))
    BY <2>2, CatTyped
  <2>5. ReplaceFirst(Cat(x, FlatMap(y, f)), k, params[k]) = Cat(x, FlatMap(y, f))
    BY <1>2, <2>4, ReplaceNone
  <2>6. ReplaceFirst(Cat(x, FlatMap(y, f)), k, params[k]) = Cat(x, FlatMap(y, g))
    BY <2>3, <2>5, Zenon
  <2> QED  BY <2>6, Zenon DEF f, g
<1>6. CASE \E i \in 1 .. Len(y) : y[i].n = k
  <2>1. PICK p \in 1 .. Len(y) : y[p].n = k
    BY <1>6
  <2> DEFINE a == Upto(y, p - 1)
             b == Beyond(y, p)
             t == y[p]
  <2>2. /\ a \in Seq(Token) /\ b \in Seq(Token) /\ t \in Token
        /\ Len(a) = p - 1 /\ Len(b) = Len(y) - p
        /\ \A j \in 1 .. p - 1 : a[j] = y[j]
        /\ \A j \in 1 .. Len(y) - p : b[j] = y[p + j]
    BY SplitAt, ZenonT(40)
  <2>3. t.n = k /\ t.kind = "ref" /\ t.col \in Nat
    BY <1>1, <2>1
  <2>2a. a \in Seq(Token) /\ b \in Seq(Token) /\ t \in Token
    BY <2>2
  <2> HIDE DEF a, b, t
  <2>4. ASSUME NEW j \in 1 .. Len(a)
        PROVE  a[j].kind = "ref" /\ a[j].n \in k0 + 1 .. k - 1 /\ a[j].n # k
    <3>1. j \in 1 .. p - 1 /\ j \in 1 .. Len(y) /\ j < p
      BY <1>1, <2>2
    <3>2. a[j] = y[j] /\ y[j].n < y[p].n
      BY <2>2, <3>1 DEF Rising
    <3>3. y[j].n \in Nat /\ y[j].n > k0 /\ y[j].n < k /\ y[j].kind = "ref"
      BY <1>1, <2>1, <3>1, <3>2
    <3> QED  BY <1>2, <3>2, <3>3
  <2>5. ASSUME NEW j \in 1 .. Len(b) PROVE b[j] \in Token /\ b[j].n > k /\ b[j].n \in Nat
    <3>1. j \in 1 .. Len(y) - p /\ p + j \in 1 .. Len(y) /\ p < p + j
      BY <1>1, <2>2
    <3>2. b[j] = y[p + j] /\ y[p].n < y[p + j].n
      BY <2>2, <3>1 DEF Rising
    <3> QED  BY <1>1, <2>1, <3>1, <3>2
  <2>6. FlatMap(a, f) \in Seq(Clean(k))
    BY <2>2, <2>4, FilledClean
  <2>7. FlatMap(a, f) = FlatMap(a, g)
    BY <2>2, <2>4, FilledAgree
  <2>8. f \in Maps(Token, Token) /\ g \in Maps(Token, Token)
    BY <1>2, FilledIs
  <2>8a. \A u \in Token : f[u] = IF u.kind = "ref" /\ u.n \in k0 + 1 .. k - 1
                               THEN Placed(params[u.n], u.col) ELSE <<u>>
    BY <1>2, FilledAt, Zenon
  <2>8b. \A u \in Token : g[u] = IF u.kind = "ref" /\ u.n \in k0 + 1 .. k
                               THEN Placed(params[u.n], u.col) ELSE <<u>>
    BY <1>2, FilledAt, Zenon
  <2> HIDE DEF f, g
  <2>9. FlatMap(b, f) = b /\ FlatMap(b, g) = b
    <3>1. ASSUME NEW j \in 1 .. Len(b) PROVE f[b[j]] = <<b[j]>> /\ g[b[j]] = <<b[j]>>
      <4>0. b[j] \in Token /\ b[j].n > k /\ b[j].n \in Nat
        BY <2>5
      <4>1. b[j] \in Token /\ b[j].n \notin k0 + 1 .. k - 1 /\ b[j].n \notin k0 + 1 .. k
        BY <1>2, <4>0
      <4>2. f[b[j]] = IF b[j].kind = "ref" /\ b[j].n \in k0 + 1 .. k - 1
                      THEN Placed(params[b[j].n], b[j].col) ELSE <<b[j]>>
        BY <2>8a, <4>1
      <4>3. g[b[j]] = IF b[j].kind = "ref" /\ b[j].n \in k0 + 1 .. k
                      THEN Placed(params[b[j].n], b[j].col) ELSE <<b[j]>>
        BY <2>8b, <4>1
      <4> QED  BY <4>1, <4>2, <4>3
    <3> QED  BY <2>2, <2>8, <3>1, FlatMapSame
  <2>10. f[t] = <<t>> /\ g[t] = Placed(params[k], t.col)
    <3>1. t.n \notin k0 + 1 .. k - 1 /\ t.n \in k0 + 1 .. k
      BY <1>2, <2>3
    <3>2. f[t] = IF t.kind = "ref" /\ t.n \in k0 + 1 .. k - 1
                 THEN Placed(params[t.n], t.col) ELSE <<t>>
      BY <2>2a, <2>8a
    <3>3. g[t] = IF t.kind = "ref" /\ t.n \in k0 + 1 .. k
                 THEN Placed(params[t.n], t.col) ELSE <<t>>
      BY <2>2a, <2>8b
    <3> QED  BY <2>3, <3>1, <3>2, <3>3
  <2>11. FlatMap(y, f) = Cat(Cat(FlatMap(a, f), f[t]), FlatMap(b, f))
    <3>1. FlatMap(y, f) = Cat(Cat(FlatMap(Upto(y, p - 1), f), f[y[p]]), FlatMap(Beyond(y, p), f))
      BY <2>8, TokensSplit
    <3> QED  BY <3>1, Zenon DEF a, b, t
  <2>12. FlatMap(y, g) = Cat(Cat(FlatMap(a, g), g[t]), FlatMap(b, g))
    <3>1. FlatMap(y, g) = Cat(Cat(FlatMap(Upto(y, p - 1), g), g[y[p]]), FlatMap(Beyond(y, p), g))
      BY <2>8, TokensSplit
    <3> QED  BY <3>1, Zenon DEF a, b, t
  <2> DEFINE A == FlatMap(a, f)
             v == Placed(params[k], t.col)
  <2>13. FlatMap(y, f) = Cat(Cat(A, One(t)), b)
    BY <2>9, <2>10, <2>11, Zenon DEF One
  <2>14. FlatMap(y, g) = Cat(Cat(A, v), b)
    BY <2>7, <2>9, <2>10, <2>12, Zenon
  <2>15. A \in Seq(Clean(k))
    BY <2>6
  <2> HIDE DEF A
  <2>16. ReplaceFirst(Cat(x, Cat(Cat(A, One(t)), b)), k, params[k]) = Cat(x, Cat(Cat(A, v), b))
    BY <1>2, <1>3, <2>2a, <2>3, <2>15, ReplaceBehind
  <2>17. ReplaceFirst(Cat(x, FlatMap(y, f)), k, params[k]) = Cat(x, FlatMap(y, g))
    BY <2>13, <2>14, <2>16, Zenon
  <2> QED  BY <2>17, Zenon DEF f, g
<1> QED  BY <1>5, <1>6

\* Behind the first k0 places, buildSQL() fills every reference with its own
\* parameter, when they rise and no value refers to a later one.
LEMMA TailExact ==
  ASSUME NEW text \in Seq(Token), NEW params \in Seq(Values), NEW r \in Steps(text, params),
         NEW k0 \in 0 .. Len(params), NEW x \in Seq(Token), NEW y \in Seq(Token),
         r[k0] = Cat(x, y), Rising(y, k0), Apart(params, k0),
         \A k \in k0 + 1 .. Len(params) : x \in Seq(Clean(k))
  PROVE  r[Len(params)] = Cat(x, FlatMap(y, Filled(k0, Len(params), params)))
<1> DEFINE m == Len(params)
           P == {d \in Nat : k0 + d <= m => r[k0 + d] = Cat(x, FlatMap(y, Filled(k0, k0 + d, params)))}
<1>1. m \in Nat /\ k0 \in Nat /\ k0 <= m
  BY LenProperties
<1>2. 0 \in P
  <2>1. FlatMap(y, Filled(k0, k0, params)) = y
    BY <1>1, FilledNone
  <2>2. k0 + 0 = k0
    BY <1>1
  <2>3. r[k0] = Cat(x, FlatMap(y, Filled(k0, k0, params)))
    BY <2>1, Zenon
  <2> QED  BY <2>2, <2>3
<1>3. ASSUME NEW d \in Nat, d \in P PROVE d + 1 \in P
  <2> SUFFICES ASSUME k0 + (d + 1) <= m
               PROVE  r[k0 + (d + 1)] = Cat(x, FlatMap(y, Filled(k0, k0 + (d + 1), params)))
    OBVIOUS
  <2> DEFINE k == k0 + (d + 1)
  <2>1. k \in k0 + 1 .. m /\ k \in 1 .. m /\ k - 1 = k0 + d /\ k0 + d <= m
    BY <1>1
  <2> HIDE DEF k
  <2>2. r[k - 1] = Cat(x, FlatMap(y, Filled(k0, k - 1, params)))
    BY <1>3, <2>1
  <2>3. r[k] = ReplaceFirst(r[k - 1], k, params[k])
    BY <2>1 DEF Steps
  <2>4. ReplaceFirst(Cat(x, FlatMap(y, Filled(k0, k - 1, params))), k, params[k])
          = Cat(x, FlatMap(y, Filled(k0, k, params)))
    <3>1. x \in Seq(Clean(k))
      BY <2>1
    <3> QED  BY <1>1, <2>1, <3>1, FirstStep
  <2>5. r[k] = Cat(x, FlatMap(y, Filled(k0, k, params)))
    BY <2>2, <2>3, <2>4, Zenon
  <2> QED  BY <2>5 DEF k
<1> HIDE DEF P
<1>4. Nat \subseteq P
  BY <1>2, <1>3, NumberInduction
<1>5. m - k0 \in P /\ k0 + (m - k0) = m /\ m <= m
  BY <1>1, <1>4
<1> QED  BY <1>5 DEF P

\* NoLaterRef and InOrder, on the lengths instead of the domains.
LEMMA NoLaterRefIs ==
  ASSUME NEW params \in Seq(Values), NoLaterRef(params)
  PROVE  Apart(params, 0)
<1>1. Len(params) \in Nat /\ DOMAIN params = 1 .. Len(params)
      /\ \A i \in 1 .. Len(params) : params[i] \in Seq(Token)
  BY LenProperties, ElementOfSeq DEF Values
<1> SUFFICES ASSUME NEW i \in 0 + 1 .. Len(params), NEW j \in i + 1 .. Len(params),
                    NEW m \in 1 .. Len(params[i])
             PROVE  ~ Found(params[i][m], j)
  BY DEF Apart
<1>2. i \in DOMAIN params /\ m \in DOMAIN params[i]
  BY <1>1, LenProperties
<1>3. params[i][m] \in Range(params[i])
  BY <1>2 DEF Range
<1> QED  BY <1>2, <1>3 DEF NoLaterRef

\* buildSQL() sends the statement that is meant, in order and without such values.
LEMMA BuildSQLExact ==
  ASSUME NEW text \in Seq(Token), NEW params \in Seq(Values), Rising(text, 0), Apart(params, 0)
  PROVE  BuildSQL(text, params) = FlatMap(text, Filled(0, Len(params), params))
<1> DEFINE m == Len(params)
           z == FlatMap(text, Filled(0, m, params))
<1>1. m \in Nat /\ m <= m /\ 0 \in 0 .. m
  BY LenProperties
<1>2. PICK r \in Steps(text, params) : BuildSQL(text, params) = r[m]
  BY BuildSQLSteps
<1>3. r[0] = text
  BY DEF Steps
<1>4. Cat(<<>>, text) = text /\ <<>> \in Seq(Token)
  BY ConcatEmptySeq, EmptySeq DEF Cat
<1>5. r[m] = Cat(<<>>, z)
  <2>1. \A k \in 0 + 1 .. m : <<>> \in Seq(Clean(k))
    BY EmptySeq
  <2>2. r[0] = Cat(<<>>, text)
    BY <1>3, <1>4
  <2> DEFINE e == <<>>
  <2>3. e \in Seq(Token) /\ r[0] = Cat(e, text) /\ \A k \in 0 + 1 .. m : e \in Seq(Clean(k))
    BY <1>4, <2>1, <2>2
  <2> HIDE DEF e
  <2>4. r[m] = Cat(e, z)
    BY <1>1, <2>3, TailExact
  <2> QED  BY <2>4 DEF e
<1>6. z \in Seq(Token)
  BY <1>1, FilledIs, FlatMapTyped
<1>7. Cat(<<>>, z) = z
  BY <1>6, ConcatEmptySeq DEF Cat
<1> QED  BY <1>2, <1>5, <1>7

\* buildFinalSQL, one parameter, when the references are below 10.
LEMMA EveryStep ==
  ASSUME NEW text \in Seq(Token), NEW params \in Seq(Values), NEW k \in 1 .. Len(params),
         Apart(params, 0), \A i \in 1 .. Len(text) : text[i].n < 10
  PROVE  ReplaceEvery(FlatMap(text, Filled(0, k - 1, params)), k, params[k])
           = FlatMap(text, Filled(0, k, params))
<1> DEFINE f == Filled(0, k - 1, params)
           g == Filled(0, k, params)
           e == Every(k, params[k])
<1>1. /\ Len(text) \in Nat /\ DOMAIN text = 1 .. Len(text)
      /\ \A i \in 1 .. Len(text) : text[i] \in Token /\ text[i].n \in Nat /\ text[i].col \in Nat
  BY LenProperties, ElementOfSeq, TokenIs
<1>2. /\ Len(params) \in Nat /\ k \in Nat \ {0} /\ k - 1 \in Nat /\ k - 1 <= Len(params)
      /\ k <= Len(params)
  BY LenProperties
<1>3. \A i \in 1 .. Len(params) : params[i] \in Seq(Token)
  BY ElementOfSeq DEF Values
<1>4. f \in Maps(Token, Token) /\ g \in Maps(Token, Token)
  BY <1>2, FilledIs
<1>5. e \in Maps(Token, Token)
  BY <1>2, <1>3, <1>1, EmptySeq, ReplaceEveryIs
<1>5a. 0 \in Nat
  OBVIOUS
<1>5b. \A u \in Token : f[u] = IF u.kind = "ref" /\ u.n \in 0 + 1 .. k - 1
                             THEN Placed(params[u.n], u.col) ELSE <<u>>
  BY <1>2, <1>5a, FilledAt, Zenon
<1>5c. \A u \in Token : g[u] = IF u.kind = "ref" /\ u.n \in 0 + 1 .. k
                             THEN Placed(params[u.n], u.col) ELSE <<u>>
  BY <1>2, <1>5a, FilledAt, Zenon
<1> HIDE DEF f, g
<1>6. ASSUME NEW i \in 1 .. Len(text) PROVE FlatMap(f[text[i]], e) = g[text[i]]
  <2> DEFINE t == text[i]
  <2>1. t \in Token /\ t.n \in Nat /\ t.col \in Nat /\ t.n < 10
    BY <1>1
  <2> HIDE DEF t
  <2>2. f[t] = IF t.kind = "ref" /\ t.n \in 0 + 1 .. k - 1 THEN Placed(params[t.n], t.col) ELSE <<t>>
    BY <1>5b, <2>1
  <2>3. g[t] = IF t.kind = "ref" /\ t.n \in 0 + 1 .. k THEN Placed(params[t.n], t.col) ELSE <<t>>
    BY <1>5c, <2>1
  <2>4. CASE t.kind = "ref" /\ t.n \in 1 .. k - 1
    <3> DEFINE p == Placed(params[t.n], t.col)
    <3>1. t.n \in 0 + 1 .. Len(params) /\ k \in t.n + 1 .. Len(params) /\ t.n \in 1 .. Len(params)
      BY <1>2, <2>1, <2>4
    <3>2. \A j \in 1 .. Len(params[t.n]) : ~ Found(params[t.n][j], k)
      BY <3>1 DEF Apart
    <3>3. p \in Seq(Clean(k))
      BY <1>2, <1>3, <2>1, <3>1, <3>2, PlacedClean
    <3>4. f[t] = p /\ g[t] = p
      BY <1>2, <2>1, <2>2, <2>3, <2>4
    <3> HIDE DEF p
    <3>5. p \in Seq(Token) /\ \A j \in 1 .. Len(p) : p[j] \in Token /\ ~ Found(p[j], k)
      BY <1>2, <3>3, CleanIs
    <3>6. \A j \in 1 .. Len(p) : e[p[j]] = <<p[j]>>
      BY <3>5 DEF Every
    <3> HIDE DEF e
    <3>7. FlatMap(p, e) = p
      BY <1>5, <3>5, <3>6, FlatMapSame
    <3> QED  BY <3>4, <3>7, Zenon DEF t
  <2>5. CASE t.kind = "ref" /\ t.n = k
    <3>1. f[t] = <<t>> /\ g[t] = Placed(params[k], t.col)
      BY <1>2, <2>1, <2>2, <2>3, <2>5
    <3>2. e[t] = Placed(params[k], t.col)
      <4>1. Found(t, k)
        BY <2>5 DEF Found
      <4>2. Replaced(t, k, params[k]) = Placed(params[k], t.col)
        BY <1>2, <1>3, <2>1, <2>5, ReplacedIs
      <4> QED  BY <2>1, <4>1, <4>2 DEF Every
    <3> HIDE DEF e
    <3>3. FlatMap(<<t>>, e) = e[t]
      BY <1>5, <2>1, FlatMapOne
    <3> QED  BY <3>1, <3>2, <3>3, Zenon DEF t
  <2>6. CASE ~ (t.kind = "ref" /\ t.n \in 1 .. k)
    <3>1. f[t] = <<t>> /\ g[t] = <<t>>
      BY <1>2, <2>1, <2>2, <2>3, <2>6
    <3>2. e[t] = <<t>>
      <4>1. ~ Found(t, k)
        <5>1. t.n \div 10 = 0
          BY <2>1
        <5> QED  BY <1>2, <2>6, <5>1 DEF Found
      <4> QED  BY <2>1, <4>1 DEF Every
    <3> HIDE DEF e
    <3>3. FlatMap(<<t>>, e) = e[t]
      BY <1>5, <2>1, FlatMapOne
    <3> QED  BY <3>1, <3>2, <3>3, Zenon DEF t
  <2> QED  BY <1>2, <2>1, <2>4, <2>5, <2>6
<1>7. Pieces(text, f) \in Seq(Seq(Token))
  BY <1>4, PiecesTyped
<1>8. FlatMap(FlatMap(text, f), e) = FlattenSeq([i \in DOMAIN Pieces(text, f) |-> FlatMap(Pieces(text, f)[i], e)])
  <2> HIDE DEF e
  <2> QED  BY <1>5, <1>7, FlatMapFlatten DEF FlatMap
<1>9. [i \in DOMAIN Pieces(text, f) |-> FlatMap(Pieces(text, f)[i], e)] = Pieces(text, g)
  <2> HIDE DEF e
  <2>1. DOMAIN Pieces(text, f) = 1 .. Len(text) /\ \A i \in 1 .. Len(text) : Pieces(text, f)[i] = f[text[i]]
    BY <1>1 DEF Pieces
  <2> QED  BY <1>1, <1>6, <2>1 DEF Pieces
<1>10. FlatMap(FlatMap(text, f), e) = FlatMap(text, g)
  BY <1>8, <1>9, Zenon DEF FlatMap
<1>11. FlatMap(text, f) \in Seq(Token)
  BY <1>4, FlatMapTyped
<1>12. ReplaceEvery(FlatMap(text, f), k, params[k]) = FlatMap(FlatMap(text, f), e)
  BY <1>2, <1>3, <1>11, ReplaceEveryIs
<1> QED  BY <1>10, <1>12 DEF f, g

\* buildFinalSQL() does so for placeholders below 10, in any order.
LEMMA BuildFinalSQLExact ==
  ASSUME NEW text \in Seq(Token), NEW params \in Seq(Values), Apart(params, 0),
         \A i \in 1 .. Len(text) : text[i].n < 10
  PROVE  BuildFinalSQL(text, params) = FlatMap(text, Filled(0, Len(params), params))
<1> DEFINE m == Len(params)
<1>1. m \in Nat /\ 0 <= m
  BY LenProperties
<1>2. PICK r \in StepsEvery(text, params) : BuildFinalSQL(text, params) = r[m]
  BY BuildFinalSQLSteps
<1> DEFINE P == {k \in Nat : k <= m => r[k] = FlatMap(text, Filled(0, k, params))}
<1>3. 0 \in P
  <2>1. FlatMap(text, Filled(0, 0, params)) = text
    BY <1>1, FilledNone
  <2>2. r[0] = text
    BY DEF StepsEvery
  <2> QED  BY <2>1, <2>2
<1>4. ASSUME NEW d \in Nat, d \in P PROVE d + 1 \in P
  <2> DEFINE k == d + 1
  <2> SUFFICES ASSUME k <= m PROVE r[k] = FlatMap(text, Filled(0, k, params))
    OBVIOUS
  <2>1. k \in 1 .. m /\ k - 1 = d /\ d <= m
    BY <1>1
  <2>2. r[d] = FlatMap(text, Filled(0, d, params))
    BY <1>4, <2>1
  <2> HIDE DEF k
  <2>3. r[k] = ReplaceEvery(r[k - 1], k, params[k])
    BY <2>1 DEF StepsEvery
  <2>4. ReplaceEvery(FlatMap(text, Filled(0, k - 1, params)), k, params[k])
          = FlatMap(text, Filled(0, k, params))
    BY <2>1, EveryStep
  <2> QED  BY <2>1, <2>2, <2>3, <2>4, Zenon
<1> HIDE DEF P
<1>5. Nat \subseteq P
  BY <1>3, <1>4, NumberInduction
<1>6. r[m] = FlatMap(text, Filled(0, m, params))
  BY <1>1, <1>5 DEF P
<1> QED  BY <1>2, <1>6

-----------------------------------------------------------------------------
(* Statements and values.                                                  *)

LEMMA RefTyped ==
  ASSUME NEW n \in Nat, NEW c \in Nat
  PROVE  /\ Ref(n) \in Token /\ Ref(n).kind = "ref" /\ Ref(n).n = n
         /\ [Ref(n) EXCEPT !.col = c] \in Token /\ [Ref(n) EXCEPT !.col = c].kind = "ref"
         /\ [Ref(n) EXCEPT !.col = c].n = n /\ [Ref(n) EXCEPT !.col = c].col = c
<1>1. "ref" \in Forms /\ "" \in Words /\ 0 \in Nat
  BY DEF Forms, Words
<1>2. [kind |-> "ref", n |-> n, content |-> "", col |-> 0] \in Token
  BY <1>1, TokenMade
<1>3. Ref(n) \in Token /\ Ref(n).kind = "ref" /\ Ref(n).n = n
  BY <1>2 DEF Ref
<1> QED  BY <1>3, TokenIs

LEMMA PlaceholdersAre ==
  ASSUME NEW n \in Nat, NEW ns \in [1 .. n -> Nat]
  PROVE  /\ Placeholders(ns) \in Seq(Token) /\ Len(Placeholders(ns)) = n
         /\ \A i \in 1 .. n : /\ Placeholders(ns)[i].kind = "ref" /\ Placeholders(ns)[i].n = ns[i]
                              /\ Placeholders(ns)[i].col = i
<1> DEFINE p == Placeholders(ns)
           At1(i) == [Ref(ns[i]) EXCEPT !.col = i]
<1>1. p = [i \in 1 .. n |-> At1(i)]
  BY DEF Placeholders
<1>2. ASSUME NEW i \in 1 .. n
      PROVE  At1(i) \in Token /\ At1(i).kind = "ref" /\ At1(i).n = ns[i] /\ At1(i).col = i
  <2>1. ns[i] \in Nat /\ i \in Nat
    OBVIOUS
  <2> QED  BY <2>1, RefTyped
<1> HIDE DEF p, At1
<1>3. p \in [1 .. n -> Token] /\ \A i \in 1 .. n : p[i] = At1(i)
  BY <1>1, <1>2
<1>4. p \in Seq(Token) /\ Len(p) = n
  BY <1>3
<1> QED  BY <1>2, <1>3, <1>4 DEF p

LEMMA RisingIs ==
  ASSUME NEW text \in Seq(Token), \A i \in 1 .. Len(text) : text[i].kind = "ref" /\ text[i].n > 0,
         InOrder(text)
  PROVE  Rising(text, 0)
<1>1. DOMAIN text = 1 .. Len(text)
  BY LenProperties
<1> QED  BY <1>1 DEF InOrder, Rising

LEMMA LitTyped ==
  ASSUME NEW form \in Forms, NEW word \in Words
  PROVE  /\ Lit(form, word) \in Token /\ Lit(form, word).kind = form /\ Lit(form, word).n = 0
         /\ Lit(form, word).content = word
<1>1. Lit(form, word) = [kind |-> form, n |-> 0, content |-> word, col |-> 0]
  BY DEF Lit
<1>2. 0 \in Nat
  OBVIOUS
<1> QED  BY <1>1, <1>2, TokenMade

LEMMA OwnValueTyped ==
  ASSUME NEW i \in Nat, NEW n \in Nat
  PROVE  OwnValue(i, n) \in Values
<1> DEFINE w == ToString(i)
<1>1. w \in Words /\ "quoted" \in Forms
  BY DEF Words, Forms
<1> HIDE DEF w
<1>2. Lit("quoted", w) \in Token /\ Ref(n) \in Token
  BY <1>1, LitTyped, RefTyped
<1> DEFINE a == <<Lit("quoted", w)>>
           b == IF n = 0 THEN <<>> ELSE <<Ref(n)>>
<1>3. a \in Seq(Token) /\ b \in Seq(Token)
  BY <1>2
<1>4. OwnValue(i, n) = a \o b
  BY DEF OwnValue, w
<1> HIDE DEF a, b
<1> QED  BY <1>3, <1>4, ConcatProperties DEF Values

-----------------------------------------------------------------------------
(* A program's own statement.                                              *)

OwnInv ==
  own # NoOwn =>
    /\ own.text \in Seq(Token) /\ own.params \in Seq(Values)
    /\ \A i \in 1 .. Len(own.text) : own.text[i].kind = "ref" /\ own.text[i].n > 0
    /\ own.builder \in {"BuildSQL", "BuildFinalSQL"}
    /\ own.result = IF own.builder = "BuildSQL" THEN BuildSQL(own.text, own.params)
                    ELSE BuildFinalSQL(own.text, own.params)

\* A program has sent nothing yet.
LEMMA OwnInvInit == PipelineInit => OwnInv
BY DEF PipelineInit, OwnInv

\* Only OwnStatement sends a text of the program.
LEMMA OwnInvNext == OwnInv /\ [PipelineNext]_pipelineVars => OwnInv'
<1> SUFFICES ASSUME OwnInv, [PipelineNext]_pipelineVars PROVE OwnInv'
  OBVIOUS
<1>1. CASE UNCHANGED own
  BY <1>1 DEF OwnInv
<1>2. CASE OwnStatement
  <2>0. PICK size \in 1 .. MaxOwn, bound \in OwnRefs :
          \E ns \in [1 .. size -> OwnRefs], inside \in [1 .. Min({2, bound}) -> OwnRefs \cup {0}],
             builder \in {"BuildSQL", "BuildFinalSQL"} :
           LET text   == Placeholders(ns)
               params == [i \in 1 .. bound |-> OwnValue(i, IF i \in DOMAIN inside THEN inside[i] ELSE 0)]
           IN  own' = [builder |-> builder, text |-> text, params |-> params,
                       result |-> IF builder = "BuildSQL" THEN BuildSQL(text, params)
                                  ELSE BuildFinalSQL(text, params)]
    BY <1>2, Zenon DEF OwnStatement
  <2>1. PICK ns \in [1 .. size -> OwnRefs], inside \in [1 .. Min({2, bound}) -> OwnRefs \cup {0}],
             builder \in {"BuildSQL", "BuildFinalSQL"} :
           LET text   == Placeholders(ns)
               params == [i \in 1 .. bound |-> OwnValue(i, IF i \in DOMAIN inside THEN inside[i] ELSE 0)]
           IN  own' = [builder |-> builder, text |-> text, params |-> params,
                       result |-> IF builder = "BuildSQL" THEN BuildSQL(text, params)
                                  ELSE BuildFinalSQL(text, params)]
    BY <2>0, Zenon
  <2> DEFINE text == Placeholders(ns)
             params == [i \in 1 .. bound |-> OwnValue(i, IF i \in DOMAIN inside THEN inside[i] ELSE 0)]
  <2>2. size \in Nat /\ bound \in Nat /\ ns \in [1 .. size -> Nat]
        /\ \A i \in 1 .. size : ns[i] > 0
    <3>1. size \in Nat
      BY PipelineAssumption
    <3>2. OwnRefs \subseteq Nat /\ \A x \in OwnRefs : x > 0
      BY PipelineAssumption
    <3>3. \A i \in 1 .. size : ns[i] \in OwnRefs
      OBVIOUS
    <3> QED  BY <3>1, <3>2, <3>3
  <2>3. /\ text \in Seq(Token) /\ Len(text) = size
        /\ \A i \in 1 .. Len(text) : text[i].kind = "ref" /\ text[i].n > 0
    BY <2>2, PlaceholdersAre
  <2>4. params \in Seq(Values)
    <3> DEFINE val(i) == OwnValue(i, IF i \in DOMAIN inside THEN inside[i] ELSE 0)
               V == Values
    <3>1. ASSUME NEW i \in 1 .. bound
          PROVE  val(i) \in V
      <4>1. (IF i \in DOMAIN inside THEN inside[i] ELSE 0) \in Nat
        <5>1. OwnRefs \cup {0} \subseteq Nat
          BY PipelineAssumption
        <5>2. i \in DOMAIN inside => inside[i] \in OwnRefs \cup {0}
          OBVIOUS
        <5> QED  BY <5>1, <5>2
      <4> QED  BY <2>2, <4>1, OwnValueTyped
    <3>2. params = [i \in 1 .. bound |-> val(i)]
      OBVIOUS
    <3> HIDE DEF val, V, params
    <3>3. params \in [1 .. bound -> V]
      BY <3>1, <3>2
    <3>4. params \in Seq(V)
      BY <2>2, <3>3
    <3> QED  BY <3>4 DEF V
  <2> HIDE DEF text, params
  <2>5. own' = [builder |-> builder, text |-> text, params |-> params,
                result |-> IF builder = "BuildSQL" THEN BuildSQL(text, params)
                           ELSE BuildFinalSQL(text, params)]
    BY <2>1, Zenon DEF text, params
  <2> QED  BY <2>3, <2>4, <2>5 DEF OwnInv
<1> QED
  BY <1>1, <1>2 DEF PipelineNext, pipelineVars, HftDeclare, PlainDeclare, PlainLoad, ScriptRow, HftInsert, HftUpdate,
     HftFind, PlainInsert, PlainUpdate, PlainInsertPS, PlainFind, Write, Miss

\* What OwnInv says of that text is enough for SubstitutionExact.
LEMMA OwnInvExact == OwnInv => SubstitutionExact
<1> SUFFICES ASSUME OwnInv, own # NoOwn, NoLaterRef(own.params),
                    \/ own.builder = "BuildSQL" /\ InOrder(own.text)
                    \/ own.builder = "BuildFinalSQL" /\ \A i \in DOMAIN own.text : own.text[i].n < 10
             PROVE  own.result = Intended(own.text, own.params)
  BY DEF SubstitutionExact
<1> DEFINE text == own.text
           params == own.params
<1>1. /\ text \in Seq(Token) /\ params \in Seq(Values)
      /\ \A i \in 1 .. Len(text) : text[i].kind = "ref" /\ text[i].n > 0
      /\ own.result = IF own.builder = "BuildSQL" THEN BuildSQL(text, params)
                      ELSE BuildFinalSQL(text, params)
  BY DEF OwnInv
<1>2. NoLaterRef(params) /\ DOMAIN text = 1 .. Len(text)
  BY <1>1, LenProperties
<1>3. \/ own.builder = "BuildSQL" /\ InOrder(text)
      \/ own.builder = "BuildFinalSQL" /\ \A i \in 1 .. Len(text) : text[i].n < 10
  BY <1>2
<1> HIDE DEF text, params
<1>4. Apart(params, 0)
  BY <1>1, <1>2, NoLaterRefIs
<1>5. Intended(text, params) = FlatMap(text, Filled(0, Len(params), params))
  BY <1>1, IntendedIs
<1>6. CASE own.builder = "BuildSQL" /\ InOrder(text)
  <2>1. Rising(text, 0)
    BY <1>1, <1>6, RisingIs
  <2>2. BuildSQL(text, params) = FlatMap(text, Filled(0, Len(params), params))
    BY <1>1, <1>4, <2>1, BuildSQLExact
  <2> QED  BY <1>1, <1>5, <1>6, <2>2 DEF text, params
<1>7. CASE own.builder = "BuildFinalSQL" /\ \A i \in 1 .. Len(text) : text[i].n < 10
  <2>1. BuildFinalSQL(text, params) = FlatMap(text, Filled(0, Len(params), params))
    BY <1>1, <1>4, <1>7, BuildFinalSQLExact
  <2> QED  BY <1>1, <1>5, <1>7, <2>1 DEF text, params
<1> QED  BY <1>3, <1>6, <1>7

\* buildSQL() and buildFinalSQL(), for statements of any length and any number of
\* parameters: the text sent is the one meant, under the two conditions of
\* SubstitutionExact.
THEOREM SubstitutionIsExact == PipelineSpec => []SubstitutionExact
<1>1. PipelineSpec => []OwnInv
  BY OwnInvInit, OwnInvNext, PTL DEF PipelineSpec
<1> QED  BY <1>1, OwnInvExact, PTL

-----------------------------------------------------------------------------
(* What stands at a place of the statement.                                *)

AtCol(c) == [t \in Token |-> IF t.col = c THEN <<t>> ELSE <<>>]

LEMMA AtColIs ==
  ASSUME NEW c
  PROVE  /\ AtCol(c) \in Maps(Token, Token)
         /\ \A t \in Token : AtCol(c)[t] = IF t.col = c THEN <<t>> ELSE <<>>
<1>1. \A t \in Token : (IF t.col = c THEN <<t>> ELSE <<>>) \in Seq(Token)
  OBVIOUS
<1>2. AtCol(c) \in [Token -> Seq(Token)]
  BY <1>1 DEF AtCol
<1>3. \A t \in Token : AtCol(c)[t] = IF t.col = c THEN <<t>> ELSE <<>>
  BY DEF AtCol
<1> QED  BY <1>2, <1>3 DEF Maps

\* What stands at a place, by FlatMap.
LEMMA AtIs ==
  ASSUME NEW text \in Seq(Token), NEW c
  PROVE  At(text, c) = FlatMap(text, AtCol(c))
<1>1. \A j \in DOMAIN text : text[j] \in Token
  OBVIOUS
<1>2. \A j \in DOMAIN text : AtCol(c)[text[j]] = IF text[j].col = c THEN <<text[j]>> ELSE <<>>
  BY <1>1, AtColIs
<1>3. [j \in DOMAIN text |-> IF text[j].col = c THEN <<text[j]>> ELSE <<>>] = Pieces(text, AtCol(c))
  BY <1>2 DEF Pieces
<1> QED  BY <1>3, Zenon DEF At, Select, FlatMap

LEMMA AtCat ==
  ASSUME NEW a \in Seq(Token), NEW b \in Seq(Token), NEW c
  PROVE  At(Cat(a, b), c) = Cat(At(a, c), At(b, c))
<1>1. Cat(a, b) \in Seq(Token)
  BY CatTyped
<1>2. FlatMap(Cat(a, b), AtCol(c)) = Cat(FlatMap(a, AtCol(c)), FlatMap(b, AtCol(c)))
  BY AtColIs, FlatMapCat
<1> QED  BY <1>1, <1>2, AtIs

\* A piece of one place is kept or left out as a whole.
OfCol(d) == {t \in Token : t.col = d}

LEMMA OfColIs ==
  ASSUME NEW s \in Seq(Token), NEW d, \A i \in 1 .. Len(s) : s[i].col = d
  PROVE  s \in Seq(OfCol(d))
<1>1. \A i \in 1 .. Len(s) : s[i] \in OfCol(d)
  BY DEF OfCol
<1> HIDE DEF OfCol
<1> QED  BY <1>1

LEMMA AtPiece ==
  ASSUME NEW d, NEW s \in Seq(OfCol(d)), NEW c
  PROVE  FlatMap(s, AtCol(c)) = IF c = d THEN s ELSE <<>>
<1>0. s \in Seq(Token) /\ \A i \in 1 .. Len(s) : s[i] \in Token /\ s[i].col = d
  <2>1. OfCol(d) \subseteq Token /\ \A t \in OfCol(d) : t.col = d
    BY DEF OfCol
  <2> HIDE DEF OfCol
  <2>2. \A i \in 1 .. Len(s) : s[i] \in OfCol(d)
    OBVIOUS
  <2>3. \A i \in 1 .. Len(s) : s[i] \in Token
    BY <2>1, <2>2
  <2> QED  BY <2>1, <2>2, <2>3
<1>1. CASE c = d
  <2>1. \A i \in 1 .. Len(s) : AtCol(c)[s[i]] = <<s[i]>>
    BY <1>0, <1>1, AtColIs
  <2> QED  BY <1>0, <1>1, <2>1, AtColIs, FlatMapSame
<1>2. CASE c # d
  <2>1. \A i \in 1 .. Len(s) : AtCol(c)[s[i]] = <<>>
    BY <1>0, <1>2, AtColIs
  <2> QED  BY <1>0, <1>2, <2>1, AtColIs, FlatMapNone
<1> QED  BY <1>1, <1>2

\* At the place of a reference that is filled stands its own value alone.
LEMMA AtFilled ==
  ASSUME NEW y \in Seq(Token), NEW params \in Seq(Values), NEW k0 \in Nat, NEW k \in Nat, k <= Len(params),
         \A j \in 1 .. Len(y) : y[j].kind = "ref" /\ y[j].n = y[j].col,
         \A i, j \in 1 .. Len(y) : i # j => y[i].col # y[j].col,
         NEW p \in 1 .. Len(y), y[p].col \in k0 + 1 .. k
  PROVE  At(FlatMap(y, Filled(k0, k, params)), y[p].col) = Placed(params[y[p].col], y[p].col)
<1> DEFINE F == Filled(k0, k, params)
           c == y[p].col
           G == AtCol(c)
           H == [t \in Token |-> FlatMap(F[t], G)]
<1>0. /\ F \in Maps(Token, Token)
      /\ \A t \in Token : F[t] = IF t.kind = "ref" /\ t.n \in k0 + 1 .. k
                                 THEN Placed(params[t.n], t.col) ELSE <<t>>
  BY FilledIs
<1>1. G \in Maps(Token, Token)
  BY AtColIs
<1>2. \A j \in 1 .. Len(y) : y[j] \in Token
  OBVIOUS
<1>3. \A t \in Token : F[t] \in Seq(Token)
  BY <1>0 DEF Maps
<1>4. ASSUME NEW t \in Token
      PROVE  \A i \in 1 .. Len(F[t]) : F[t][i].col = t.col
  <2>1. CASE t.kind = "ref" /\ t.n \in k0 + 1 .. k
    <3>1. params[t.n] \in Seq(Token) /\ t.col \in Nat
      BY <2>1, TokenIs DEF Values
    <3>2. F[t] = Placed(params[t.n], t.col)
      BY <1>0, <2>1
    <3> DEFINE filling == Placed(params[t.n], t.col)
    <3>3. Len(filling) = Len(params[t.n]) /\ \A i \in 1 .. Len(params[t.n]) : filling[i].col = t.col
      BY <3>1, PlacedTyped
    <3> HIDE DEF F, filling
    <3>4. \A i \in 1 .. Len(filling) : filling[i].col = t.col
      BY <3>3
    <3> QED  BY <3>2, <3>4, Zenon DEF filling
  <2>2. CASE ~ (t.kind = "ref" /\ t.n \in k0 + 1 .. k)
    <3>1. F[t] = <<t>>
      BY <1>0, <2>2
    <3> HIDE DEF F
    <3> QED  BY <3>1
  <2> QED  BY <2>1, <2>2
<1> HIDE DEF F, G
<1>5. ASSUME NEW t \in Token
      PROVE  FlatMap(F[t], G) \in Seq(Token)
  BY <1>1, <1>3, FlatMapTyped
<1>6. H \in Maps(Token, Token)
  BY <1>5 DEF Maps
<1>7. \A t \in Token : H[t] = FlatMap(F[t], G)
  OBVIOUS
<1> HIDE DEF H
<1>8. ASSUME NEW j \in 1 .. Len(y)
      PROVE  FlatMap(F[y[j]], G) = IF c = y[j].col THEN F[y[j]] ELSE <<>>
  <2>1. y[j] \in Token /\ F[y[j]] \in Seq(Token)
    BY <1>2, <1>3
  <2>2. \A i \in 1 .. Len(F[y[j]]) : F[y[j]][i].col = y[j].col
    BY <1>4, <2>1
  <2> DEFINE s == F[y[j]]
             d == y[j].col
  <2>3. s \in Seq(Token) /\ \A i \in 1 .. Len(s) : s[i].col = d
    BY <2>1, <2>2
  <2> HIDE DEF s, d, c
  <2>4. s \in Seq(OfCol(d))
    BY <2>3, OfColIs
  <2>5. FlatMap(s, AtCol(c)) = IF c = d THEN s ELSE <<>>
    BY <2>4, AtPiece
  <2> QED  BY <2>5 DEF s, d, G
<1>9. \A j \in 1 .. Len(y) : j # p => H[y[j]] = <<>>
  BY <1>2, <1>7, <1>8
<1>10. H[y[p]] = F[y[p]]
  BY <1>2, <1>7, <1>8
<1>11. FlatMap(y, H) = H[y[p]]
  BY <1>6, <1>9, FlatMapSingle
<1>12. FlatMap(FlatMap(y, F), G) = FlatMap(y, H)
  <2>1. /\ Pieces(y, F) \in Seq(Seq(Token)) /\ DOMAIN Pieces(y, F) = DOMAIN y
        /\ \A j \in DOMAIN y : Pieces(y, F)[j] = F[y[j]]
    BY <1>0, PiecesTyped DEF Pieces
  <2>2. FlatMap(FlattenSeq(Pieces(y, F)), G)
          = FlattenSeq([j \in DOMAIN Pieces(y, F) |-> FlatMap(Pieces(y, F)[j], G)])
    BY <1>1, <2>1, FlatMapFlatten
  <2>3. \A j \in DOMAIN y : H[y[j]] = FlatMap(F[y[j]], G)
    BY <1>2, <1>7
  <2>4. [j \in DOMAIN Pieces(y, F) |-> FlatMap(Pieces(y, F)[j], G)] = Pieces(y, H)
    BY <2>1, <2>3 DEF Pieces
  <2> QED  BY <2>2, <2>4, Zenon DEF FlatMap
<1>13. FlatMap(y, F) \in Seq(Token)
  BY <1>0, FlatMapTyped
<1>14. At(FlatMap(y, F), c) = F[y[p]]
  <2>1. At(FlatMap(y, F), c) = FlatMap(FlatMap(y, F), G)
    BY <1>13, AtIs DEF G
  <2> QED  BY <1>10, <1>11, <1>12, <2>1, Zenon
<1>15. F[y[p]] = Placed(params[c], c)
  BY <1>0, <1>2
<1> QED  BY <1>14, <1>15, Zenon DEF F

-----------------------------------------------------------------------------
(* The statements of hft::orm::Repository.                                 *)

Numbered(n) == Placeholders([i \in 1 .. n |-> i])

\* The statement of n placeholders, numbered without a gap.
LEMMA StatementIs ==
  ASSUME NEW n \in Nat
  PROVE  /\ Numbered(n) \in Seq(Token) /\ Len(Numbered(n)) = n
         /\ \A i \in 1 .. n : /\ Numbered(n)[i].kind = "ref" /\ Numbered(n)[i].n = i
                              /\ Numbered(n)[i].col = i /\ Numbered(n)[i] \in Token
<1> DEFINE ns == [i \in 1 .. n |-> i]
<1>1. ns \in [1 .. n -> Nat] /\ \A i \in 1 .. n : ns[i] = i
  OBVIOUS
<1>2. Numbered(n) = Placeholders(ns)
  BY DEF Numbered
<1> HIDE DEF ns
<1>3. /\ Numbered(n) \in Seq(Token) /\ Len(Numbered(n)) = n
      /\ \A i \in 1 .. n : /\ Numbered(n)[i].kind = "ref" /\ Numbered(n)[i].n = i
                           /\ Numbered(n)[i].col = i
  BY <1>1, <1>2, PlaceholdersAre
<1> QED  BY <1>3

\* Nothing, one token, or one and a reference to the second parameter.
BoundValues ==
  {v \in Values : /\ Len(v) <= 2 /\ (Len(v) > 0 => v[1].kind # "ref")
                  /\ (Len(v) = 2 => v[2].kind = "ref" /\ v[2].n = 2)}

\* What the repository binds: nothing, one token, or a text and the "$2" inside it.
LEMMA BoundIs ==
  ASSUME NEW v \in BoundValues
  PROVE  /\ v \in Seq(Token) /\ v \in Values /\ Len(v) <= 2 /\ (Len(v) > 0 => v[1].kind # "ref")
         /\ Len(v) = 2 => v[2].kind = "ref" /\ v[2].n = 2
         /\ \A k \in Nat : \A m \in 1 .. Len(v) : k > 2 \/ m = 1 => ~ Found(v[m], k)
<1>1. v \in Seq(Token) /\ v \in Values /\ Len(v) <= 2 /\ (Len(v) > 0 => v[1].kind # "ref")
  BY DEF BoundValues, Values
<1>2. Len(v) = 2 => v[2].kind = "ref" /\ v[2].n = 2
  BY DEF BoundValues, Values
<1>3. ASSUME NEW k \in Nat, NEW m \in 1 .. Len(v), k > 2 \/ m = 1
      PROVE  ~ Found(v[m], k)
  <2>0. Len(v) \in Nat /\ Len(v) <= 2
    BY <1>1, LenProperties
  <2>1. m = 1 \/ (m = 2 /\ Len(v) = 2)
    <3>1. m \in Int /\ 1 <= m /\ m <= Len(v)
      BY <2>0
    <3>2. m = 1 \/ m = 2
      BY <2>0, <3>1
    <3>3. m = 2 => Len(v) = 2
      <4> DEFINE L == Len(v)
      <4>1. L \in Nat /\ L <= 2 /\ m <= L
        BY <2>0, <3>1
      <4> HIDE DEF L
      <4>2. m = 2 => L = 2
        BY <4>1
      <4> QED  BY <4>2 DEF L
    <3> QED  BY <3>2, <3>3
  <2>2. 2 \div 10 = 0
    OBVIOUS
  <2> QED  BY <1>1, <1>2, <1>3, <2>1, <2>2 DEF Found
<1> QED  BY <1>1, <1>2, <1>3

\* Only a reference to the second parameter can stand in a bound value.
LEMMA BoundApart ==
  ASSUME NEW params \in Seq(BoundValues), NEW k0 \in Nat, k0 > 0 \/ params = <<>> \/ Len(params[1]) < 2
  PROVE  params \in Seq(Values) /\ Apart(params, k0)
<1>1. \A i \in 1 .. Len(params) : params[i] \in BoundValues
  OBVIOUS
<1>2. \A v \in BoundValues : v \in Values
  BY DEF BoundValues
<1>3. params \in Seq(Values)
  BY <1>2
<1>4. ASSUME NEW i \in k0 + 1 .. Len(params), NEW j \in i + 1 .. Len(params),
             NEW m \in 1 .. Len(params[i])
      PROVE  ~ Found(params[i][m], j)
  <2>1. params[i] \in BoundValues /\ i \in 1 .. Len(params)
    BY <1>1
  <2>2. Len(params[i]) \in Nat /\ Len(params[i]) <= 2
    BY <2>1, BoundIs
  <2>3. j > 2 \/ m = 1
    <3>1. i > 1 => j > 2
      OBVIOUS
    <3>2. i = 1 => Len(params[i]) < 2
      BY <2>1
    <3> QED  BY <2>1, <2>2, <3>1, <3>2
  <2> QED  BY <2>1, <2>3, BoundIs
<1> QED  BY <1>3, <1>4 DEF Apart

\* The placeholders of the repository rise.
LEMMA StatementRising ==
  ASSUME NEW n \in Nat
  PROVE  Rising(Numbered(n), 0)
<1> DEFINE y == Numbered(n)
<1>1. Len(y) = n /\ \A i \in 1 .. n : y[i].kind = "ref" /\ y[i].n = i
  BY StatementIs
<1> HIDE DEF y
<1>2. \A i \in 1 .. n : i >= 10 => i \div 10 \in 1 .. i - 1
  OBVIOUS
<1>3. \A i \in 1 .. n : y[i].n >= 10 => \E j \in 1 .. i - 1 : y[j].n = y[i].n \div 10
  <2> SUFFICES ASSUME NEW i \in 1 .. n, y[i].n >= 10
               PROVE  \E j \in 1 .. i - 1 : y[j].n = y[i].n \div 10
    OBVIOUS
  <2>1. i \div 10 \in 1 .. i - 1 /\ i \div 10 \in 1 .. n /\ y[i].n = i
    BY <1>1, <1>2
  <2>2. y[i \div 10].n = y[i].n \div 10
    BY <1>1, <2>1
  <2> QED  BY <2>1, <2>2
<1>4. \A i, j \in 1 .. n : i < j => y[i].n < y[j].n
  BY <1>1
<1>5. \A i \in 1 .. n : y[i].kind = "ref" /\ y[i].n > 0
  BY <1>1
<1> QED  BY <1>1, <1>3, <1>4, <1>5 DEF Rising, y

LEMMA BeyondRising ==
  ASSUME NEW n \in Nat, n >= 2
  PROVE  /\ Beyond(Numbered(n), 2) \in Seq(Token) /\ Len(Beyond(Numbered(n), 2)) = n - 2
         /\ Rising(Beyond(Numbered(n), 2), 2)
         /\ \A i \in 1 .. n - 2 : /\ Beyond(Numbered(n), 2)[i].kind = "ref"
                                  /\ Beyond(Numbered(n), 2)[i].n = i + 2
                                  /\ Beyond(Numbered(n), 2)[i].col = i + 2
<1> DEFINE y == Beyond(Numbered(n), 2)
<1>1. /\ Numbered(n) \in Seq(Token) /\ Len(Numbered(n)) = n
      /\ \A i \in 1 .. n : /\ Numbered(n)[i].kind = "ref" /\ Numbered(n)[i].n = i
                           /\ Numbered(n)[i].col = i
  BY StatementIs
<1>2. /\ y \in Seq(Token) /\ Len(y) = n - 2
      /\ \A j \in 1 .. n - 2 : y[j] = Numbered(n)[2 + j]
  <2> DEFINE s == Numbered(n)
  <2>1. s \in Seq(Token) /\ Len(s) = n /\ 2 \in 0 .. Len(s)
    BY <1>1
  <2> HIDE DEF s
  <2>2. /\ Beyond(s, 2) \in Seq(Token) /\ Len(Beyond(s, 2)) = Len(s) - 2
        /\ \A j \in 1 .. Len(s) - 2 : Beyond(s, 2)[j] = s[2 + j]
    BY <2>1, Split, ZenonT(40)
  <2>3. y = Beyond(s, 2)
    BY DEF s
  <2> HIDE DEF y
  <2> QED  BY <2>1, <2>2, <2>3 DEF s
<1> HIDE DEF y
<1>3. \A i \in 1 .. n - 2 : y[i].kind = "ref" /\ y[i].n = i + 2 /\ y[i].col = i + 2
  BY <1>1, <1>2
<1>4. \A i \in 1 .. n - 2 : i + 2 >= 10 /\ (i + 2) \div 10 > 2 => (i + 2) \div 10 - 2 \in 1 .. i - 1
  OBVIOUS
<1>5. \A i \in 1 .. n - 2 : y[i].n >= 10 /\ y[i].n \div 10 > 2 =>
        \E j \in 1 .. i - 1 : y[j].n = y[i].n \div 10
  <2> SUFFICES ASSUME NEW i \in 1 .. n - 2, y[i].n >= 10 /\ y[i].n \div 10 > 2
               PROVE  \E j \in 1 .. i - 1 : y[j].n = y[i].n \div 10
    OBVIOUS
  <2>1. y[i].n = i + 2
    BY <1>3
  <2> DEFINE j == (i + 2) \div 10 - 2
  <2>2. j \in 1 .. i - 1 /\ j \in 1 .. n - 2
    BY <1>4, <2>1
  <2>3. y[j].n = j + 2 /\ j + 2 = (i + 2) \div 10
    BY <1>3, <2>2
  <2> QED  BY <2>1, <2>2, <2>3
<1>6. \A i, j \in 1 .. n - 2 : i < j => y[i].n < y[j].n
  BY <1>3
<1>7. \A i \in 1 .. n - 2 : y[i].n > 2
  BY <1>3
<1> QED  BY <1>2, <1>3, <1>5, <1>6, <1>7 DEF Rising, y

\* Without a reference in the first value every one comes to its own place.
LEMMA PlaceApart ==
  ASSUME NEW n \in Nat, NEW params \in Seq(BoundValues), Len(params) <= n,
         NEW i \in 1 .. Len(params), Len(params[1]) < 2
  PROVE  At(BuildSQL(Numbered(n), params), i) = Placed(params[i], i)
<1> DEFINE y == Numbered(n)
<1>1. params \in Seq(Values) /\ Apart(params, 0)
  BY BoundApart
<1>2. /\ y \in Seq(Token) /\ Len(y) = n
      /\ \A j \in 1 .. n : y[j].kind = "ref" /\ y[j].n = j /\ y[j].col = j
  BY StatementIs
<1>3. BuildSQL(y, params) = FlatMap(y, Filled(0, Len(params), params))
  BY <1>1, <1>2, StatementRising, BuildSQLExact
<1> HIDE DEF y
<1>4. Len(params) \in Nat /\ i \in 1 .. Len(y) /\ y[i].col = i /\ y[i].col \in 0 + 1 .. Len(params)
  BY <1>1, <1>2, LenProperties
<1>5. \A j \in 1 .. Len(y) : y[j].kind = "ref" /\ y[j].n = y[j].col
  BY <1>2
<1>6. \A j, k \in 1 .. Len(y) : j # k => y[j].col # y[k].col
  BY <1>2
<1>7. At(FlatMap(y, Filled(0, Len(params), params)), y[i].col) = Placed(params[y[i].col], y[i].col)
  <2>1. 0 \in Nat /\ Len(params) <= Len(params)
    BY <1>4
  <2> QED  BY <1>1, <1>2, <1>4, <1>5, <1>6, <2>1, AtFilled
<1> QED  BY <1>3, <1>4, <1>7 DEF y

LEMMA ReplaceUpto ==
  ASSUME NEW k \in Nat, NEW a \in Seq(Clean(k)), NEW t \in Token,
         NEW b \in Seq(Token), NEW value \in Seq(Token), t.kind = "ref", t.n = k
  PROVE  ReplaceFirst(Cat(Cat(a, One(t)), b), k, value) = Cat(Cat(a, Placed(value, t.col)), b)
<1> DEFINE v == Placed(value, t.col)
<1>1. Replaced(t, k, value) = v
  BY ReplacedIs
<1> HIDE DEF v
<1>2. ReplaceFirst(Cat(Cat(a, One(t)), b), k, value) = Cat(Cat(a, v), b)
  BY <1>1, ReplaceThere, ZenonT(40) DEF Cat, One
<1> QED  BY <1>2 DEF v

LEMMA CatEmpty ==
  ASSUME NEW S, NEW a \in Seq(S)
  PROVE  Cat(<<>>, a) = a /\ Cat(a, <<>>) = a
BY DEF Cat

\* The first parameter goes to the first place.
LEMMA ReplaceHead ==
  ASSUME NEW k \in Nat, NEW t \in Token,
         NEW b \in Seq(Token), NEW value \in Seq(Token), t.kind = "ref", t.n = k
  PROVE  ReplaceFirst(Cat(One(t), b), k, value) = Cat(Placed(value, t.col), b)
<1> DEFINE v == Placed(value, t.col)
<1>1. v \in Seq(Token)
  BY PlacedTyped, TokenIs
<1>2. One(t) \in Seq(Token)
  BY OneTyped
<1> HIDE DEF v
<1>3. Cat(<<>>, One(t)) = One(t) /\ Cat(<<>>, v) = v
  BY <1>1, <1>2, CatEmpty
<1>4. <<>> \in Seq(Clean(k))
  OBVIOUS
<1>5. ReplaceFirst(Cat(Cat(<<>>, One(t)), b), k, value) = Cat(Cat(<<>>, v), b)
  BY <1>4, ReplaceUpto DEF v
<1> QED  BY <1>3, <1>5, Zenon DEF v

\* The second parameter comes to the reference in the first value, not to its own place.
LEMMA TwoSteps ==
  ASSUME NEW u \in Token, NEW w \in Token, NEW rest \in Seq(Token),
         u.kind = "ref", u.n = 1,
         NEW lit \in Token, NEW ref \in Token, lit.kind # "ref", ref.kind = "ref", ref.n = 2,
         NEW p1 \in Seq(Token), NEW p2 \in Seq(Token), Placed(p1, u.col) = Cat(One(lit), One(ref))
  PROVE  ReplaceFirst(ReplaceFirst(Cat(One(u), Cat(One(w), rest)), 1, p1), 2, p2)
           = Cat(Cat(Cat(One(lit), Placed(p2, ref.col)), One(w)), rest)
<1> DEFINE b == Cat(One(w), rest)
           a == One(lit)
           v == Placed(p2, ref.col)
<1>1. One(w) \in Seq(Token) /\ One(ref) \in Seq(Token) /\ One(lit) \in Seq(Token)
  BY OneTyped
<1>2. b \in Seq(Token)
  BY <1>1, CatTyped
<1>3. lit \in Clean(2)
  BY DEF Clean, Found
<1>4. a \in Seq(Clean(2))
  BY <1>3, OneTyped
<1>5. v \in Seq(Token)
  BY PlacedTyped, TokenIs
<1> HIDE DEF b, v
<1>6. ReplaceFirst(Cat(One(u), b), 1, p1) = Cat(Cat(a, One(ref)), b)
  BY <1>2, ReplaceHead
<1>7. ReplaceFirst(Cat(Cat(a, One(ref)), b), 2, p2) = Cat(Cat(a, v), b)
  BY <1>2, <1>4, ReplaceUpto DEF v
<1>8. Cat(a, v) \in Seq(Token)
  BY <1>1, <1>5, CatTyped
<1>9. Cat(Cat(a, v), Cat(One(w), rest)) = Cat(Cat(Cat(a, v), One(w)), rest)
  BY <1>1, <1>8, CatAssociative
<1>10. ReplaceFirst(ReplaceFirst(Cat(One(u), b), 1, p1), 2, p2) = Cat(Cat(a, v), b)
  BY <1>6, <1>7, Zenon
<1> QED  BY <1>9, <1>10, Zenon DEF b, v

LEMMA StatementSplit ==
  ASSUME NEW n \in Nat, n >= 2
  PROVE  Numbered(n) = Cat(One(Numbered(n)[1]), Cat(One(Numbered(n)[2]), Beyond(Numbered(n), 2)))
<1> DEFINE s == Numbered(n)
           c == Beyond(s, 2)
<1>1. s \in Seq(Token) /\ Len(s) = n
  BY StatementIs
<1> HIDE DEF s
<1>2. 2 \in 0 .. Len(s)
  BY <1>1
<1>3. c \in Seq(Token) /\ Len(c) = n - 2 /\ \A j \in 1 .. n - 2 : c[j] = s[2 + j]
  BY <1>1, <1>2, Split, ZenonT(40)
<1> HIDE DEF c
<1> DEFINE b == <<s[2]>> \o c
<1>4. s[1] \in Token /\ s[2] \in Token
  BY <1>1
<1>5. /\ b \in Seq(Token) /\ Len(b) = n - 1 /\ b[1] = s[2]
      /\ \A j \in 2 .. n - 1 : b[j] = s[j + 1]
  BY <1>3, <1>4
<1>6. \A j \in 1 .. n - 1 : b[j] = s[j + 1]
  BY <1>5
<1> HIDE DEF b
<1> DEFINE d == <<s[1]>> \o b
<1>7. /\ d \in Seq(Token) /\ Len(d) = n /\ d[1] = s[1]
      /\ \A j \in 2 .. n : d[j] = s[j]
  BY <1>4, <1>5, <1>6
<1>8. \A j \in 1 .. n : d[j] = s[j]
  BY <1>7
<1> HIDE DEF d
<1>9. s = d
  BY <1>1, <1>7, <1>8
<1> QED  BY <1>9, Zenon DEF s, c, d, b, Cat, One

\* With one, every parameter from the third on comes to its own place.
LEMMA PlaceBehind ==
  ASSUME NEW n \in Nat, NEW params \in Seq(BoundValues), Len(params) <= n,
         NEW i \in 3 .. Len(params), Len(params[1]) = 2
  PROVE  At(BuildSQL(Numbered(n), params), i) = Placed(params[i], i)
<1> DEFINE m == Len(params)
           s == Numbered(n)
           rest == Beyond(s, 2)
           u == s[1]
           w == s[2]
           p == Placed(params[1], u.col)
           lit == p[1]
           ref == p[2]
           v == Placed(params[2], ref.col)
           x == Cat(Cat(One(lit), v), One(w))
<1>1. m \in Nat /\ m >= 3 /\ n >= 3 /\ i \in 2 + 1 .. m
  <2>1. m \in Nat
    BY LenProperties
  <2> HIDE DEF m
  <2> QED  BY <2>1 DEF m
<1>2. params \in Seq(Values) /\ Apart(params, 2)
  BY BoundApart
<1>3. params[1] \in BoundValues /\ params[2] \in BoundValues
  BY <1>1
<1>4. /\ params[1] \in Seq(Token) /\ params[2] \in Seq(Token)
      /\ params[1][1].kind # "ref" /\ params[1][2].kind = "ref" /\ params[1][2].n = 2
      /\ \A k \in Nat : \A j \in 1 .. Len(params[2]) : k > 2 => ~ Found(params[2][j], k)
  <2> DEFINE a == params[1]
             b == params[2]
  <2>1. a \in BoundValues /\ b \in BoundValues /\ Len(a) = 2
    BY <1>3
  <2> HIDE DEF a, b
  <2>2. a \in Seq(Token) /\ a[1].kind # "ref" /\ a[2].kind = "ref" /\ a[2].n = 2
    <3>1. Len(a) > 0
      BY <2>1
    <3> QED  BY <2>1, <3>1, BoundIs
  <2>3. b \in Seq(Token) /\ \A k \in Nat : \A j \in 1 .. Len(b) : k > 2 => ~ Found(b[j], k)
    BY <2>1, BoundIs
  <2> QED  BY <2>2, <2>3 DEF a, b
<1>5. /\ s \in Seq(Token) /\ Len(s) = n /\ u \in Token /\ w \in Token
      /\ u.kind = "ref" /\ u.n = 1 /\ u.col = 1 /\ w.kind = "ref" /\ w.n = 2 /\ w.col = 2
  <2>1. n \in Nat /\ 1 \in 1 .. n /\ 2 \in 1 .. n
    BY <1>1
  <2>2. /\ s \in Seq(Token) /\ Len(s) = n
        /\ \A j \in 1 .. n : s[j].kind = "ref" /\ s[j].n = j /\ s[j].col = j /\ s[j] \in Token
    BY <2>1, StatementIs
  <2> HIDE DEF s
  <2> QED  BY <2>1, <2>2
<1>6. /\ rest \in Seq(Token) /\ Len(rest) = n - 2 /\ Rising(rest, 2)
      /\ \A j \in 1 .. n - 2 : rest[j].kind = "ref" /\ rest[j].n = j + 2 /\ rest[j].col = j + 2
  <2>1. n \in Nat /\ n >= 2
    BY <1>1
  <2> QED  BY <2>1, BeyondRising
<1>7. s = Cat(One(u), Cat(One(w), rest))
  BY <1>1, StatementSplit
<1>8. /\ p \in Seq(Token) /\ Len(p) = 2 /\ p = Cat(One(lit), One(ref))
      /\ lit \in Token /\ ref \in Token /\ lit.kind # "ref" /\ ref.kind = "ref" /\ ref.n = 2
      /\ lit.col = 1 /\ ref.col = 1
  <2>1. /\ p \in Seq(Token) /\ Len(p) = 2
        /\ \A j \in 1 .. 2 : /\ p[j].kind = params[1][j].kind /\ p[j].n = params[1][j].n
                             /\ p[j].col = 1
    <3> DEFINE q == params[1]
    <3>1. q \in Seq(Token) /\ Len(q) = 2 /\ u.col = 1 /\ 1 \in Nat
      BY <1>4, <1>5
    <3> HIDE DEF q
    <3>2. /\ Placed(q, 1) \in Seq(Token) /\ Len(Placed(q, 1)) = Len(q)
          /\ \A j \in 1 .. Len(q) : /\ Placed(q, 1)[j].kind = q[j].kind /\ Placed(q, 1)[j].n = q[j].n
                                    /\ Placed(q, 1)[j].col = 1
      BY <3>1, PlacedTyped
    <3>3. p = Placed(q, 1)
      BY <3>1 DEF q
    <3> HIDE DEF p
    <3> QED  BY <3>1, <3>2, <3>3 DEF q
  <2> HIDE DEF p
  <2>2. p = <<p[1]>> \o <<p[2]>> /\ p[1] \in Token /\ p[2] \in Token
    BY <2>1
  <2> QED  BY <1>4, <2>1, <2>2 DEF Cat, One
<1>9. /\ v \in Seq(Token) /\ \A j \in 1 .. Len(v) : v[j].col = 1
      /\ \A k \in Nat : k > 2 => v \in Seq(Clean(k))
  <2>1. \A k \in Nat : k > 2 => v \in Seq(Clean(k))
    BY <1>4, <1>8, PlacedClean
  <2> QED  BY <1>4, <1>8, <2>1, PlacedTyped
<1> HIDE DEF m, s, rest, u, w, p, lit, ref, v
<1>10. PICK r \in Steps(s, params) : BuildSQL(s, params) = r[m]
  BY <1>2, <1>5, BuildSQLSteps DEF m
<1>11. r[0] = s /\ r[1] = ReplaceFirst(r[0], 1, params[1]) /\ r[2] = ReplaceFirst(r[1], 2, params[2])
  <2>1. r[0] = s /\ \A k \in 1 .. m : r[k] = ReplaceFirst(r[k - 1], k, params[k])
    BY DEF Steps, m
  <2>2. 1 \in 1 .. m /\ 2 \in 1 .. m /\ 1 - 1 = 0 /\ 2 - 1 = 1
    BY <1>1
  <2>3. r[1] = ReplaceFirst(r[1 - 1], 1, params[1]) /\ r[2] = ReplaceFirst(r[2 - 1], 2, params[2])
    BY <2>1, <2>2
  <2> QED  BY <2>1, <2>2, <2>3
<1>12. r[2] = Cat(x, rest)
  <2>1. ReplaceFirst(ReplaceFirst(Cat(One(u), Cat(One(w), rest)), 1, params[1]), 2, params[2])
          = Cat(Cat(Cat(One(lit), v), One(w)), rest)
    <3>1. Placed(params[1], u.col) = Cat(One(lit), One(ref))
      BY <1>8 DEF p
    <3> DEFINE a == params[1]
               b == params[2]
    <3>2. a \in Seq(Token) /\ b \in Seq(Token)
      BY <1>4
    <3>3. Placed(a, u.col) = Cat(One(lit), One(ref)) /\ v = Placed(b, ref.col)
      BY <3>1 DEF v
    <3>4. u \in Token /\ w \in Token /\ rest \in Seq(Token) /\ lit \in Token /\ ref \in Token
      BY <1>5, <1>6, <1>8
    <3>5. u.kind = "ref" /\ u.n = 1 /\ lit.kind # "ref" /\ ref.kind = "ref" /\ ref.n = 2
      BY <1>5, <1>8
    <3> HIDE DEF a, b
    <3>6. ReplaceFirst(ReplaceFirst(Cat(One(u), Cat(One(w), rest)), 1, a), 2, b)
            = Cat(Cat(Cat(One(lit), Placed(b, ref.col)), One(w)), rest)
      BY <3>2, <3>3, <3>4, <3>5, TwoSteps
    <3> QED  BY <3>3, <3>6, Zenon DEF a, b
  <2> QED  BY <1>7, <1>11, <2>1, Zenon DEF x
<1>13. \A k \in 2 + 1 .. m : x \in Seq(Clean(k))
  <2> TAKE k \in 2 + 1 .. m
  <2>1. k \in Nat /\ k > 2
    BY <1>1
  <2>2. 2 \div 10 = 0
    OBVIOUS
  <2>3. lit \in Clean(k) /\ w \in Clean(k)
    BY <1>5, <1>8, <2>1, <2>2 DEF Clean, Found
  <2>4. One(lit) \in Seq(Clean(k)) /\ One(w) \in Seq(Clean(k)) /\ v \in Seq(Clean(k))
    BY <1>9, <2>1, <2>3, OneTyped
  <2> QED  BY <2>4, CatTyped
<1>14. One(lit) \in Seq(Token) /\ One(w) \in Seq(Token) /\ Cat(One(lit), v) \in Seq(Token)
       /\ x \in Seq(Token)
  BY <1>5, <1>8, <1>9, OneTyped, CatTyped
<1> DEFINE F == Filled(2, m, params)
<1>15. r[m] = Cat(x, FlatMap(rest, F))
  <2>1. 2 \in 0 .. m
    BY <1>1
  <2> HIDE DEF x
  <2> QED  BY <1>2, <1>5, <1>6, <1>12, <1>13, <1>14, <2>1, TailExact DEF m
<1>16. F \in Maps(Token, Token)
  <2>1. m <= Len(params) /\ 2 \in Nat
    BY <1>1 DEF m
  <2> QED  BY <1>1, <1>2, <2>1, FilledIs
<1> HIDE DEF F
<1>17. FlatMap(rest, F) \in Seq(Token)
  BY <1>6, <1>16, FlatMapTyped
<1>18. At(x, i) = <<>>
  <2>1. One(lit) \in Seq(OfCol(1)) /\ One(w) \in Seq(OfCol(2)) /\ v \in Seq(OfCol(1))
    <3>1. lit \in OfCol(1) /\ w \in OfCol(2)
      BY <1>5, <1>8 DEF OfCol
    <3> QED  BY <1>9, <3>1, OneTyped, OfColIs
  <2>2. i # 1 /\ i # 2
    BY <1>1
  <2>3. At(One(lit), i) = <<>> /\ At(One(w), i) = <<>> /\ At(v, i) = <<>>
    BY <1>9, <1>14, <2>1, <2>2, AtIs, AtPiece
  <2>4. At(Cat(One(lit), v), i) = Cat(<<>>, <<>>)
    BY <1>9, <1>14, <2>3, AtCat
  <2>5. Cat(<<>>, <<>>) = <<>>
    BY DEF Cat
  <2>6. At(x, i) = Cat(At(Cat(One(lit), v), i), At(One(w), i))
    BY <1>14, AtCat
  <2> QED  BY <2>3, <2>4, <2>5, <2>6, Zenon
<1>19. At(FlatMap(rest, F), i) = Placed(params[i], i)
  <2> DEFINE j == i - 2
  <2>1. j \in 1 .. Len(rest) /\ rest[j].col = i
    BY <1>1, <1>6 DEF m
  <2>2. \A k \in 1 .. Len(rest) : rest[k].kind = "ref" /\ rest[k].n = rest[k].col
    BY <1>6
  <2>3. \A k, l \in 1 .. Len(rest) : k # l => rest[k].col # rest[l].col
    BY <1>6
  <2> HIDE DEF j
  <2>4. At(FlatMap(rest, Filled(2, m, params)), rest[j].col) = Placed(params[rest[j].col], rest[j].col)
    <3>1. 2 \in Nat /\ m <= Len(params) /\ rest[j].col \in 2 + 1 .. m
      BY <1>1, <2>1 DEF m
    <3> QED  BY <1>1, <1>2, <1>6, <2>1, <2>2, <2>3, <3>1, AtFilled
  <2> QED  BY <2>1, <2>4, Zenon DEF F
<1>20. Placed(params[i], i) \in Seq(Token)
  <2>1. params[i] \in BoundValues /\ i \in Nat
    BY <1>1 DEF m
  <2> QED  BY <2>1, BoundIs, PlacedTyped
<1>21. At(r[m], i) = Cat(<<>>, Placed(params[i], i))
  <2> HIDE DEF x
  <2>1. At(Cat(x, FlatMap(rest, F)), i) = Cat(At(x, i), At(FlatMap(rest, F), i))
    BY <1>14, <1>17, AtCat
  <2> QED  BY <1>15, <1>18, <1>19, <2>1, Zenon
<1>22. Cat(<<>>, Placed(params[i], i)) = Placed(params[i], i)
  BY <1>20, CatEmpty
<1> QED  BY <1>10, <1>21, <1>22, Zenon DEF s

\* buildSQL() on a statement of the repository: a place holds its own parameter,
\* unless the first value carries "$2" and the place is one of the first two.
LEMMA Place ==
  ASSUME NEW n \in Nat, NEW params \in Seq(BoundValues), Len(params) <= n,
         NEW i \in 1 .. Len(params), i >= 3 \/ Len(params[1]) < 2
  PROVE  At(BuildSQL(Numbered(n), params), i) = Placed(params[i], i)
<1>1. CASE Len(params[1]) < 2
  BY <1>1, PlaceApart
<1>2. CASE ~ (Len(params[1]) < 2)
  <2>1. i \in 3 .. Len(params)
    BY <1>2
  <2>2. params[1] \in BoundValues
    BY <2>1
  <2> DEFINE l == Len(params[1])
  <2>3. l \in Nat /\ l <= 2
    BY <2>2, BoundIs, LenProperties
  <2>4. ~ (l < 2)
    BY <1>2
  <2> HIDE DEF l
  <2>5. l = 2
    BY <2>3, <2>4
  <2>6. Len(params[1]) = 2
    BY <2>5 DEF l
  <2> QED  BY <2>1, <2>6, PlaceBehind
<1> QED  BY <1>1, <1>2

-----------------------------------------------------------------------------
(* The columns of an entity, and its members.                              *)

HftFields == {"int32", "int64", "double", "string", "bool"}
Dialects == {"postgres", "sybase"}
Makers == {"catalog", "script"}

HftCols(dialect) == {HftColumn(f, k, dialect) : f \in HftFields, k \in BOOLEAN}
PlainCols(dialect, maker) ==
  {PlainColumn(n, k, dialect, maker) : n \in TypeNames(dialect), k \in BOOLEAN}

\* A column of the hft catalog has the type of its member.
LEMMA HftColIs ==
  ASSUME NEW d, NEW c \in HftCols(d)
  PROVE  c.field \in HftFields /\ c.key \in BOOLEAN /\ c.sql = GetTypeSQL(c.field, d)
<1>1. PICK f \in HftFields, k \in BOOLEAN : c = HftColumn(f, k, d)
  BY DEF HftCols
<1>2. c.field = f /\ c.key = k /\ c.sql = GetTypeSQL(f, d)
  BY <1>1 DEF HftColumn
<1> QED  BY <1>2

\* A column of the plain catalog, or of a script, has the type of its name.
LEMMA PlainColIs ==
  ASSUME NEW d, NEW m, NEW c \in PlainCols(d, m)
  PROVE  /\ c.name \in TypeNames(d) /\ c.key \in BOOLEAN /\ c.field = MapSQLTypeToCpp(c.name)
         /\ c.sql = IF m = "catalog" THEN MapTypeToSQL(c.name, d) ELSE TypeOf[c.name]
<1>1. PICK n \in TypeNames(d), k \in BOOLEAN : c = PlainColumn(n, k, d, m)
  BY DEF PlainCols
<1>2. /\ c.name = n /\ c.key = k /\ c.field = MapSQLTypeToCpp(n)
      /\ c.sql = IF m = "catalog" THEN MapTypeToSQL(n, d) ELSE TypeOf[n]
  BY <1>1 DEF PlainColumn
<1> QED  BY <1>2

\* The columns that are not of the key.
KeyLess(S) == [c \in S |-> IF ~ c.key THEN <<c>> ELSE <<>>]

LEMMA KeyLessIs ==
  ASSUME NEW S
  PROVE  /\ KeyLess(S) \in Maps(S, S)
         /\ \A c \in S : KeyLess(S)[c] = IF ~ c.key THEN <<c>> ELSE <<>>
<1>1. \A c \in S : (IF ~ c.key THEN <<c>> ELSE <<>>) \in Seq(S)
  OBVIOUS
<1>2. KeyLess(S) \in [S -> Seq(S)]
  BY <1>1 DEF KeyLess
<1>3. \A c \in S : KeyLess(S)[c] = IF ~ c.key THEN <<c>> ELSE <<>>
  BY DEF KeyLess
<1> QED  BY <1>2, <1>3 DEF Maps

\* The other columns.
LEMMA NonKeyAre ==
  ASSUME NEW S, NEW cols \in Seq(S)
  PROVE  NonKey(cols) \in Seq(S)
<1>1. \A j \in DOMAIN cols : cols[j] \in S
  OBVIOUS
<1>2. \A j \in DOMAIN cols : KeyLess(S)[cols[j]] = IF ~ cols[j].key THEN <<cols[j]>> ELSE <<>>
  BY <1>1, KeyLessIs
<1>3. [j \in DOMAIN cols |-> IF ~ cols[j].key THEN <<cols[j]>> ELSE <<>>] = Pieces(cols, KeyLess(S))
  BY <1>2 DEF Pieces
<1>4. NonKey(cols) = FlatMap(cols, KeyLess(S))
  BY <1>3, Zenon DEF NonKey, Select, FlatMap
<1>5. FlatMap(cols, KeyLess(S)) \in Seq(S)
  BY KeyLessIs, FlatMapTyped
<1> QED  BY <1>4, <1>5

-----------------------------------------------------------------------------
(* The type tables.                                                        *)

\* A table of rules answers with one of its types.
LEMMA RuleAmong ==
  ASSUME NEW rules, DOMAIN rules \in SUBSET Nat, NEW name, NEW default
  PROVE  \/ FirstRule(rules, name, default) = default
         \/ \E i \in DOMAIN rules : /\ rules[i].any \cap Fragments[name] # {}
                                    /\ FirstRule(rules, name, default) = rules[i].type
<1> DEFINE hits == {i \in DOMAIN rules : /\ rules[i].any \cap Fragments[name] # {}
                                         /\ rules[i].without \cap Fragments[name] = {}}
<1>1. FirstRule(rules, name, default) = IF hits = {} THEN default ELSE rules[Min(hits)].type
  BY Zenon DEF FirstRule
<1>2. hits \in SUBSET Nat
  OBVIOUS
<1>3. hits # {} => Min(hits) \in hits
  <2> HIDE DEF hits
  <2> QED  BY <1>2, MinMax
<1> QED  BY <1>1, <1>3

\* The fragments the rules look for, name by name.
LEMMA FragmentsAre ==
  /\ Fragments["integer"] = {"int"}
  /\ Fragments["bigint"] = {"int", "bigint"}
  /\ Fragments["interval"] = {"int"}
  /\ Fragments["float8"] = {"double"}
  /\ Fragments["charvary"] = {"char", "character_varying", "varying"}
  /\ Fragments["boolean"] = {"bool"}
  /\ Fragments["timestamp"] = {"timestamp", "time"}
  /\ Fragments["int"] = {"int"}
  /\ Fragments["tinyint"] = {"int", "tinyint"}
  /\ Fragments["float"] = {"float"}
  /\ Fragments["varchar"] = {"varchar", "char", "var"}
  /\ Fragments["bit"] = {"bit"}
  /\ Fragments["datetime"] = {"date", "datetime", "time"}
BY DEF Fragments

PlainFields == {"int64", "int16", "int8", "int32", "double", "bool", "string"}

\* The C++ type of every SQL type.
LEMMA CppTypes ==
  ASSUME NEW d \in Dialects, NEW name \in TypeNames(d)
  PROVE  /\ MapSQLTypeToCpp(name) \in PlainFields
         /\ MapSQLTypeToCpp(name) = "int64" => name = "bigint"
         /\ name \in {"charvary", "varchar", "timestamp", "datetime"} =>
              MapSQLTypeToCpp(name) = "string"
<1> DEFINE rules == << Rule({"bigint"}, {}, "int64"), Rule({"smallint"}, {}, "int16"),
               Rule({"tinyint"}, {}, "int8"), Rule({"int"}, {}, "int32"),
               Rule({"float", "double", "real"}, {}, "double"),
               Rule({"numeric", "decimal"}, {}, "double"),
               Rule({"bool", "bit"}, {}, "bool"),
               Rule({"char", "text", "varchar"}, {}, "string"),
               Rule({"date", "time"}, {}, "string") >>
           t == MapSQLTypeToCpp(name)
           fr == Fragments[name]
<1>1. \/ t = "string"
      \/ \E i \in DOMAIN rules : rules[i].any \cap fr # {} /\ t = rules[i].type
  <2>1. t = FirstRule(rules, name, "string")
    BY DEF MapSQLTypeToCpp
  <2>2. DOMAIN rules \in SUBSET Nat
    OBVIOUS
  <2> HIDE DEF rules, t
  <2> QED  BY <2>1, <2>2, RuleAmong
<1>2. \/ t = "string"
      \/ {"bigint"} \cap fr # {} /\ t = "int64"
      \/ {"smallint"} \cap fr # {} /\ t = "int16"
      \/ {"tinyint"} \cap fr # {} /\ t = "int8"
      \/ {"int"} \cap fr # {} /\ t = "int32"
      \/ {"float", "double", "real"} \cap fr # {} /\ t = "double"
      \/ {"numeric", "decimal"} \cap fr # {} /\ t = "double"
      \/ {"bool", "bit"} \cap fr # {} /\ t = "bool"
  <2>1. DOMAIN rules = 1 .. 9
    OBVIOUS
  <2> HIDE DEF t, fr
  <2> QED  BY <1>1, <2>1 DEF Rule
<1>3. name \in {"integer", "bigint", "interval", "float8", "charvary", "boolean", "timestamp",
                "int", "tinyint", "float", "varchar", "bit", "datetime"}
  BY DEF TypeNames
<1>4. "bigint" \in fr => name = "bigint"
  BY <1>3, FragmentsAre
<1>5. name = "charvary" => fr = {"char", "character_varying", "varying"}
  BY FragmentsAre
<1>6. name = "varchar" => fr = {"varchar", "char", "var"}
  BY FragmentsAre
<1>7. name = "timestamp" => fr = {"timestamp", "time"}
  BY FragmentsAre
<1>8. name = "datetime" => fr = {"date", "datetime", "time"}
  BY FragmentsAre
<1> HIDE DEF t, fr
<1>9. t \in PlainFields
  BY <1>2 DEF PlainFields
<1>10. t = "int64" => name = "bigint"
  BY <1>2, <1>4
<1>11. name \in {"charvary", "varchar", "timestamp", "datetime"} => t = "string"
  BY <1>2, <1>5, <1>6, <1>7, <1>8
<1> QED  BY <1>9, <1>10, <1>11 DEF t

NoNumber == {"interval", "timestamp", "datetime", "date"}

\* A column that is no text and no time takes numbers, copied or not.
LEMMA SqlTypes ==
  ASSUME NEW d \in Dialects, NEW name \in TypeNames(d),
         name \notin {"charvary", "varchar", "timestamp", "datetime", "interval"}
  PROVE  MapTypeToSQL(name, d) \notin NoNumber /\ TypeOf[name] \notin NoNumber
<1> DEFINE t == MapTypeToSQL(name, d)
           fr == Fragments[name]
<1>1. name \in {"integer", "bigint", "float8", "boolean", "int", "tinyint", "float", "bit"}
  BY DEF TypeNames
<1>2. TypeOf[name] \notin NoNumber
  BY <1>1 DEF TypeOf, NoNumber
<1>3. "date" \notin fr /\ "timestamp" \notin fr /\ "datetime" \notin fr
  BY <1>1, FragmentsAre
<1>4. \/ t = TypeOf[name]
      \/ \E i \in DOMAIN PostgresRules : PostgresRules[i].any \cap fr # {} /\ t = PostgresRules[i].type
      \/ \E i \in DOMAIN SybaseRules : SybaseRules[i].any \cap fr # {} /\ t = SybaseRules[i].type
  <2>1. DOMAIN PostgresRules \in SUBSET Nat
    BY DEF PostgresRules
  <2>2. DOMAIN SybaseRules \in SUBSET Nat
    BY DEF SybaseRules
  <2>3. CASE d = "postgres"
    <3>1. t = FirstRule(PostgresRules, name, TypeOf[name])
      BY <2>3 DEF MapTypeToSQL
    <3> HIDE DEF t
    <3> QED  BY <2>1, <3>1, RuleAmong
  <2>4. CASE d # "postgres"
    <3>1. t = FirstRule(SybaseRules, name, TypeOf[name])
      BY <2>4 DEF MapTypeToSQL
    <3> HIDE DEF t
    <3> QED  BY <2>2, <3>1, RuleAmong
  <2> QED  BY <2>3, <2>4
<1> HIDE DEF t, fr
<1>5. ASSUME NEW i \in DOMAIN PostgresRules, PostgresRules[i].any \cap fr # {}
      PROVE  PostgresRules[i].type \notin NoNumber
  <2>1. i \in 1 .. 13
    BY DEF PostgresRules
  <2>2. i # 11 /\ i # 12
    BY <1>3, <1>5 DEF PostgresRules, Rule
  <2> QED  BY <2>1, <2>2 DEF PostgresRules, Rule, NoNumber
<1>6. ASSUME NEW i \in DOMAIN SybaseRules, SybaseRules[i].any \cap fr # {}
      PROVE  SybaseRules[i].type \notin NoNumber
  BY <1>3, <1>6 DEF SybaseRules, Rule, NoNumber
<1> QED  BY <1>2, <1>4, <1>5, <1>6 DEF t

-----------------------------------------------------------------------------
(* What hft::orm::Repository binds.                                        *)

Members == {<<"int32", "n">>, <<"int64", "n">>, <<"int64", "wide">>, <<"double", "half">>,
            <<"double", "fine">>, <<"string", "word">>, <<"string", "digits">>,
            <<"string", "long">>, <<"string", "ref">>, <<"bool", "true">>}

LEMMA MembersAre ==
  ASSUME NEW f \in HftFields, NEW v \in Contents(f)
  PROVE  <<f, v>> \in Members
<1>1. CASE f = "int32"  BY <1>1 DEF Contents, Members
<1>2. CASE f = "int64"  BY <1>2 DEF Contents, Members
<1>3. CASE f = "double"  BY <1>3 DEF Contents, Members
<1>4. CASE f = "string"  BY <1>4 DEF Contents, Members
<1>5. CASE f = "bool"  BY <1>5 DEF Contents, Members
<1> QED  BY <1>1, <1>2, <1>3, <1>4, <1>5 DEF HftFields

\* The characters a value is bound as.
Shown(v) == IF v = "fine" THEN "cut" ELSE v
Form(f) == IF f = "string" THEN "quoted" ELSE "number"

\* What each kind of member is bound as, by bindInt(), bindLong(), bindDouble(), bindString().
LEMMA BindIs ==
  ASSUME NEW f, NEW v, <<f, v>> \in Members, f # "bool"
  PROVE  /\ Bind(f, v) \in BoundValues /\ Bind(f, v) \in Seq(Token)
         /\ Bind(f, v)[1].kind = Form(f) /\ Bind(f, v)[1].content = Shown(v)
         /\ Len(Bind(f, v)) = (IF f = "string" /\ v = "ref" THEN 2 ELSE 1)
         /\ Len(Bind(f, v)) = 2 => Bind(f, v)[2].kind = "ref"
<1> DEFINE t == Lit(Form(f), Shown(v))
<1>1. Form(f) \in Forms /\ Shown(v) \in Words /\ Form(f) # "ref"
  BY DEF Form, Shown, Members, Forms, Words
<1>2. t \in Token /\ t.kind = Form(f) /\ t.content = Shown(v)
  BY <1>1, LitTyped
<1>3. Ref(2) \in Token /\ Ref(2).kind = "ref" /\ Ref(2).n = 2
  BY RefTyped
<1>4. Bind(f, v) = IF f = "string" /\ v = "ref" THEN <<t, Ref(2)>> ELSE <<t>>
  BY DEF Bind, Members, Form, Shown
<1> HIDE DEF t
<1>5. CASE f = "string" /\ v = "ref"
  <2> DEFINE b == <<t, Ref(2)>>
  <2>1. /\ b \in Seq(Token) /\ Len(b) = 2 /\ b[1] = t /\ b[2] = Ref(2)
    BY <1>2, <1>3
  <2>2. Bind(f, v) = b
    BY <1>4, <1>5
  <2> HIDE DEF b
  <2>3. b \in BoundValues
    <3>1. b[1].kind # "ref" /\ b[2].kind = "ref" /\ b[2].n = 2
      BY <1>1, <1>2, <1>3, <2>1
    <3>2. b \in Values
      BY <2>1 DEF Values
    <3>3. Len(b) <= 2
      BY <2>1
    <3> QED  BY <3>1, <3>2, <3>3 DEF BoundValues
  <2> QED  BY <1>2, <1>3, <1>5, <2>1, <2>2, <2>3
<1>6. CASE ~ (f = "string" /\ v = "ref")
  <2> DEFINE b == <<t>>
  <2>1. /\ b \in Seq(Token) /\ Len(b) = 1 /\ b[1] = t
    BY <1>2
  <2>2. Bind(f, v) = b
    BY <1>4, <1>6
  <2> HIDE DEF b
  <2>3. b \in BoundValues
    BY <1>1, <1>2, <2>1 DEF BoundValues, Values
  <2> QED  BY <1>2, <1>6, <2>1, <2>2, <2>3
<1> QED  BY <1>5, <1>6

\* What the servers make of a member that came to its own place.
LEMMA PgBound ==
  ASSUME NEW f, NEW v, <<f, v>> \in Members, f # "bool"
  PROVE  /\ PgTakes(GetTypeSQL(f, "postgres"), PgText(Bind(f, v))) = {Shown(v)}
         /\ Shown(v) # Refused
<1>1. Len(Bind(f, v)) > 0 /\ Bind(f, v)[1].content = Shown(v)
  BY BindIs
<1>2. PgText(Bind(f, v)) = Shown(v)
  <2>1. Bind(f, v) # <<>>
    BY <1>1
  <2> QED  BY <1>1, <2>1 DEF PgText
<1>3. PgTakes(GetTypeSQL(f, "postgres"), Shown(v)) = {Shown(v)}
  BY DEF PgTakes, GetTypeSQL, Shown, Members
<1> QED  BY <1>2, <1>3 DEF Shown, Members, Refused

\* A text is cut at 255 characters.
Kept(v) == IF v = "long" THEN "head" ELSE Shown(v)

\* What Sybase makes of a bound value at the place of its own column.
LEMMA SybBound ==
  ASSUME NEW f, NEW v, <<f, v>> \in Members, f # "bool", NEW c \in Nat
  PROVE  /\ SybTakes(GetTypeSQL(f, "sybase"), Placed(Bind(f, v), c)) = {Kept(v)}
         /\ Kept(v) # Refused
<1> DEFINE b == Bind(f, v)
           p == Placed(b, c)
           sql == GetTypeSQL(f, "sybase")
<1>1. /\ b \in Seq(Token) /\ b[1].kind = Form(f) /\ b[1].content = Shown(v)
      /\ Len(b) = (IF f = "string" /\ v = "ref" THEN 2 ELSE 1)
      /\ Len(b) = 2 => b[2].kind = "ref"
  BY BindIs
<1> HIDE DEF b
<1>2. /\ p \in Seq(Token) /\ Len(p) = Len(b)
      /\ \A j \in 1 .. Len(b) : p[j].kind = b[j].kind /\ p[j].content = b[j].content
  BY <1>1, PlacedTyped
<1> HIDE DEF p
<1>3. /\ p # <<>> /\ p[1].kind = Form(f) /\ p[1].content = Shown(v)
      /\ Len(p) > 1 => p[2].kind = "ref"
  BY <1>1, <1>2
<1>4. sql = CASE f = "int32" -> "int4" [] f = "int64" -> "int8" [] f = "double" -> "double"
             [] f = "string" -> "varchar"
  BY DEF GetTypeSQL, Members
<1> HIDE DEF sql
<1>5. SybTakes(sql, p) = {Kept(v)}
  <2>1. ~ (p = <<>> \/ (Len(p) > 1 /\ p[2].kind = "quoted"))
    BY <1>3
  <2>2. (p[1].kind = "quoted") = (sql = "varchar") /\ p[1].kind # "ref"
    BY <1>3, <1>4 DEF Form, Members
  <2>3. ~ (Len(p) > 1 /\ p[2].kind = "number")
    BY <1>3
  <2>4. CASE f = "string"
    <3>1. SybTakes(sql, p) = {IF p[1].content = "long" THEN "head" ELSE p[1].content}
      BY <1>4, <2>1, <2>2, <2>3, <2>4 DEF SybTakes
    <3> QED  BY <1>3, <3>1, <2>4 DEF Kept, Shown, Members
  <2>5. CASE f = "int32"
    BY <1>3, <1>4, <2>1, <2>2, <2>5 DEF SybTakes, Kept, Shown, Members
  <2>6. CASE f = "int64"
    BY <1>3, <1>4, <2>1, <2>2, <2>6 DEF SybTakes, Kept, Shown, Members
  <2>7. CASE f = "double"
    BY <1>3, <1>4, <2>1, <2>2, <2>7 DEF SybTakes, Kept, Shown, Members
  <2> QED  BY <2>4, <2>5, <2>6, <2>7 DEF Members
<1> QED  BY <1>5 DEF p, b, sql, Kept, Shown, Members, Refused

-----------------------------------------------------------------------------
(* bindEntityToStatement.                                                  *)

Member == {[field |-> m[1], v |-> m[2]] : m \in Members}
MembersOf(cols, e) == [i \in DOMAIN cols |-> [field |-> cols[i].field, v |-> e[i]]]
NoBool == [b \in Member |-> IF b.field # "bool" THEN <<b>> ELSE <<>>]
Bindable == {b \in Member : b.field # "bool"}

\* The members that are bound.
LEMMA NoBoolIs ==
  /\ NoBool \in Maps(Member, Member)
  /\ \A b \in Member : NoBool[b] = IF b.field # "bool" THEN <<b>> ELSE <<>>
  /\ NoBool \in Maps(Member, Bindable)
<1>1. \A b \in Member : (IF b.field # "bool" THEN <<b>> ELSE <<>>) \in Seq(Member)
  OBVIOUS
<1>2. NoBool \in [Member -> Seq(Member)]
  BY <1>1 DEF NoBool
<1>3. \A b \in Member : NoBool[b] = IF b.field # "bool" THEN <<b>> ELSE <<>>
  BY DEF NoBool
<1>4. \A b \in Member : b.field # "bool" => b \in Bindable
  BY DEF Bindable
<1>5. \A b \in Member : NoBool[b] \in Seq(Bindable)
  <2> TAKE b \in Member
  <2> HIDE DEF NoBool
  <2>1. CASE b.field # "bool"
    <3>1. NoBool[b] = <<b>> /\ b \in Bindable
      BY <1>3, <1>4, <2>1
    <3>2. \A x \in Bindable : <<x>> \in Seq(Bindable)
      OBVIOUS
    <3>3. <<b>> \in Seq(Bindable)
      BY <3>1, <3>2
    <3> QED  BY <3>1, <3>3
  <2>2. CASE ~ (b.field # "bool")
    <3>1. NoBool[b] = <<>>
      BY <1>3, <2>2
    <3>2. <<>> \in Seq(Bindable)
      OBVIOUS
    <3> QED  BY <3>1, <3>2
  <2> QED  BY <2>1, <2>2
<1>6. NoBool \in [Member -> Seq(Bindable)]
  BY <1>5 DEF NoBool
<1> QED  BY <1>2, <1>3, <1>6 DEF Maps

LEMMA MemberIs ==
  ASSUME NEW b \in Member
  PROVE  <<b.field, b.v>> \in Members
<1>1. PICK m \in Members : b = [field |-> m[1], v |-> m[2]]
  BY DEF Member
<1>2. m = <<m[1], m[2]>>
  BY DEF Members
<1> QED  BY <1>1, <1>2

\* An entity holds, for each column, a content of its type.
LEMMA MembersOfAre ==
  ASSUME NEW d, NEW cols \in Seq(HftCols(d)), NEW e \in Entities(cols)
  PROVE  /\ MembersOf(cols, e) \in Seq(Member) /\ Len(MembersOf(cols, e)) = Len(cols)
         /\ DOMAIN cols = 1 .. Len(cols) /\ Len(cols) \in Nat
         /\ \A i \in 1 .. Len(cols) : MembersOf(cols, e)[i].field = cols[i].field
         /\ \A i \in 1 .. Len(cols) : MembersOf(cols, e)[i].v = e[i]
         /\ \A i \in 1 .. Len(cols) : <<cols[i].field, e[i]>> \in Members
         /\ \A i \in 1 .. Len(cols) : cols[i].sql = GetTypeSQL(cols[i].field, d)
<1> DEFINE S == HftCols(d)
           n == Len(cols)
           ms == MembersOf(cols, e)
<1>1. n \in Nat /\ DOMAIN cols = 1 .. n /\ \A i \in 1 .. n : cols[i] \in S
  <2>1. cols \in Seq(S)
    OBVIOUS
  <2> HIDE DEF S
  <2>2. Len(cols) \in Nat /\ DOMAIN cols = 1 .. Len(cols) /\ \A i \in 1 .. Len(cols) : cols[i] \in S
    BY <2>1
  <2> QED  BY <2>2
<1>2. \A i \in 1 .. n : cols[i].field \in HftFields /\ cols[i].sql = GetTypeSQL(cols[i].field, d)
  BY <1>1, HftColIs
<1>3. \A i \in 1 .. n : e[i] \in Contents(cols[i].field)
  BY <1>1 DEF Entities
<1>4. \A i \in 1 .. n : <<cols[i].field, e[i]>> \in Members
  BY <1>2, <1>3, MembersAre
<1> HIDE DEF n, S
<1>5. \A i \in 1 .. n : ms[i] = [field |-> cols[i].field, v |-> e[i]]
  BY <1>1 DEF MembersOf
<1>6. ASSUME NEW i \in 1 .. n
      PROVE  [field |-> cols[i].field, v |-> e[i]] \in Member
  <2> DEFINE m == <<cols[i].field, e[i]>>
  <2>1. m \in Members /\ [field |-> cols[i].field, v |-> e[i]] = [field |-> m[1], v |-> m[2]]
    BY <1>4
  <2> HIDE DEF m
  <2> QED  BY <2>1 DEF Member
<1>7. ms = [i \in 1 .. n |-> [field |-> cols[i].field, v |-> e[i]]]
  BY <1>1 DEF MembersOf
<1>8. ms \in Seq(Member) /\ Len(ms) = n
  <2> DEFINE val(i) == [field |-> cols[i].field, v |-> e[i]]
  <2>1. ms = [i \in 1 .. n |-> val(i)] /\ \A i \in 1 .. n : val(i) \in Member
    BY <1>6, <1>7
  <2> HIDE DEF val, ms
  <2>2. ms \in [1 .. n -> Member]
    BY <2>1
  <2> QED  BY <1>1, <2>2
<1>9. \A i \in 1 .. n : ms[i].field = cols[i].field /\ ms[i].v = e[i]
  <2> HIDE DEF ms
  <2> TAKE i \in 1 .. n
  <2> DEFINE a == cols[i].field
             b == e[i]
  <2>1. ms[i] = [field |-> a, v |-> b]
    BY <1>5
  <2> HIDE DEF a, b
  <2>2. ms[i].field = a /\ ms[i].v = b
    BY <2>1
  <2> QED  BY <2>2 DEF a, b
<1> QED  BY <1>1, <1>2, <1>4, <1>8, <1>9 DEF n

\* The parameters of an entity are its members without the bools.
LEMMA BindEntityIs ==
  ASSUME NEW d, NEW cols \in Seq(HftCols(d)), NEW e \in Entities(cols)
  PROVE  \E bound \in Seq(Bindable) :
           /\ bound = FlatMap(MembersOf(cols, e), NoBool)
           /\ BindEntity(cols, e) \in Seq(BoundValues)
           /\ Len(BindEntity(cols, e)) = Len(bound) /\ Len(bound) \in Nat
           /\ \A i \in 1 .. Len(bound) : BindEntity(cols, e)[i] = Bind(bound[i].field, bound[i].v)
<1> DEFINE ms == MembersOf(cols, e)
           bound == FlatMap(ms, NoBool)
           val(i) == Bind(bound[i].field, bound[i].v)
           n == Len(bound)
<1>1. ms \in Seq(Member)
  BY MembersOfAre
<1>2. bound \in Seq(Bindable)
  BY <1>1, NoBoolIs, FlatMapTyped
<1>3. BindEntity(cols, e) = [i \in DOMAIN bound |-> val(i)]
  <2>1. \A j \in DOMAIN ms : ms[j] \in Member
    BY <1>1
  <2>2. \A j \in DOMAIN ms : NoBool[ms[j]] = IF ms[j].field # "bool" THEN <<ms[j]>> ELSE <<>>
    BY <2>1, NoBoolIs
  <2>3. [j \in DOMAIN ms |-> IF ms[j].field # "bool" THEN <<ms[j]>> ELSE <<>>] = Pieces(ms, NoBool)
    BY <2>2 DEF Pieces
  <2>4. Select(ms, LAMBDA b : b.field # "bool") = bound
    BY <2>3, Zenon DEF Select, FlatMap
  <2> QED  BY <2>4, Zenon DEF BindEntity, MembersOf
<1> HIDE DEF bound
<1>4. n \in Nat /\ DOMAIN bound = 1 .. n /\ \A i \in 1 .. n : bound[i] \in Bindable
  BY <1>2, LenProperties
<1>5. ASSUME NEW i \in 1 .. n
      PROVE  val(i) \in BoundValues
  <2>1. bound[i] \in Member /\ bound[i].field # "bool"
    BY <1>4 DEF Bindable
  <2> QED  BY <2>1, MemberIs, BindIs
<1> DEFINE p == BindEntity(cols, e)
<1>6. p = [i \in 1 .. n |-> val(i)] /\ \A i \in 1 .. n : p[i] = Bind(bound[i].field, bound[i].v)
  BY <1>3, <1>4
<1>7. p \in Seq(BoundValues) /\ Len(p) = n
  <2> HIDE DEF val, p, n
  <2>1. p \in [1 .. n -> BoundValues]
    BY <1>5, <1>6
  <2> QED  BY <1>4, <2>1
<1> QED  BY <1>2, <1>4, <1>6, <1>7 DEF bound

\* No more parameters than columns; those before the first bool are in their places.
LEMMA BindEntityPrefix ==
  ASSUME NEW d, NEW cols \in Seq(HftCols(d)), NEW e \in Entities(cols)
  PROVE  /\ BindEntity(cols, e) \in Seq(BoundValues) /\ Len(BindEntity(cols, e)) \in Nat
         /\ Len(BindEntity(cols, e)) <= Len(cols)
         /\ \A i \in 0 .. Len(cols) : (\A j \in 1 .. i : cols[j].field # "bool") =>
              /\ i <= Len(BindEntity(cols, e))
              /\ \A j \in 1 .. i : BindEntity(cols, e)[j] = Bind(cols[j].field, e[j])
         /\ Len(cols) = 1 /\ cols[1].field = "bool" => Len(BindEntity(cols, e)) = 0
<1> DEFINE ms == MembersOf(cols, e)
           n == Len(cols)
           p == BindEntity(cols, e)
<1>1. PICK bound \in Seq(Bindable) :
        /\ bound = FlatMap(ms, NoBool)
        /\ p \in Seq(BoundValues)
        /\ Len(p) = Len(bound) /\ Len(bound) \in Nat
        /\ \A i \in 1 .. Len(bound) : p[i] = Bind(bound[i].field, bound[i].v)
  BY BindEntityIs
<1>2. /\ ms \in Seq(Member) /\ Len(ms) = n /\ n \in Nat
      /\ \A i \in 1 .. n : ms[i].field = cols[i].field /\ ms[i].v = e[i]
  <2>1. /\ MembersOf(cols, e) \in Seq(Member) /\ Len(MembersOf(cols, e)) = Len(cols)
        /\ Len(cols) \in Nat
    BY MembersOfAre
  <2>2. \A i \in 1 .. Len(cols) : MembersOf(cols, e)[i].field = cols[i].field
    BY MembersOfAre
  <2>3. \A i \in 1 .. Len(cols) : MembersOf(cols, e)[i].v = e[i]
    BY MembersOfAre
  <2> QED  BY <2>1, <2>2, <2>3, Zenon
<1> HIDE DEF ms, n, p
<1>3. \A i \in 1 .. n : ms[i] \in Member
  BY <1>2
<1>4. Len(bound) <= n
  <2>1. \A b \in Member : Len(NoBool[b]) <= 1
    <3> TAKE b \in Member
    <3>1. CASE b.field # "bool"
      <4>1. NoBool[b] = <<b>>
        BY <3>1, NoBoolIs
      <4> QED  BY <4>1
    <3>2. CASE ~ (b.field # "bool")
      <4>1. NoBool[b] = <<>>
        BY <3>2, NoBoolIs
      <4> QED  BY <4>1
    <3> QED  BY <3>1, <3>2
  <2> QED  BY <1>1, <1>2, <2>1, NoBoolIs, FlatMapShort
<1>5. ASSUME NEW i \in 0 .. n, \A j \in 1 .. i : cols[j].field # "bool"
      PROVE  i <= Len(p) /\ \A j \in 1 .. i : p[j] = Bind(cols[j].field, e[j])
  <2>1. \A j \in 1 .. i : j \in 1 .. n
    BY <1>2
  <2>2. \A j \in 1 .. i : NoBool[ms[j]] = <<ms[j]>>
    BY <1>2, <1>3, <1>5, <2>1, NoBoolIs, ZenonT(40)
  <2>3. Len(bound) >= i /\ \A j \in 1 .. i : bound[j] = ms[j]
    <3>1. i \in 0 .. Len(ms)
      BY <1>2
    <3> QED  BY <1>1, <1>2, <2>2, <3>1, NoBoolIs, FlatMapPrefix, ZenonT(40)
  <2>4. \A j \in 1 .. i : j \in 1 .. Len(bound)
    BY <1>1, <2>3
  <2> QED  BY <1>1, <1>2, <2>1, <2>3, <2>4
<1>6. ASSUME n = 1, cols[1].field = "bool"
      PROVE  Len(p) = 0
  <2>1. \A i \in 1 .. Len(ms) : NoBool[ms[i]] = <<>>
    BY <1>2, <1>3, <1>6, NoBoolIs
  <2>2. bound = <<>>
    BY <1>1, <1>2, <2>1, NoBoolIs, FlatMapNone
  <2> QED  BY <1>1, <2>2
<1> QED  BY <1>1, <1>4, <1>5, <1>6 DEF n, p

-----------------------------------------------------------------------------
(* The inductive invariant.                                                *)

\* The declaration is one the catalogs, the generators or a script make.
DeclIs ==
  \/ decl = NoDecl /\ table = "none"
  \/ decl.api = "load" /\ decl.cols = <<>> /\ table = "refused"
  \/ /\ decl.api = "hft" /\ decl.dialect \in Dialects /\ decl.maker \in Makers
     /\ decl.cols \in Seq(HftCols(decl.dialect)) /\ table \in {"there", "refused"}
     /\ decl.where \in {"key", "other", "none"}
  \/ /\ decl.api = "plain" /\ decl.dialect \in Dialects /\ decl.maker \in Makers
     /\ decl.cols \in Seq(PlainCols(decl.dialect, decl.maker)) /\ table = "there"

\* Without a table there is neither a row nor a write, without a row nothing to find.
RowIs ==
  /\ table # "there" => row = NoRow /\ sent = NoSent
  /\ sent = NoSent => outcome = "none"
  /\ row = NoRow => found = NoRow

\* Each write needs the declaration, and findById needs what the write left.
PipelineInv == DeclIs /\ RowIs /\ RoundTrip /\ RefusedForCause /\ OwnRowOnly

\* Survives and the reasons to refuse, of an entity that is being written.
FieldsOf(cols) == [i \in DOMAIN cols |-> cols[i].field]
RefIn(e) == decl.dialect = "sybase" /\ e # <<>> /\ e[1] = "ref"

SurvivesIn(via, e, i) ==
  LET v  == e[i]
      fs == FieldsOf(NonKey(decl.cols))
  IN  /\ v # "fine"
      /\ IF decl.api = "hft"
         THEN /\ \A j \in 1 .. i : fs[j] # "bool"
              /\ ~(decl.dialect = "sybase" /\ v = "long") /\ ~(RefIn(e) /\ i <= 2)
         ELSE fs[i] \in {"int32", "double", "string"} /\ via # "insertPS"

\* The column id is not the key, or the key is no number the server takes for it.
KeyRefused == decl.where = "key" => decl.dialect = "postgres" /\ Keys(decl.cols)[1].field = "int32"

Cause(via, e) ==
  LET cols == NonKey(decl.cols)
      fs   == FieldsOf(cols)
  IN  \/ via # "update" /\ (decl.maker = "catalog" \/ fs = <<>>)
      \/ decl.api = "hft" /\ ("bool" \in Range(fs) \/ RefIn(e))
      \/ decl.api = "hft" /\ via = "update" /\ KeyRefused
      \/ decl.api = "plain" /\ \/ via = "insertPS" \/ "string" \in Range(fs) \/ "int8" \in Range(fs)
                               \/ "bool" \in Range(fs) /\ decl.dialect = "postgres"
                               \/ \E i \in DOMAIN fs : cols[i].name \in {"bigint", "interval"}

Stored(via, e, rows) ==
  \A r \in rows :
    IF Refused \in Range(r) THEN Cause(via, e)
    ELSE /\ DOMAIN r = DOMAIN NonKey(decl.cols)
         /\ \A i \in DOMAIN r : SurvivesIn(via, e, i) => r[i] = e[i]

\* The reasons of RefusedForCause.
AnyName == \E i \in DOMAIN Fields : NonKey(decl.cols)[i].name \in {"bigint", "interval"}

Reason ==
  \/ sent.via # "update" /\ (decl.maker = "catalog" \/ Fields = <<>>)
  \/ decl.api = "hft" /\ (Has("bool") \/ RefFirst)
  \/ decl.api = "hft" /\ sent.via = "update" /\ KeyRefused
  \/ decl.api = "plain" /\ \/ sent.via = "insertPS" \/ Has("string") \/ Has("int8")
                           \/ Has("bool") /\ decl.dialect = "postgres"
                           \/ AnyName

\* A write keeps the invariant when the rows it may store, and its refusals, are
\* those RoundTrip and RefusedForCause speak of.
LEMMA WriteKeeps ==
  ASSUME PipelineInv, table = "there", NEW via \in {"insert", "update", "insertPS"},
         NEW e \in Entities(NonKey(decl.cols)), NEW rows, Stored(via, e, rows), Write(via, e, rows)
  PROVE  PipelineInv'
<1>1. /\ sent' = [via |-> via, values |-> e] /\ found' = NoRow
      /\ decl' = decl /\ table' = table /\ own' = own
      /\ sent'.via = via /\ sent'.values = e
  BY DEF Write
<1>2. PICK r \in rows : IF Refused \in Range(r) THEN outcome' = "refused" /\ UNCHANGED row
                        ELSE outcome' = "taken" /\ row' = r
  BY DEF Write
<1>3. IF Refused \in Range(r) THEN Cause(via, e)
      ELSE /\ DOMAIN r = DOMAIN NonKey(decl.cols)
           /\ \A i \in DOMAIN r : SurvivesIn(via, e, i) => r[i] = e[i]
  BY DEF Stored
<1>4. sent' # NoSent
  BY <1>1 DEF NoSent
<1>5. DeclIs'
  BY <1>1 DEF PipelineInv, DeclIs
<1>6. RowIs'
  BY <1>1, <1>4 DEF RowIs
<1>7. PipelineTypeOK'
  <2>1. PipelineTypeOK
    BY DEF PipelineInv, RoundTrip
  <2>2. (row # NoRow => DOMAIN row = DOMAIN NonKey(decl.cols))'
    BY <1>1, <1>2, <1>3, <2>1 DEF PipelineTypeOK
  <2>3. (Refused \notin Range(row))'
    BY <1>2, <2>1 DEF PipelineTypeOK
  <2>4. (sent # NoSent => sent.values \in Entities(NonKey(decl.cols)))'
    BY <1>1
  <2>5. (outcome \in {"none", "taken", "refused", "missed", "other"})'
    BY <1>2
  <2>6. (found # NoRow => DOMAIN found = DOMAIN row)'
    BY <1>1
  <2> QED  BY <1>1, <2>1, <2>2, <2>3, <2>4, <2>5, <2>6 DEF PipelineTypeOK
<1>8. RoundTrip'
  <2>1. ASSUME outcome' = "taken", NEW i \in DOMAIN row', Survives(i)'
        PROVE  row'[i] = e[i]
    <3>1. row' = r /\ ~ (Refused \in Range(r))
      BY <1>2, <2>1
    <3>2. SurvivesIn(via, e, i)
      BY <1>1, <2>1 DEF Survives, SurvivesIn, Fields, FieldsOf, RefFirst, RefIn
    <3> QED  BY <1>3, <3>1, <3>2
  <2> QED  BY <1>1, <1>7, <2>1 DEF RoundTrip
<1>9. RefusedForCause'
  <2>1. ASSUME outcome' = "refused"
        PROVE  Reason'
    <3>1. Cause(via, e)
      BY <1>2, <1>3, <2>1
    <3> DEFINE cols == NonKey(decl.cols)
               fs == FieldsOf(cols)
    <3>2. Fields' = fs /\ NonKey(decl.cols)' = cols
      BY <1>1 DEF Fields, FieldsOf
    <3>3. RefFirst' <=> RefIn(e)
      BY <1>1 DEF RefFirst, RefIn
    <3> HIDE DEF fs, cols
    <3>4. /\ Has("bool")' <=> "bool" \in Range(fs)
          /\ Has("string")' <=> "string" \in Range(fs)
          /\ Has("int8")' <=> "int8" \in Range(fs)
      BY <3>2, Zenon DEF Has
    <3>5. /\ (sent.via # "update")' <=> via # "update"
          /\ (sent.via = "insertPS")' <=> via = "insertPS"
          /\ (Fields = <<>>)' <=> fs = <<>>
          /\ AnyName' <=> \E i \in DOMAIN fs : cols[i].name \in {"bigint", "interval"}
      BY <1>1, <3>2 DEF AnyName
    <3>6. \/ via # "update" /\ (decl.maker = "catalog" \/ fs = <<>>)
          \/ decl.api = "hft" /\ ("bool" \in Range(fs) \/ RefIn(e))
          \/ decl.api = "hft" /\ via = "update" /\ KeyRefused
          \/ /\ decl.api = "plain"
             /\ \/ via = "insertPS" \/ "string" \in Range(fs) \/ "int8" \in Range(fs)
                \/ "bool" \in Range(fs) /\ decl.dialect = "postgres"
                \/ \E i \in DOMAIN fs : cols[i].name \in {"bigint", "interval"}
      BY <3>1, Zenon DEF Cause, fs, cols
    <3>7. decl'.maker = decl.maker /\ decl'.api = decl.api /\ decl'.dialect = decl.dialect
      BY <1>1
    <3>8. (KeyRefused' <=> KeyRefused) /\ ((sent.via = "update")' <=> via = "update")
      BY <1>1 DEF KeyRefused
    <3> QED  BY <3>3, <3>4, <3>5, <3>6, <3>7, <3>8, Zenon DEF Reason
  <2> QED  BY <2>1, Zenon DEF RefusedForCause, Reason, AnyName, KeyRefused
<1>10. OwnRowOnly'
  BY <1>2 DEF OwnRowOnly
<1> QED  BY <1>5, <1>6, <1>8, <1>9, <1>10 DEF PipelineInv

\* Rows of which each column is one of those its server can make.
LEMMA WrittenStored ==
  ASSUME NEW via, NEW e, NEW takes, DOMAIN takes = DOMAIN NonKey(decl.cols),
         \A i \in DOMAIN takes : Refused \in takes[i] => Cause(via, e),
         \A i \in DOMAIN takes : SurvivesIn(via, e, i) => takes[i] \subseteq {e[i], Refused}
  PROVE  Stored(via, e, Written(takes))
<1> SUFFICES ASSUME NEW r \in Written(takes)
             PROVE  IF Refused \in Range(r) THEN Cause(via, e)
                    ELSE /\ DOMAIN r = DOMAIN NonKey(decl.cols)
                         /\ \A i \in DOMAIN r : SurvivesIn(via, e, i) => r[i] = e[i]
  BY DEF Stored
<1>1. DOMAIN r = DOMAIN takes /\ \A i \in DOMAIN takes : r[i] \in takes[i]
  BY DEF Written
<1>2. Range(r) = {r[i] : i \in DOMAIN r}
  BY DEF Range
<1>3. CASE Refused \in Range(r)
  <2>1. PICK i \in DOMAIN r : r[i] = Refused
    BY <1>2, <1>3
  <2> QED  BY <1>1, <1>3, <2>1
<1>4. CASE ~ (Refused \in Range(r))
  <2>1. \A i \in DOMAIN r : r[i] # Refused
    BY <1>2, <1>4
  <2>2. \A i \in DOMAIN r : SurvivesIn(via, e, i) => r[i] = e[i]
    <3> TAKE i \in DOMAIN r
    <3>1. SurvivesIn(via, e, i) => r[i] \in {e[i], Refused}
      BY <1>1
    <3> QED  BY <2>1, <3>1
  <2> QED  BY <1>1, <1>4, <2>2
<1> QED  BY <1>3, <1>4

\* A statement that is refused whatever it carries.
LEMMA RefusedStored ==
  ASSUME NEW via, NEW e, NEW r, NEW i \in DOMAIN r, r[i] = Refused, Cause(via, e)
  PROVE  Stored(via, e, {r})
<1>1. Refused \in Range(r)
  BY DEF Range
<1> QED  BY <1>1 DEF Stored

-----------------------------------------------------------------------------
(* The statements of hft::orm::Repository, as the servers take them.       *)

\* The members before the first bool are bound in the places of their columns.
Before(cols) == {i \in 1 .. Len(cols) : \A j \in 1 .. i : cols[j].field # "bool"}

InPlace(cols, e) ==
  {params \in Seq(BoundValues) :
     \A i \in Before(cols) : i <= Len(params) /\ params[i] = Bind(cols[i].field, e[i])}

\* The first parameter carries "$2" only if the first member does.
LEMMA FirstBound ==
  ASSUME NEW d, NEW cols \in Seq(HftCols(d)), NEW e \in Entities(cols), NEW i \in 1 .. Len(cols),
         cols[1].field # "bool", ~ (e # <<>> /\ e[1] = "ref")
  PROVE  Len(Bind(cols[1].field, e[1])) < 2
<1>1. Len(cols) \in Nat /\ 1 \in 1 .. Len(cols) /\ DOMAIN cols = 1 .. Len(cols)
  <2>1. Len(cols) \in Nat /\ DOMAIN cols = 1 .. Len(cols)
    BY MembersOfAre
  <2> QED  BY <2>1
<1>2. <<cols[1].field, e[1]>> \in Members
  BY <1>1, MembersOfAre
<1>3. e # <<>>
  <2>1. DOMAIN e = DOMAIN cols
    BY DEF Entities
  <2> QED  BY <1>1, <2>1
<1>4. Len(Bind(cols[1].field, e[1])) = 1
  BY <1>2, <1>3, BindIs
<1> QED  BY <1>4

\* A column before the first bool takes its member as it is (Sybase).
LEMMA ColumnTaken ==
  ASSUME NEW d \in Dialects, NEW cols \in Seq(HftCols(d)), NEW e \in Entities(cols),
         NEW n \in Nat, NEW params \in InPlace(cols, e), Len(params) <= n, NEW i \in Before(cols)
  PROVE  /\ d = "postgres" => /\ PgTakes(cols[i].sql, PgText(params[i])) = {Shown(e[i])}
                              /\ Shown(e[i]) # Refused
         /\ d = "sybase" /\ (i >= 3 \/ ~ (e # <<>> /\ e[1] = "ref")) =>
              /\ SybTakes(cols[i].sql, At(BuildSQL(Numbered(n), params), i)) = {Kept(e[i])}
              /\ Kept(e[i]) # Refused
<1> DEFINE f == cols[i].field
           v == e[i]
<1>0. /\ params \in Seq(BoundValues) /\ i \in 1 .. Len(cols)
      /\ \A j \in 1 .. i : cols[j].field # "bool"
  BY DEF Before, InPlace
<1>1. /\ Len(cols) \in Nat /\ i \in Nat /\ i >= 1 /\ DOMAIN cols = 1 .. Len(cols)
  <2>1. Len(cols) \in Nat /\ DOMAIN cols = 1 .. Len(cols)
    BY MembersOfAre
  <2> QED  BY <1>0, <2>1
<1>2. <<f, v>> \in Members /\ f # "bool"
  <2>1. <<cols[i].field, e[i]>> \in Members
    BY <1>0, MembersOfAre
  <2>2. i \in 1 .. i
    BY <1>1
  <2> QED  BY <1>0, <2>1, <2>2
<1>3. cols[i].sql = GetTypeSQL(f, d)
  BY <1>0, MembersOfAre
<1>4. i <= Len(params) /\ params[i] = Bind(f, v)
  BY DEF InPlace
<1>5. Len(params) \in Nat /\ i \in 1 .. Len(params)
  <2>1. Len(params) \in Nat
    BY <1>0, LenProperties
  <2> QED  BY <1>1, <1>4, <2>1
<1>6. ASSUME i >= 3 \/ ~ (e # <<>> /\ e[1] = "ref")
      PROVE  At(BuildSQL(Numbered(n), params), i) = Placed(Bind(f, v), i)
  <2>1. i >= 3 \/ Len(params[1]) < 2
    <3>1. 1 \in 1 .. i /\ 1 \in 1 .. Len(cols)
      BY <1>0, <1>1
    <3>2. cols[1].field # "bool"
      BY <1>0, <3>1
    <3>3. 1 \in Before(cols)
      BY <3>1, <3>2 DEF Before
    <3>4. params[1] = Bind(cols[1].field, e[1])
      BY <3>3 DEF InPlace
    <3>5. CASE ~ (e # <<>> /\ e[1] = "ref")
      <4>1. Len(Bind(cols[1].field, e[1])) < 2
        BY <3>1, <3>2, <3>5, FirstBound
      <4> QED  BY <3>4, <4>1
    <3> QED  BY <1>6, <3>5
  <2>2. At(BuildSQL(Numbered(n), params), i) = Placed(params[i], i)
    BY <1>0, <1>5, <2>1, Place
  <2> QED  BY <1>4, <2>2
<1> HIDE DEF f, v
<1>7. d = "postgres" => PgTakes(cols[i].sql, PgText(params[i])) = {Shown(v)} /\ Shown(v) # Refused
  BY <1>2, <1>3, <1>4, PgBound
<1>8. SybTakes(GetTypeSQL(f, "sybase"), Placed(Bind(f, v), i)) = {Kept(v)} /\ Kept(v) # Refused
  BY <1>1, <1>2, SybBound
<1> QED  BY <1>3, <1>6, <1>7, <1>8 DEF v

\* The same for PostgreSQL.
LEMMA ColumnTakenPg ==
  ASSUME NEW cols \in Seq(HftCols("postgres")), NEW e \in Entities(cols),
         NEW params \in InPlace(cols, e), NEW i \in Before(cols)
  PROVE  /\ PgTakes(cols[i].sql, PgText(params[i])) = {Shown(e[i])}
         /\ Shown(e[i]) # Refused
<1>1. Len(params) \in Nat /\ Len(params) <= Len(params)
  BY LenProperties DEF InPlace
<1>2. "postgres" \in Dialects
  BY DEF Dialects
<1> QED  BY <1>1, <1>2, ColumnTaken

\* And for Sybase.
LEMMA ColumnTakenSyb ==
  ASSUME NEW cols \in Seq(HftCols("sybase")), NEW e \in Entities(cols),
         NEW n \in Nat, NEW params \in InPlace(cols, e), Len(params) <= n, NEW i \in Before(cols),
         i >= 3 \/ ~ (e # <<>> /\ e[1] = "ref")
  PROVE  /\ SybTakes(cols[i].sql, At(BuildSQL(Numbered(n), params), i)) = {Kept(e[i])}
         /\ Kept(e[i]) # Refused
<1>1. "sybase" \in Dialects
  BY DEF Dialects
<1> QED  BY <1>1, ColumnTaken

\* An entity of the hft catalog.
LEMMA HftShape ==
  ASSUME PipelineInv, decl.api = "hft"
  PROVE  /\ decl.dialect \in Dialects /\ decl.maker \in Makers
         /\ decl.cols \in Seq(HftCols(decl.dialect)) /\ decl.where \in {"key", "other", "none"}
         /\ NonKey(decl.cols) \in Seq(HftCols(decl.dialect))
<1>1. /\ decl.dialect \in Dialects /\ decl.maker \in Makers
      /\ decl.cols \in Seq(HftCols(decl.dialect)) /\ decl.where \in {"key", "other", "none"}
  BY DEF PipelineInv, DeclIs, NoDecl
<1> QED  BY <1>1, NonKeyAre

\* What a statement of hft::orm::Repository stores, and why it is refused.
LEMMA HftTaken ==
  ASSUME PipelineInv, decl.api = "hft", NEW via,
         NEW e \in Entities(NonKey(decl.cols)), NEW n \in Nat,
         NEW params \in InPlace(NonKey(decl.cols), e), Len(params) <= n,
         Len(params) # n =>
           \E i \in 1 .. Len(NonKey(decl.cols)) : NonKey(decl.cols)[i].field = "bool"
  PROVE  Stored(via, e, Taken(NonKey(decl.cols), n, params))
<1> DEFINE d == decl.dialect
           cols == NonKey(decl.cols)
           fs == FieldsOf(cols)
           text == BuildSQL(Numbered(n), params)
           take(i) == IF d = "postgres" THEN PgTakes(cols[i].sql, PgText(params[i]))
                      ELSE SybTakes(cols[i].sql, At(text, i))
           takes == [i \in DOMAIN cols |-> take(i)]
           short == d = "postgres" /\ Len(params) # n
           none == [i \in DOMAIN cols |-> Refused]
<1>1. d \in Dialects /\ cols \in Seq(HftCols(d))
  BY HftShape
<1>2. Taken(cols, n, params) = IF short THEN {none} ELSE Written(takes)
  BY Zenon DEF Taken, Numbered, Unwritten
<1>3. Len(cols) \in Nat /\ DOMAIN cols = 1 .. Len(cols)
  BY <1>1, MembersOfAre
<1>4. DOMAIN fs = 1 .. Len(cols) /\ \A i \in 1 .. Len(cols) : fs[i] = cols[i].field
  BY <1>3 DEF FieldsOf
<1> HIDE DEF fs
<1>5. ASSUME NEW i \in 1 .. Len(cols), cols[i].field = "bool"
      PROVE  Cause(via, e)
  <2>1. "bool" \in Range(fs)
    BY <1>4, <1>5 DEF Range
  <2> QED  BY <2>1, Zenon DEF Cause, fs
<1>6. CASE short
  <2>1. PICK i \in 1 .. Len(cols) : cols[i].field = "bool"
    BY <1>6
  <2>2. Cause(via, e)
    BY <1>5, <2>1
  <2>3. i \in DOMAIN none /\ none[i] = Refused
    BY <1>3
  <2> HIDE DEF none
  <2>4. Stored(via, e, {none})
    BY <2>2, <2>3, RefusedStored
  <2> QED  BY <1>2, <1>6, <2>4, Zenon
<1>7. CASE ~ short
  <2>1. DOMAIN takes = DOMAIN NonKey(decl.cols) /\ \A i \in DOMAIN takes : takes[i] = take(i)
    OBVIOUS
  <2>2. ASSUME NEW i \in Before(cols),
               d = "sybase" => i >= 3 \/ ~ (e # <<>> /\ e[1] = "ref")
        PROVE  \/ d = "postgres" /\ take(i) = {Shown(e[i])} /\ Shown(e[i]) # Refused
               \/ d = "sybase" /\ take(i) = {Kept(e[i])} /\ Kept(e[i]) # Refused
    <3>0. e \in Entities(cols) /\ params \in InPlace(cols, e) /\ Len(params) <= n
      OBVIOUS
    <3> HIDE DEF cols, d
    <3>1. CASE d = "postgres"
      <4>1. PgTakes(cols[i].sql, PgText(params[i])) = {Shown(e[i])} /\ Shown(e[i]) # Refused
        <5>1. cols \in Seq(HftCols("postgres")) /\ i \in Before(cols)
          BY <1>1, <2>2, <3>1
        <5> QED  BY <3>0, <5>1, ColumnTakenPg
      <4> QED  BY <3>1, <4>1 DEF d, cols
    <3>2. CASE d = "sybase"
      <4>1. SybTakes(cols[i].sql, At(text, i)) = {Kept(e[i])} /\ Kept(e[i]) # Refused
        <5>1. cols \in Seq(HftCols("sybase")) /\ i \in Before(cols)
          BY <1>1, <2>2, <3>2
        <5>2. i >= 3 \/ ~ (e # <<>> /\ e[1] = "ref")
          BY <2>2, <3>2
        <5>3. n \in Nat
          OBVIOUS
        <5> QED  BY <3>0, <5>1, <5>2, <5>3, ColumnTakenSyb DEF text
      <4> QED  BY <3>2, <4>1 DEF d, cols
    <3> QED  BY <1>1, <3>1, <3>2 DEF Dialects
  <2> HIDE DEF take, takes
  <2>3. \A i \in DOMAIN takes : Refused \in takes[i] => Cause(via, e)
    <3> SUFFICES ASSUME NEW i \in 1 .. Len(cols), Refused \in takes[i], ~ Cause(via, e)
                 PROVE  FALSE
      BY <1>3, <2>1
    <3>1. i \in Before(cols)
      <4>1. \A j \in 1 .. i : j \in 1 .. Len(cols)
        BY <1>3
      <4>2. \A j \in 1 .. i : cols[j].field # "bool"
        BY <1>5, <4>1
      <4> QED  BY <4>2 DEF Before
    <3>2. ~ RefIn(e)
      BY Zenon DEF Cause
    <3>3. d = "sybase" => ~ (e # <<>> /\ e[1] = "ref")
      BY <3>2 DEF RefIn
    <3>4. \/ take(i) = {Shown(e[i])} /\ Shown(e[i]) # Refused
          \/ take(i) = {Kept(e[i])} /\ Kept(e[i]) # Refused
      BY <2>2, <3>1, <3>3
    <3>5. takes[i] = take(i)
      BY <1>3, <2>1
    <3> QED  BY <3>4, <3>5
  <2>4. \A i \in DOMAIN takes : SurvivesIn(via, e, i) => takes[i] \subseteq {e[i], Refused}
    <3> SUFFICES ASSUME NEW i \in 1 .. Len(cols), SurvivesIn(via, e, i)
                 PROVE  takes[i] \subseteq {e[i], Refused}
      BY <1>3, <2>1
    <3>1. /\ e[i] # "fine" /\ \A j \in 1 .. i : fs[j] # "bool"
          /\ ~ (d = "sybase" /\ e[i] = "long") /\ ~ (RefIn(e) /\ i <= 2)
      BY Zenon DEF SurvivesIn, fs
    <3>2. i \in Before(cols)
      <4>1. \A j \in 1 .. i : j \in 1 .. Len(cols)
        BY <1>3
      <4>2. \A j \in 1 .. i : cols[j].field # "bool"
        BY <1>4, <3>1, <4>1
      <4> QED  BY <4>2 DEF Before
    <3>3. d = "sybase" => i >= 3 \/ ~ (e # <<>> /\ e[1] = "ref")
      BY <1>3, <3>1 DEF RefIn
    <3>4. \/ d = "postgres" /\ take(i) = {Shown(e[i])}
          \/ d = "sybase" /\ take(i) = {Kept(e[i])}
      BY <2>2, <3>2, <3>3
    <3>5. takes[i] = take(i)
      BY <1>3, <2>1
    <3>6. take(i) = {e[i]}
      BY <3>1, <3>4 DEF Shown, Kept
    <3> QED  BY <3>5, <3>6
  <2>5. Stored(via, e, Written(takes))
    BY <2>1, <2>3, <2>4, WrittenStored
  <2> QED  BY <1>2, <1>7, <2>5, Zenon
<1> QED  BY <1>6, <1>7

-----------------------------------------------------------------------------
(* The steps of hft::orm::Repository.                                      *)

\* bindEntityToStatement() binds the members before the first bool in place.
LEMMA BindEntityInPlace ==
  ASSUME NEW d, NEW cols \in Seq(HftCols(d)), NEW e \in Entities(cols)
  PROVE  /\ BindEntity(cols, e) \in InPlace(cols, e)
         /\ Len(BindEntity(cols, e)) \in Nat /\ Len(BindEntity(cols, e)) <= Len(cols)
         /\ Len(cols) \in Nat /\ DOMAIN cols = 1 .. Len(cols)
         /\ Len(BindEntity(cols, e)) # Len(cols) =>
              \E i \in 1 .. Len(cols) : cols[i].field = "bool"
<1> DEFINE p == BindEntity(cols, e)
           n == Len(cols)
<1>1. /\ p \in Seq(BoundValues) /\ Len(p) \in Nat /\ Len(p) <= n
      /\ \A i \in 0 .. n : (\A j \in 1 .. i : cols[j].field # "bool") =>
           i <= Len(p) /\ \A j \in 1 .. i : p[j] = Bind(cols[j].field, e[j])
  BY BindEntityPrefix
<1>2. n \in Nat /\ DOMAIN cols = 1 .. n
  BY MembersOfAre
<1> HIDE DEF p, n
<1>3. ASSUME NEW i \in Before(cols)
      PROVE  i <= Len(p) /\ p[i] = Bind(cols[i].field, e[i])
  <2>1. i \in 1 .. n /\ \A j \in 1 .. i : cols[j].field # "bool"
    BY DEF Before, n
  <2>2. i \in 0 .. n /\ i \in 1 .. i
    BY <1>2, <2>1
  <2> QED  BY <1>1, <2>1, <2>2
<1>4. p \in InPlace(cols, e)
  BY <1>1, <1>3 DEF InPlace
<1>5. Len(p) # n => \E i \in 1 .. n : cols[i].field = "bool"
  <2> SUFFICES ASSUME \A i \in 1 .. n : cols[i].field # "bool"
               PROVE  Len(p) = n
    OBVIOUS
  <2>1. n \in 0 .. n
    BY <1>2
  <2>2. n <= Len(p)
    BY <1>1, <2>1
  <2> DEFINE l == Len(p)
  <2>3. l \in Nat /\ l <= n /\ n <= l
    BY <1>1, <2>2
  <2> HIDE DEF l
  <2>4. l = n
    BY <1>2, <2>3
  <2> QED  BY <2>4 DEF l
<1> QED  BY <1>1, <1>2, <1>4, <1>5 DEF p, n

LEMMA HftInsertKeeps ==
  ASSUME PipelineInv, HftInsert
  PROVE  PipelineInv'
<1> DEFINE cols == NonKey(decl.cols)
<1>1. PICK e \in Entities(cols) :
        Write("insert", e, IF NoKeyGiven(cols) THEN {<<Refused>>}
                           ELSE Taken(cols, Len(cols), BindEntity(cols, e)))
  BY Zenon DEF HftInsert
<1>2. decl.api = "hft" /\ table = "there"
  BY DEF HftInsert
<1> DEFINE rows == IF NoKeyGiven(cols) THEN {<<Refused>>}
                   ELSE Taken(cols, Len(cols), BindEntity(cols, e))
<1>3. Stored("insert", e, rows)
  <2>1. CASE NoKeyGiven(cols)
    <3>1. 1 \in DOMAIN <<Refused>> /\ <<Refused>>[1] = Refused
      OBVIOUS
    <3>2. cols = <<>> => FieldsOf(cols) = <<>>
      BY DEF FieldsOf
    <3>3. Cause("insert", e)
      BY <2>1, <3>2 DEF NoKeyGiven, Cause
    <3>4. Stored("insert", e, {<<Refused>>})
      BY <3>1, <3>3, RefusedStored
    <3> QED  BY <2>1, <3>4, Zenon
  <2>2. CASE ~ NoKeyGiven(cols)
    <3>1. cols \in Seq(HftCols(decl.dialect))
      BY <1>2, HftShape
    <3> DEFINE n == Len(cols)
               params == BindEntity(cols, e)
    <3>2. /\ params \in InPlace(cols, e) /\ Len(params) \in Nat /\ Len(params) <= n
          /\ n \in Nat
          /\ Len(params) # n => \E i \in 1 .. Len(cols) : cols[i].field = "bool"
      BY <3>1, BindEntityInPlace
    <3> HIDE DEF n, params
    <3>3. Stored("insert", e, Taken(cols, n, params))
      BY <1>2, <3>2, HftTaken
    <3>4. rows = Taken(cols, n, params)
      BY <2>2, Zenon DEF n, params
    <3> QED  BY <3>3, <3>4, Zenon
  <2> QED  BY <2>1, <2>2
<1> HIDE DEF rows
<1>4. Write("insert", e, rows)
  BY <1>1, Zenon DEF rows
<1> QED  BY <1>2, <1>3, <1>4, WriteKeeps

\* A write that reached another row or none.
LEMMA MissKeeps ==
  ASSUME PipelineInv, table = "there", NEW e \in Entities(NonKey(decl.cols)),
         NEW how \in {"missed", "other"}, Miss(e, how),
         how = "other" => \/ decl.where = "other"
                          \/ RefIn(e) /\ DOMAIN NonKey(decl.cols) = 1 .. 1
  PROVE  PipelineInv'
<1>1. /\ sent' = [via |-> "update", values |-> e] /\ found' = NoRow /\ outcome' = how
      /\ decl' = decl /\ table' = table /\ row' = row /\ own' = own
      /\ sent'.via = "update" /\ sent'.values = e
  BY DEF Miss
<1>2. sent' # NoSent
  BY <1>1 DEF NoSent
<1>3. DeclIs'
  BY <1>1 DEF PipelineInv, DeclIs
<1>4. RowIs'
  BY <1>1, <1>2 DEF RowIs
<1>5. PipelineTypeOK'
  <2>1. PipelineTypeOK
    BY DEF PipelineInv, RoundTrip
  <2> QED  BY <1>1, <2>1 DEF PipelineTypeOK
<1>6. RoundTrip'
  BY <1>1, <1>5 DEF RoundTrip
<1>7. RefusedForCause'
  BY <1>1 DEF RefusedForCause, PipelineInv
<1>8. OwnRowOnly'
  <2> SUFFICES ASSUME how = "other", ~ (decl.where = "other")
               PROVE  RefFirst' /\ Len(Fields)' = 1
    BY <1>1 DEF OwnRowOnly
  <2>1. RefFirst'
    BY <1>1 DEF RefFirst, RefIn
  <2>2. Fields' = [i \in 1 .. 1 |-> NonKey(decl.cols)[i].field]
    BY <1>1 DEF Fields
  <2>3. \A x : Len([i \in 1 .. 1 |-> x[i].field]) = 1
    OBVIOUS
  <2> QED  BY <2>1, <2>2, <2>3
<1> QED  BY <1>3, <1>4, <1>6, <1>7, <1>8 DEF PipelineInv

\* The key behind the members.
KeyValue == <<Lit("number", "key")>>

LEMMA KeyValueIs ==
  KeyValue \in BoundValues /\ KeyValue \in Seq(Token) /\ Len(KeyValue) = 1 /\ KeyValue[1].content = "key"
<1> DEFINE t == Lit("number", "key")
<1>1. "number" \in Forms /\ "key" \in Words
  BY DEF Forms, Words
<1>2. t \in Token /\ t.kind = "number" /\ t.content = "key"
  BY <1>1, LitTyped
<1> HIDE DEF t
<1> DEFINE b == <<t>>
<1>3. b \in Seq(Token) /\ Len(b) = 1 /\ b[1] = t
  BY <1>2
<1>4. KeyValue = b
  BY DEF KeyValue, t
<1> HIDE DEF b
<1>5. b \in BoundValues
  BY <1>2, <1>3 DEF BoundValues, Values
<1> QED  BY <1>2, <1>3, <1>4, <1>5

\* The key is bound behind the members and moves none of them.
LEMMA WithKey ==
  ASSUME NEW d, NEW cols \in Seq(HftCols(d)), NEW e \in Entities(cols), NEW n, n = Len(cols) + 1
  PROVE  LET params == BindAt(BindEntity(cols, e), n, KeyValue)
         IN  /\ params \in InPlace(cols, e) /\ params \in Seq(BoundValues) /\ Len(params) = n
             /\ n \in Nat /\ n >= 1 /\ params[n] = KeyValue
             /\ n = 2 /\ Len(params[1]) = 2 => e # <<>> /\ e[1] = "ref"
<1> DEFINE b == BindEntity(cols, e)
           params == BindAt(b, n, KeyValue)
           val(i) == IF i = n THEN KeyValue ELSE IF i \in DOMAIN b THEN b[i] ELSE <<>>
<1>1. b \in InPlace(cols, e) /\ Len(b) \in Nat /\ Len(b) <= Len(cols) /\ Len(cols) \in Nat
      /\ DOMAIN cols = 1 .. Len(cols)
  BY BindEntityInPlace
<1>2. b \in Seq(BoundValues) /\ \A i \in Before(cols) : i <= Len(b) /\ b[i] = Bind(cols[i].field, e[i])
  BY <1>1 DEF InPlace
<1>3. Len(cols) = 1 /\ cols[1].field = "bool" => Len(b) = 0
  BY BindEntityPrefix
<1> HIDE DEF b
<1>4. n \in Nat /\ n >= 1 /\ DOMAIN b = 1 .. Len(b) /\ \A i \in 1 .. Len(b) : b[i] \in BoundValues
  BY <1>1, <1>2
<1>5. params = [i \in 1 .. n |-> val(i)]
  BY DEF BindAt
<1>6. <<>> \in BoundValues
  <2> DEFINE z == <<>>
  <2>1. z \in Seq(Token) /\ Len(z) = 0
    OBVIOUS
  <2> HIDE DEF z
  <2>2. z \in BoundValues
    BY <2>1 DEF BoundValues, Values
  <2> QED  BY <2>2 DEF z
<1>7. \A i \in 1 .. n : val(i) \in BoundValues
  BY <1>4, <1>6, KeyValueIs
<1> DEFINE B == BoundValues
<1>8. params \in Seq(BoundValues) /\ Len(params) = n /\ \A i \in 1 .. n : params[i] = val(i)
  <2>1. \A i \in 1 .. n : val(i) \in B
    BY <1>7
  <2> HIDE DEF val, params, B
  <2>2. params \in [1 .. n -> B] /\ \A i \in 1 .. n : params[i] = val(i)
    BY <1>5, <2>1
  <2>3. params \in Seq(B) /\ Len(params) = n
    BY <1>4, <2>2
  <2> QED  BY <2>2, <2>3 DEF B
<1> HIDE DEF params
<1>9. ASSUME NEW i \in Before(cols)
      PROVE  i <= Len(params) /\ params[i] = Bind(cols[i].field, e[i])
  <2>1. i \in 1 .. Len(cols) /\ i <= Len(b) /\ b[i] = Bind(cols[i].field, e[i])
    BY <1>2 DEF Before
  <2>2. i \in 1 .. n /\ i # n /\ i \in DOMAIN b
    BY <1>1, <1>4, <2>1
  <2>3. params[i] = b[i]
    BY <1>8, <2>2
  <2> QED  BY <1>8, <2>1, <2>2, <2>3
<1>10. params \in InPlace(cols, e)
  BY <1>8, <1>9 DEF InPlace
<1>11. params[n] = KeyValue
  BY <1>4, <1>8
<1>12. ASSUME n = 2, Len(params[1]) = 2
       PROVE  e # <<>> /\ e[1] = "ref"
  <2>1. Len(cols) = 1 /\ 1 \in 1 .. n /\ 1 # n
    BY <1>1, <1>12
  <2>2. params[1] = IF 1 \in DOMAIN b THEN b[1] ELSE <<>>
    BY <1>8, <2>1
  <2>3. Len(<<>>) # 2
    OBVIOUS
  <2>4. 1 \in DOMAIN b
    BY <1>12, <2>2, <2>3
  <2>5. cols[1].field # "bool"
    BY <1>3, <1>4, <2>1, <2>4
  <2>6. 1 \in Before(cols)
    BY <2>1, <2>5 DEF Before
  <2>7. params[1] = Bind(cols[1].field, e[1])
    BY <1>9, <2>6
  <2>8. <<cols[1].field, e[1]>> \in Members
    BY <2>1, MembersOfAre
  <2>9. Len(Bind(cols[1].field, e[1])) = (IF cols[1].field = "string" /\ e[1] = "ref" THEN 2 ELSE 1)
    BY <2>5, <2>8, BindIs
  <2>10. e[1] = "ref"
    <3> SUFFICES ASSUME e[1] # "ref" PROVE FALSE
      OBVIOUS
    <3>1. Len(Bind(cols[1].field, e[1])) = 1
      BY <2>9
    <3>2. Len(params[1]) = 1
      BY <2>7, <3>1
    <3> QED  BY <1>12, <3>2
  <2>11. DOMAIN e = 1 .. 1
    BY <1>1, <2>1 DEF Entities
  <2> QED  BY <2>10, <2>11
<1> QED  BY <1>4, <1>8, <1>10, <1>11, <1>12 DEF params, b

\* A statement that is refused writes nothing.
LEMMA UnwrittenStored ==
  ASSUME NEW via, NEW e, Cause(via, e)
  PROVE  Stored(via, e, Unwritten(NonKey(decl.cols)))
<1> DEFINE cols == NonKey(decl.cols)
           none == [i \in DOMAIN cols |-> Refused]
<1>1. DOMAIN none = DOMAIN cols /\ \A i \in DOMAIN cols : none[i] = Refused
  OBVIOUS
<1>2. Unwritten(cols) = {none}
  BY Zenon DEF Unwritten
<1> HIDE DEF none
<1>3. CASE DOMAIN cols = {}
  <2>1. Stored(via, e, {none})
    BY <1>1, <1>3 DEF Stored
  <2> QED  BY <1>2, <2>1, Zenon
<1>4. CASE DOMAIN cols # {}
  <2>1. PICK i \in DOMAIN none : none[i] = Refused
    BY <1>1, <1>4
  <2>2. Stored(via, e, {none})
    BY <2>1, RefusedStored
  <2> QED  BY <1>2, <2>2, Zenon
<1> QED  BY <1>3, <1>4

\* What the WHERE of update() selects, by the column id and the key.
LEMMA SelectedIs ==
  ASSUME decl.where \in {"key", "other", "none"},
         NEW replaced \in BOOLEAN, NEW how \in Selected(replaced)
  PROVE  /\ how \in {"own", "other", "missed", "refused"}
         /\ how = "other" => decl.where = "other" \/ ~ replaced
         /\ how = "refused" => KeyRefused
<1>1. CASE decl.where = "none"
  BY <1>1 DEF Selected, KeyRefused
<1>2. CASE decl.where = "other"
  BY <1>2 DEF Selected, KeyRefused
<1>3. CASE decl.where = "key"
  BY <1>3 DEF Selected, KeyRefused
<1> QED  BY <1>1, <1>2, <1>3

\* The WHERE of update() finds the key, but for a column id that is not the key,
\* a key of 32 bits and the text "$2" in the only column.
LEMMA HftUpdateKeeps ==
  ASSUME PipelineInv, HftUpdate
  PROVE  PipelineInv'
<1> DEFINE cols == NonKey(decl.cols)
           n == Len(cols) + 1
<1>0. decl.api = "hft" /\ row # NoRow
  BY DEF HftUpdate
<1>1. table = "there"
  BY <1>0 DEF PipelineInv, RowIs
<1>2. /\ cols \in Seq(HftCols(decl.dialect)) /\ decl.dialect \in Dialects
      /\ decl.where \in {"key", "other", "none"}
  BY <1>0, HftShape
<1>3. PICK e \in Entities(cols) :
        LET params   == BindAt(BindEntity(cols, e), n, KeyValue)
            where    == At(BuildSQL(Numbered(n), params), n)
            replaced == decl.dialect = "postgres" \/ where[1].content = "key"
        IN  \E how \in Selected(replaced) :
              \/ how = "own" /\ Write("update", e, Taken(cols, n, params))
              \/ how = "refused" /\ Write("update", e, Unwritten(cols))
              \/ how \in {"missed", "other"} /\ Miss(e, how)
  BY Zenon DEF HftUpdate, KeyValue, Numbered
<1> DEFINE params   == BindAt(BindEntity(cols, e), n, KeyValue)
           where    == At(BuildSQL(Numbered(n), params), n)
           replaced == decl.dialect = "postgres" \/ where[1].content = "key"
<1>4. /\ params \in InPlace(cols, e) /\ params \in Seq(BoundValues) /\ Len(params) = n
      /\ n \in Nat /\ n >= 1 /\ params[n] = KeyValue
      /\ n = 2 /\ Len(params[1]) = 2 => e # <<>> /\ e[1] = "ref"
  BY <1>2, WithKey
<1>5. PICK how \in Selected(replaced) :
        \/ how = "own" /\ Write("update", e, Taken(cols, n, params))
        \/ how = "refused" /\ Write("update", e, Unwritten(cols))
        \/ how \in {"missed", "other"} /\ Miss(e, how)
  BY <1>3, Zenon
<1>6. Len(cols) \in Nat /\ DOMAIN cols = 1 .. Len(cols)
  BY <1>2, MembersOfAre
<1>7. /\ how = "other" => decl.where = "other" \/ ~ replaced
      /\ how = "refused" => KeyRefused
  <2>1. replaced \in BOOLEAN
    BY Zenon
  <2> HIDE DEF replaced
  <2> QED  BY <1>2, <2>1, SelectedIs
<1> HIDE DEF params
<1>8. CASE Write("update", e, Taken(cols, n, params))
  <2>1. Stored("update", e, Taken(cols, n, params))
    <3>1. Len(params) <= n /\ ~ (Len(params) # n)
      BY <1>4
    <3> HIDE DEF n
    <3> QED  BY <1>0, <1>4, <3>1, HftTaken
  <2> HIDE DEF n
  <2> QED  BY <1>1, <1>8, <2>1, WriteKeeps
<1>9. CASE how = "refused" /\ Write("update", e, Unwritten(cols))
  <2>1. Cause("update", e)
    BY <1>0, <1>9, <1>7 DEF Cause
  <2>2. Stored("update", e, Unwritten(cols))
    BY <2>1, UnwrittenStored
  <2> QED  BY <1>1, <1>9, <2>2, WriteKeeps
<1>10. CASE ~replaced /\ Miss(e, "other")
  <2>1. decl.dialect = "sybase" /\ ~ (where[1].content = "key")
    BY <1>2, <1>10 DEF Dialects
  <2>2. ~ (n >= 3 \/ Len(params[1]) < 2)
    <3> SUFFICES ASSUME n >= 3 \/ Len(params[1]) < 2
                 PROVE  where[1].content = "key"
      BY <2>1
    <3>1. Len(params) <= n /\ n \in 1 .. Len(params)
      BY <1>4
    <3> DEFINE l == n
    <3>2. l = n
      OBVIOUS
    <3> HIDE DEF n, l
    <3>3. where = Placed(KeyValue, n)
      BY <1>4, <3>1, Place
    <3>4. 1 \in 1 .. Len(KeyValue)
      BY KeyValueIs
    <3> QED  BY <1>4, <3>3, <3>4, KeyValueIs, PlacedTyped
  <2>3. params[1] \in BoundValues
    BY <1>4
  <2> DEFINE l == Len(params[1])
  <2>4. l \in Nat /\ l <= 2
    BY <2>3, BoundIs, LenProperties
  <2>5. ~ (l < 2)
    BY <2>2
  <2> HIDE DEF l
  <2>6. l = 2
    BY <2>4, <2>5
  <2>7. n = 2
    <3>1. n # 1
      <4> SUFFICES ASSUME n = 1 PROVE FALSE
        OBVIOUS
      <4>1. params[1] = KeyValue
        BY <1>4
      <4>2. l = 1
        BY <4>1, KeyValueIs DEF l
      <4> QED  BY <2>6, <4>2
    <3>2. ~ (n >= 3) /\ n >= 1 /\ n \in Nat
      BY <1>4, <2>2
    <3> HIDE DEF n
    <3> QED  BY <3>1, <3>2
  <2>8. e # <<>> /\ e[1] = "ref"
    BY <1>4, <2>6, <2>7 DEF l
  <2>9. RefIn(e)
    BY <2>1, <2>8 DEF RefIn
  <2>10. DOMAIN cols = 1 .. 1
    <3> DEFINE k == Len(cols)
    <3>1. k \in Nat /\ k + 1 = 2 /\ DOMAIN cols = 1 .. k
      BY <1>6, <2>7
    <3> HIDE DEF k
    <3>2. k = 1
      BY <3>1
    <3> QED  BY <3>1, <3>2
  <2> QED  BY <1>1, <1>10, <2>9, <2>10, MissKeeps
<1>11. CASE Miss(e, "missed") \/ (decl.where = "other" /\ Miss(e, "other"))
  BY <1>1, <1>11, MissKeeps
<1> HIDE DEF replaced
<1> QED  BY <1>5, <1>8, <1>9, <1>10, <1>11, <1>7

\* findById: what it returns is the row, but for the bools.
LEMMA FindKeeps ==
  ASSUME PipelineInv, row # NoRow, NEW f,
         found' = [i \in DOMAIN row |-> f[i]], UNCHANGED <<decl, table, row, sent, outcome, own>>,
         \A i \in DOMAIN row : Survives(i) => f[i] = row[i]
  PROVE  PipelineInv'
<1>1. /\ decl' = decl /\ table' = table /\ row' = row /\ sent' = sent /\ outcome' = outcome /\ own' = own
  OBVIOUS
<1>2. DeclIs'
  BY <1>1 DEF PipelineInv, DeclIs
<1>3. RowIs'
  BY <1>1 DEF PipelineInv, RowIs
<1>4. PipelineTypeOK'
  <2>1. PipelineTypeOK
    BY DEF PipelineInv, RoundTrip
  <2>2. (found # NoRow => DOMAIN found = DOMAIN row)'
    BY <1>1
  <2> QED  BY <1>1, <2>1, <2>2 DEF PipelineTypeOK
<1>5. RoundTrip'
  <2>1. ASSUME outcome' = "taken", NEW i \in DOMAIN row', Survives(i)'
        PROVE  row'[i] = sent'.values[i] /\ found'[i] = sent'.values[i]
    <3>1. Survives(i) /\ outcome = "taken" /\ i \in DOMAIN row
      BY <1>1, <2>1 DEF Survives, Fields, RefFirst
    <3>2. row[i] = sent.values[i]
      BY <3>1 DEF PipelineInv, RoundTrip
    <3>3. found'[i] = f[i] /\ f[i] = row[i]
      BY <3>1
    <3> QED  BY <1>1, <3>2, <3>3
  <2> QED  BY <1>4, <2>1 DEF RoundTrip
<1>6. RefusedForCause'
  BY <1>1 DEF PipelineInv, RefusedForCause, Has, Fields, RefFirst
<1>7. OwnRowOnly'
  BY <1>1 DEF PipelineInv, OwnRowOnly, Fields, RefFirst
<1> QED  BY <1>2, <1>3, <1>5, <1>6, <1>7 DEF PipelineInv

\* A row has the columns of the table without the key.
LEMMA RowDomain ==
  ASSUME PipelineInv, row # NoRow, NEW i \in DOMAIN row
  PROVE  /\ i \in DOMAIN NonKey(decl.cols) /\ Fields[i] = NonKey(decl.cols)[i].field
<1>1. DOMAIN row = DOMAIN NonKey(decl.cols)
  BY DEF PipelineInv, RoundTrip, PipelineTypeOK
<1> QED  BY <1>1 DEF Fields

LEMMA HftFindKeeps ==
  ASSUME PipelineInv, HftFind
  PROVE  PipelineInv'
<1> DEFINE f == [i \in DOMAIN row |-> IF NonKey(decl.cols)[i].field = "bool"
                                      THEN Default(NonKey(decl.cols)[i].field) ELSE row[i]]
<1>1. decl.api = "hft" /\ row # NoRow /\ UNCHANGED <<decl, table, row, sent, outcome, own>>
  BY DEF HftFind
<1>2. found' = f
  BY Zenon DEF HftFind
<1>3. f = [i \in DOMAIN row |-> f[i]]
  OBVIOUS
<1>4. ASSUME NEW i \in DOMAIN row, Survives(i)
      PROVE  f[i] = row[i]
  <2>1. i \in DOMAIN NonKey(decl.cols) /\ Fields[i] = NonKey(decl.cols)[i].field
    BY <1>1, RowDomain
  <2>2. NonKey(decl.cols) \in Seq(HftCols(decl.dialect))
    BY <1>1, HftShape
  <2>3. i \in 1 .. i
    BY <2>1, <2>2
  <2>4. \A j \in 1 .. i : Fields[j] # "bool"
    BY <1>1, <1>4, Zenon DEF Survives
  <2>5. NonKey(decl.cols)[i].field # "bool"
    BY <2>1, <2>3, <2>4
  <2> QED  BY <2>5
<1> HIDE DEF f
<1>5. found' = [i \in DOMAIN row |-> f[i]]
  BY <1>2, <1>3
<1> QED  BY <1>1, <1>4, <1>5, FindKeeps

-----------------------------------------------------------------------------
(* The steps of repository/Repository.hpp.                                 *)

LEMMA PlainFindKeeps ==
  ASSUME PipelineInv, PlainFind
  PROVE  PipelineInv'
<1> DEFINE f == [i \in DOMAIN row |-> IF NonKey(decl.cols)[i].field \in {"int32", "double", "string"}
                                      THEN row[i] ELSE Default(NonKey(decl.cols)[i].field)]
<1>1. decl.api = "plain" /\ row # NoRow /\ UNCHANGED <<decl, table, row, sent, outcome, own>>
  BY DEF PlainFind
<1>2. found' = f
  BY Zenon DEF PlainFind
<1>3. f = [i \in DOMAIN row |-> f[i]]
  OBVIOUS
<1>4. ASSUME NEW i \in DOMAIN row, Survives(i)
      PROVE  f[i] = row[i]
  <2>1. i \in DOMAIN NonKey(decl.cols) /\ Fields[i] = NonKey(decl.cols)[i].field
    BY <1>1, RowDomain
  <2>2. Fields[i] \in {"int32", "double", "string"}
    BY <1>1, <1>4 DEF Survives
  <2> QED  BY <2>1, <2>2
<1> HIDE DEF f
<1>5. found' = [i \in DOMAIN row |-> f[i]]
  BY <1>2, <1>3
<1> QED  BY <1>1, <1>4, <1>5, FindKeeps

\* What a plain entity and its columns look like.
LEMMA PlainShape ==
  ASSUME PipelineInv, decl.api = "plain"
  PROVE  /\ decl.dialect \in Dialects /\ decl.maker \in Makers
         /\ NonKey(decl.cols) \in Seq(PlainCols(decl.dialect, decl.maker))
         /\ DOMAIN NonKey(decl.cols) = 1 .. Len(NonKey(decl.cols))
         /\ \A i \in DOMAIN NonKey(decl.cols) :
              NonKey(decl.cols)[i] \in PlainCols(decl.dialect, decl.maker)
<1> DEFINE S == PlainCols(decl.dialect, decl.maker)
           cols == NonKey(decl.cols)
<1>1. /\ decl.dialect \in Dialects /\ decl.maker \in Makers
      /\ decl.cols \in Seq(S)
  BY DEF PipelineInv, DeclIs, NoDecl
<1> HIDE DEF S
<1>2. cols \in Seq(S)
  BY <1>1, NonKeyAre
<1> HIDE DEF cols
<1>3. DOMAIN cols = 1 .. Len(cols) /\ \A i \in DOMAIN cols : cols[i] \in S
  BY <1>2
<1> QED  BY <1>1, <1>2, <1>3 DEF S, cols

\* A column that holds a number, by its name, its type and its values.
LEMMA NumberColumn ==
  ASSUME NEW d \in Dialects, NEW m \in Makers, NEW c \in PlainCols(d, m),
         c.field \notin {"string", "int8"}, c.name \notin {"bigint", "interval"},
         NEW v \in Contents(c.field), c.field = "bool" => d = "sybase"
  PROVE  Refused \notin PrintTakes(d, c.sql, ValueText(c.field, v))
<1>1. /\ c.name \in TypeNames(d) /\ c.field = MapSQLTypeToCpp(c.name)
      /\ c.sql = IF m = "catalog" THEN MapTypeToSQL(c.name, d) ELSE TypeOf[c.name]
  BY PlainColIs
<1>2. /\ c.field \in {"int16", "int32", "double", "bool"}
      /\ c.name \notin {"charvary", "varchar", "timestamp", "datetime", "interval"}
  BY <1>1, CppTypes DEF PlainFields
<1>3. c.sql \notin NoNumber
  BY <1>1, <1>2, SqlTypes
<1> DEFINE t == ValueText(c.field, v)
           sql == c.sql
           field == c.field
<1> HIDE DEF sql
<1>4. CASE c.field = "bool"
  <2>1. v = "true" /\ d = "sybase"
    BY <1>4 DEF Contents
  <2>2. t = <<Lit("bool", v)>>
    BY <1>4 DEF ValueText
  <2> HIDE DEF t
  <2>3. t[1].kind = "bool" /\ t[1].content = "true"
    BY <2>1, <2>2 DEF Lit
  <2>4. PrintTakes(d, sql, t) = {"true"}
    BY <2>1, <2>3 DEF PrintTakes
  <2> QED  BY <2>4 DEF Refused, t, sql
<1>5. CASE c.field # "bool"
  <2>1. \E w \in {"n", "half", "cut"} : t = <<Lit("number", w)>>
    <3>1. field = "double" => v \in {"half", "fine"}
      BY DEF Contents
    <3>2. field # "double" => v = "n"
      BY <1>2, <1>5 DEF Contents
    <3>3. t = <<Lit("number", IF field = "double" /\ v = "fine" THEN "cut" ELSE v)>>
      BY <1>2, <1>5 DEF ValueText
    <3> HIDE DEF t, field
    <3> QED  BY <3>1, <3>2, <3>3
  <2>2. PICK w \in {"n", "half", "cut"} : t = <<Lit("number", w)>>
    BY <2>1
  <2> HIDE DEF t
  <2>3. t[1].kind = "number" /\ t[1].content = w
    BY <2>2 DEF Lit
  <2>4. PrintTakes(d, sql, t) = {w}
    BY <1>3, <2>3 DEF PrintTakes, NoNumber, sql
  <2> QED  BY <2>4 DEF Refused, t, sql
<1> QED  BY <1>4, <1>5

\* What the plain generators read back comes from a column it was written to unchanged, or not at all.
LEMMA ReadColumn ==
  ASSUME NEW d, NEW sql, NEW field \in {"int32", "double", "string"}, NEW v, v # "fine"
  PROVE  PrintTakes(d, sql, ValueText(field, v)) \subseteq {v, Refused}
<1> DEFINE t == ValueText(field, v)
<1>1. t = <<Lit(IF field = "string" THEN "bare" ELSE "number", v)>>
  BY DEF ValueText
<1> HIDE DEF t
<1>2. t[1].content = v /\ t[1].kind = IF field = "string" THEN "bare" ELSE "number"
  BY <1>1 DEF Lit
<1>3. CASE field = "string"
  <2>1. t[1].kind = "bare"
    BY <1>2, <1>3
  <2>2. PrintTakes(d, sql, t) = {v} \/ PrintTakes(d, sql, t) = {Refused}
    BY <1>2, <2>1 DEF PrintTakes
  <2> QED  BY <2>2 DEF t
<1>4. CASE field # "string"
  <2>1. t[1].kind = "number"
    BY <1>2, <1>4
  <2>2. PrintTakes(d, sql, t) = {v} \/ PrintTakes(d, sql, t) = {Refused}
    BY <1>2, <2>1 DEF PrintTakes
  <2> QED  BY <2>2 DEF t
<1> QED  BY <1>3, <1>4

\* A value printed into a statement is stored as it is, or the statement is
\* refused for a cause.
LEMMA TextsStored ==
  ASSUME PipelineInv, decl.api = "plain", NEW via, NEW e \in Entities(NonKey(decl.cols))
  PROVE  Stored(via, e, ValueTexts(NonKey(decl.cols), e))
<1> DEFINE d == decl.dialect
           m == decl.maker
           cols == NonKey(decl.cols)
           fs == FieldsOf(cols)
           take(i) == PrintTakes(d, cols[i].sql, ValueText(cols[i].field, e[i]))
           takes == [i \in DOMAIN cols |-> take(i)]
<1>1. /\ d \in Dialects /\ m \in Makers
      /\ \A i \in DOMAIN cols : cols[i] \in PlainCols(d, m)
  BY PlainShape
<1>2. DOMAIN takes = DOMAIN NonKey(decl.cols) /\ \A i \in DOMAIN takes : takes[i] = take(i)
  OBVIOUS
<1>3. ValueTexts(cols, e) = Written(takes)
  BY Zenon DEF ValueTexts
<1>4. DOMAIN fs = DOMAIN cols /\ \A i \in DOMAIN cols : fs[i] = cols[i].field
  BY DEF FieldsOf
<1>5. \A i \in DOMAIN cols : e[i] \in Contents(cols[i].field)
  BY DEF Entities
<1> HIDE DEF fs, takes
<1>6. \A i \in DOMAIN takes : Refused \in takes[i] => Cause(via, e)
  <2> SUFFICES ASSUME NEW i \in DOMAIN cols, ~ Cause(via, e)
               PROVE  Refused \notin take(i)
    BY <1>2
  <2>1. /\ "string" \notin Range(fs) /\ "int8" \notin Range(fs)
        /\ ~ ("bool" \in Range(fs) /\ d = "postgres")
        /\ ~ (\E j \in DOMAIN fs : cols[j].name \in {"bigint", "interval"})
    BY Zenon DEF Cause, fs
  <2>2. fs[i] \in Range(fs)
    BY <1>4 DEF Range
  <2>3. cols[i].field \notin {"string", "int8"} /\ (cols[i].field = "bool" => d # "postgres")
    BY <1>4, <2>1, <2>2
  <2>4. cols[i].name \notin {"bigint", "interval"}
    BY <1>4, <2>1
  <2>5. cols[i].field = "bool" => d = "sybase"
    BY <1>1, <2>3 DEF Dialects
  <2> DEFINE c == cols[i]
             v == e[i]
  <2>6. /\ c \in PlainCols(d, m) /\ v \in Contents(c.field) /\ c.field \notin {"string", "int8"}
        /\ c.name \notin {"bigint", "interval"} /\ (c.field = "bool" => d = "sybase")
    BY <1>1, <1>5, <2>3, <2>4, <2>5
  <2> HIDE DEF c, v, d, m
  <2>7. Refused \notin PrintTakes(d, c.sql, ValueText(c.field, v))
    BY <1>1, <2>6, NumberColumn
  <2> QED  BY <2>7 DEF c, v
<1>7. \A i \in DOMAIN takes : SurvivesIn(via, e, i) => takes[i] \subseteq {e[i], Refused}
  <2> SUFFICES ASSUME NEW i \in DOMAIN cols, SurvivesIn(via, e, i)
               PROVE  take(i) \subseteq {e[i], Refused}
    BY <1>2
  <2>1. e[i] # "fine" /\ fs[i] \in {"int32", "double", "string"}
    BY Zenon DEF SurvivesIn, fs
  <2>2. cols[i].field \in {"int32", "double", "string"}
    BY <1>4, <2>1
  <2> QED  BY <2>1, <2>2, ReadColumn
<1>8. Stored(via, e, Written(takes))
  BY <1>2, <1>6, <1>7, WrittenStored
<1> QED  BY <1>3, <1>8

\* An insert that gives no key is refused, for that cause.
LEMMA EmptyRefused ==
  ASSUME NEW via, NEW e, NoKeyGiven(NonKey(decl.cols)), via # "update"
  PROVE  Stored(via, e, {<<Refused>>})
<1> DEFINE cols == NonKey(decl.cols)
<1>1. 1 \in DOMAIN <<Refused>> /\ <<Refused>>[1] = Refused
  OBVIOUS
<1>2. cols = <<>> => FieldsOf(cols) = <<>>
  BY DEF FieldsOf
<1>3. Cause(via, e)
  BY <1>2 DEF NoKeyGiven, Cause
<1> QED  BY <1>1, <1>3, RefusedStored

LEMMA PlainInsertKeeps ==
  ASSUME PipelineInv, PlainInsert
  PROVE  PipelineInv'
<1> DEFINE cols == NonKey(decl.cols)
<1>1. PICK e \in Entities(cols) :
        Write("insert", e, IF NoKeyGiven(cols) THEN {<<Refused>>} ELSE ValueTexts(cols, e))
  BY Zenon DEF PlainInsert
<1>2. decl.api = "plain" /\ table = "there"
  BY DEF PlainInsert
<1> DEFINE rows == IF NoKeyGiven(cols) THEN {<<Refused>>} ELSE ValueTexts(cols, e)
<1>3. Stored("insert", e, rows)
  <2>1. CASE NoKeyGiven(cols)
    <3>1. Stored("insert", e, {<<Refused>>})
      BY <2>1, EmptyRefused
    <3> QED  BY <2>1, <3>1, Zenon
  <2>2. CASE ~ NoKeyGiven(cols)
    <3>1. Stored("insert", e, ValueTexts(cols, e))
      BY <1>2, TextsStored
    <3> QED  BY <2>2, <3>1, Zenon
  <2> QED  BY <2>1, <2>2
<1> HIDE DEF rows
<1>4. Write("insert", e, rows)
  BY <1>1, Zenon DEF rows
<1> QED  BY <1>2, <1>3, <1>4, WriteKeeps

LEMMA PlainUpdateKeeps ==
  ASSUME PipelineInv, PlainUpdate
  PROVE  PipelineInv'
<1>1. PICK e \in Entities(NonKey(decl.cols)) : Write("update", e, ValueTexts(NonKey(decl.cols), e))
  BY Zenon DEF PlainUpdate
<1>2. decl.api = "plain" /\ row # NoRow
  BY DEF PlainUpdate
<1>3. table = "there"
  BY <1>2 DEF PipelineInv, RowIs
<1>4. Stored("update", e, ValueTexts(NonKey(decl.cols), e))
  BY <1>2, TextsStored
<1> QED  BY <1>1, <1>3, <1>4, WriteKeeps

LEMMA PlainInsertPSKeeps ==
  ASSUME PipelineInv, PlainInsertPS
  PROVE  PipelineInv'
<1> DEFINE cols == NonKey(decl.cols)
           text(e) == BuildFinalSQL(Placeholders([i \in DOMAIN cols |-> i]), BindParameters(cols, e))
           takes(e) == [i \in DOMAIN cols |-> SybTakes(cols[i].sql, At(text(e), i))]
           short(e) == decl.dialect = "postgres" /\ Len(BindParameters(cols, e)) # Len(cols)
           rows(e) == IF short(e) \/ NoKeyGiven(cols) THEN {<<Refused>>} ELSE Written(takes(e))
<1>1. PICK e \in Entities(cols) : Write("insertPS", e, rows(e))
  BY Zenon DEF PlainInsertPS
<1>2. decl.api = "plain" /\ table = "there"
  BY DEF PlainInsertPS
<1>3. Cause("insertPS", e) /\ \A i : ~ SurvivesIn("insertPS", e, i)
  BY <1>2 DEF Cause, SurvivesIn
<1>4. Stored("insertPS", e, {<<Refused>>})
  <2>1. 1 \in DOMAIN <<Refused>> /\ <<Refused>>[1] = Refused
    OBVIOUS
  <2> QED  BY <1>3, <2>1, RefusedStored
<1>5. Stored("insertPS", e, Written(takes(e)))
  <2>1. DOMAIN takes(e) = DOMAIN NonKey(decl.cols)
    OBVIOUS
  <2> HIDE DEF takes
  <2> QED  BY <1>3, <2>1, WrittenStored
<1>6. Stored("insertPS", e, rows(e))
  BY <1>4, <1>5, Zenon
<1> HIDE DEF rows
<1> QED  BY <1>1, <1>2, <1>6, WriteKeeps

-----------------------------------------------------------------------------
(* The declarations.                                                       *)

\* A declaration finds the other variables as they began.
LEMMA StartIs ==
  ASSUME PipelineInv, Start
  PROVE  /\ table = "none" /\ row = NoRow /\ sent = NoSent /\ outcome = "none" /\ found = NoRow
         /\ own = NoOwn
<1>1. decl.api = "none" /\ own = NoOwn
  BY DEF Start, NoDecl
<1>2. table = "none"
  BY <1>1 DEF PipelineInv, DeclIs
<1> QED  BY <1>1, <1>2 DEF PipelineInv, RowIs

\* A declaration starts from nothing and leaves no row.
LEMMA DeclareKeeps ==
  ASSUME PipelineInv, Start, UNCHANGED <<row, sent, outcome, found, own>>,
         decl'.api \in {"hft", "plain", "load"}, Len(decl'.cols) <= MaxCols, DeclIs'
  PROVE  PipelineInv'
<1>1. /\ row' = NoRow /\ sent' = NoSent /\ outcome' = "none" /\ found' = NoRow /\ own' = NoOwn
  BY StartIs
<1>2. table' \in {"none", "there", "refused"}
  BY DEF DeclIs
<1>3. Refused \notin Range(row')
  BY <1>1 DEF Range, NoRow
<1>4. PipelineTypeOK'
  BY <1>1, <1>2, <1>3 DEF PipelineTypeOK
<1>5. RowIs'
  BY <1>1 DEF RowIs
<1>6. RoundTrip'
  BY <1>1, <1>4 DEF RoundTrip
<1>7. RefusedForCause'
  BY <1>1 DEF RefusedForCause
<1>8. OwnRowOnly'
  BY <1>1 DEF OwnRowOnly
<1> QED  BY <1>5, <1>6, <1>7, <1>8 DEF PipelineInv

LEMMA HftColumnIn ==
  ASSUME NEW f \in HftFields, NEW k \in BOOLEAN, NEW d
  PROVE  HftColumn(f, k, d) \in HftCols(d)
BY SMT DEF HftCols

LEMMA PlainColumnIn ==
  ASSUME NEW d, NEW m, NEW n \in TypeNames(d), NEW k \in BOOLEAN
  PROVE  PlainColumn(n, k, d, m) \in PlainCols(d, m)
BY SMT DEF PlainCols

\* The hft catalog.
LEMMA HftDeclareKeeps ==
  ASSUME PipelineInv, HftDeclare
  PROVE  PipelineInv'
<1>1. Start /\ UNCHANGED <<row, sent, outcome, found, own>>
  BY DEF HftDeclare
<1>2. PICK dialect \in {"postgres", "sybase"}, maker \in {"catalog", "script"}, n \in 1 .. MaxCols :
        \E fields \in [1 .. n -> {"int32", "int64", "double", "string", "bool"}],
          keys \in SUBSET (1 .. n), where \in {"key", "other", "none"} :
         /\ where = "other" => keys # 1 .. n
         /\ keys # {} /\ (maker = "script" => Cardinality(keys) = 1)
         /\ \A i \in keys : fields[i] \in {"int32", "int64"}
         /\ decl' = [api |-> "hft", dialect |-> dialect, maker |-> maker, where |-> where,
                     cols |-> [i \in 1 .. n |-> HftColumn(fields[i], i \in keys, dialect)]]
         /\ table' = IF Cardinality(keys) = 1 THEN "there" ELSE "refused"
  BY Zenon DEF HftDeclare
<1>3. PICK fields \in [1 .. n -> {"int32", "int64", "double", "string", "bool"}],
           keys \in SUBSET (1 .. n), where \in {"key", "other", "none"} :
         /\ decl' = [api |-> "hft", dialect |-> dialect, maker |-> maker, where |-> where,
                     cols |-> [i \in 1 .. n |-> HftColumn(fields[i], i \in keys, dialect)]]
         /\ table' = IF Cardinality(keys) = 1 THEN "there" ELSE "refused"
  BY <1>2, Zenon
<1> DEFINE val(i) == HftColumn(fields[i], i \in keys, dialect)
           cols == [i \in 1 .. n |-> val(i)]
           S == HftCols(dialect)
<1>4. n \in Nat /\ n <= MaxCols
  BY PipelineAssumption
<1>5. \A i \in 1 .. n : val(i) \in S
  <2> TAKE i \in 1 .. n
  <2>1. fields[i] \in HftFields
    BY DEF HftFields
  <2>2. (i \in keys) \in BOOLEAN
    BY SMT
  <2> QED  BY <2>1, <2>2, HftColumnIn, Zenon
<1>6. decl' = [api |-> "hft", dialect |-> dialect, maker |-> maker, where |-> where, cols |-> cols]
  BY <1>3, Zenon
<1>7. cols = [i \in 1 .. n |-> val(i)]
  OBVIOUS
<1> HIDE DEF val, cols, S
<1>8. cols \in [1 .. n -> S]
  BY <1>5, <1>7
<1>9. cols \in Seq(S) /\ Len(cols) = n
  BY <1>4, <1>8
<1>10. /\ decl'.api = "hft" /\ decl'.dialect = dialect /\ decl'.maker = maker /\ decl'.cols = cols
       /\ decl'.where \in {"key", "other", "none"}
  BY <1>6
<1>11. DeclIs'
  <2>1. decl'.dialect \in Dialects /\ decl'.maker \in Makers /\ table' \in {"there", "refused"}
    BY <1>3, <1>10 DEF Dialects, Makers
  <2>2. decl'.cols \in Seq(HftCols(decl'.dialect))
    BY <1>9, <1>10 DEF S
  <2> QED  BY <1>10, <2>1, <2>2 DEF DeclIs
<1> QED  BY <1>1, <1>4, <1>9, <1>10, <1>11, DeclareKeeps

LEMMA PlainDeclareKeeps ==
  ASSUME PipelineInv, PlainDeclare
  PROVE  PipelineInv'
<1>1. Start /\ UNCHANGED <<row, sent, outcome, found, own>> /\ table' = "there"
  BY DEF PlainDeclare
<1>2. PICK dialect \in {"postgres", "sybase"}, maker \in {"catalog", "script"}, n \in 1 .. MaxCols :
        \E names \in [1 .. n -> TypeNames(dialect)] :
         decl' = [api |-> "plain", dialect |-> dialect, maker |-> maker, where |-> "key",
                  cols |-> [i \in 1 .. n |-> PlainColumn(names[i], i = 1, dialect, maker)]]
  BY ZenonT(40) DEF PlainDeclare
<1>3. PICK names \in [1 .. n -> TypeNames(dialect)] :
         decl' = [api |-> "plain", dialect |-> dialect, maker |-> maker, where |-> "key",
                  cols |-> [i \in 1 .. n |-> PlainColumn(names[i], i = 1, dialect, maker)]]
  BY <1>2, Zenon
<1> DEFINE val(i) == PlainColumn(names[i], i = 1, dialect, maker)
           cols == [i \in 1 .. n |-> val(i)]
           S == PlainCols(dialect, maker)
<1>4. n \in Nat /\ n <= MaxCols
  BY PipelineAssumption
<1>5. \A i \in 1 .. n : val(i) \in S
  <2> TAKE i \in 1 .. n
  <2>1. names[i] \in TypeNames(dialect)
    OBVIOUS
  <2>2. (i = 1) \in BOOLEAN
    BY Zenon
  <2> QED  BY <2>1, <2>2, PlainColumnIn, Zenon
<1>6. decl' = [api |-> "plain", dialect |-> dialect, maker |-> maker, where |-> "key", cols |-> cols]
  BY <1>3, Zenon
<1>7. cols = [i \in 1 .. n |-> val(i)]
  OBVIOUS
<1> HIDE DEF val, cols, S
<1>8. cols \in [1 .. n -> S]
  BY <1>5, <1>7
<1>9. cols \in Seq(S) /\ Len(cols) = n
  BY <1>4, <1>8
<1>10. /\ decl'.api = "plain" /\ decl'.dialect = dialect /\ decl'.maker = maker /\ decl'.cols = cols
  BY <1>6
<1>11. DeclIs'
  <2>1. decl'.dialect \in Dialects /\ decl'.maker \in Makers
    BY <1>10 DEF Dialects, Makers
  <2>2. decl'.cols \in Seq(PlainCols(decl'.dialect, decl'.maker))
    BY <1>9, <1>10 DEF S
  <2> QED  BY <1>1, <1>10, <2>1, <2>2 DEF DeclIs
<1> QED  BY <1>1, <1>4, <1>9, <1>10, <1>11, DeclareKeeps

LEMMA PlainLoadKeeps ==
  ASSUME PipelineInv, PlainLoad
  PROVE  PipelineInv'
<1>1. Start /\ UNCHANGED <<row, sent, outcome, found, own>> /\ table' = "refused"
  BY DEF PlainLoad
<1>2. decl'.api = "load" /\ decl'.cols = <<>>
  BY DEF PlainLoad, NoDecl
<1>3. DeclIs'
  BY <1>1, <1>2 DEF DeclIs
<1>4. Len(decl'.cols) <= MaxCols
  BY <1>2, PipelineAssumption
<1> QED  BY <1>1, <1>2, <1>3, <1>4, DeclareKeeps

LEMMA ScriptRowKeeps ==
  ASSUME PipelineInv, ScriptRow
  PROVE  PipelineInv'
<1>1. /\ table = "there" /\ row = NoRow /\ sent = NoSent
      /\ decl' = decl /\ table' = table /\ sent' = sent /\ outcome' = outcome /\ found' = found /\ own' = own
  BY DEF ScriptRow
<1>2. outcome' = "none" /\ found' = NoRow
  BY <1>1 DEF PipelineInv, RowIs
<1>3. row' = [i \in DOMAIN NonKey(decl.cols) |-> Default(NonKey(decl.cols)[i].field)]
  BY Zenon DEF ScriptRow
<1>4. Refused \notin Range(row')
  BY <1>3 DEF Range, Default, Refused
<1>5. DeclIs'
  BY <1>1 DEF PipelineInv, DeclIs
<1>6. PipelineTypeOK'
  <2>1. PipelineTypeOK
    BY DEF PipelineInv, RoundTrip
  <2> QED  BY <1>1, <1>2, <1>3, <1>4, <2>1 DEF PipelineTypeOK
<1>7. RowIs'
  BY <1>1, <1>2 DEF RowIs
<1>8. RoundTrip'
  BY <1>2, <1>6 DEF RoundTrip
<1>9. RefusedForCause'
  BY <1>1, <1>2 DEF RefusedForCause, PipelineInv
<1>10. OwnRowOnly'
  BY <1>2 DEF OwnRowOnly
<1> QED  BY <1>5, <1>7, <1>8, <1>9, <1>10 DEF PipelineInv

\* A program that sends statements of its own has declared no entity.
LEMMA OwnStatementKeeps ==
  ASSUME PipelineInv, OwnStatement
  PROVE  PipelineInv'
<1>1. /\ Start
      /\ decl' = decl /\ table' = table /\ row' = row /\ sent' = sent /\ outcome' = outcome /\ found' = found
  BY DEF OwnStatement
<1>2. /\ table = "none" /\ row = NoRow /\ sent = NoSent /\ outcome = "none" /\ found = NoRow
      /\ decl = NoDecl
  BY <1>1, StartIs DEF Start
<1>3. PipelineTypeOK'
  <2>1. PipelineTypeOK
    BY DEF PipelineInv, RoundTrip
  <2> QED  BY <1>1, <1>2, <2>1 DEF PipelineTypeOK
<1> QED
  BY <1>1, <1>2, <1>3 DEF PipelineInv, DeclIs, RowIs, RoundTrip, RefusedForCause, OwnRowOnly

\* The inductive invariant, at the start and over a step.
LEMMA PipelineInvInit == PipelineInit => PipelineInv
<1> SUFFICES ASSUME PipelineInit PROVE PipelineInv
  OBVIOUS
<1>1. /\ decl = NoDecl /\ table = "none" /\ row = NoRow /\ sent = NoSent
      /\ outcome = "none" /\ found = NoRow /\ own = NoOwn
  BY DEF PipelineInit
<1>2. PipelineTypeOK
  BY <1>1, PipelineAssumption DEF PipelineTypeOK, NoDecl, NoRow, Range
<1> QED
  BY <1>1, <1>2 DEF PipelineInv, DeclIs, RowIs, RoundTrip, RefusedForCause, OwnRowOnly

LEMMA PipelineInvNext == PipelineInv /\ [PipelineNext]_pipelineVars => PipelineInv'
<1> SUFFICES ASSUME PipelineInv, [PipelineNext]_pipelineVars PROVE PipelineInv'
  OBVIOUS
<1>1. CASE UNCHANGED pipelineVars
  <2>1. /\ decl' = decl /\ table' = table /\ row' = row /\ sent' = sent /\ outcome' = outcome
        /\ found' = found /\ own' = own
    BY <1>1 DEF pipelineVars
  <2>2. DeclIs' /\ RowIs'
    BY <2>1 DEF PipelineInv, DeclIs, RowIs
  <2>3. RoundTrip'
    BY <2>1 DEF PipelineInv, RoundTrip, PipelineTypeOK, Survives, Fields, RefFirst
  <2>4. RefusedForCause' /\ OwnRowOnly'
    BY <2>1 DEF PipelineInv, RefusedForCause, OwnRowOnly, Has, Fields, RefFirst
  <2> QED  BY <2>2, <2>3, <2>4 DEF PipelineInv
<1> QED
  BY <1>1, HftDeclareKeeps, PlainDeclareKeeps, PlainLoadKeeps, ScriptRowKeeps, HftInsertKeeps,
     HftUpdateKeeps, HftFindKeeps, PlainInsertKeeps, PlainUpdateKeeps, PlainInsertPSKeeps,
     PlainFindKeeps, OwnStatementKeeps DEF PipelineNext

\* Whatever the declared entity and the statements on it, the declaration, the
\* row and the answers of the repositories stay as PipelineInv says.
THEOREM PipelineSafe == PipelineSpec => []PipelineInv
BY PipelineInvInit, PipelineInvNext, PTL DEF PipelineSpec

\* insert, update, insertPS and findById: an entity of any number of columns
\* whose write the server took is stored and found with the values it had, but
\* for the members Survives leaves out.
THEOREM EntitiesRoundTrip == PipelineSpec => []RoundTrip
<1>1. PipelineInv => RoundTrip
  BY DEF PipelineInv
<1> QED  BY <1>1, PipelineSafe, PTL

\* The servers refuse a statement of the repositories for no other reason than
\* those RefusedForCause lists.
THEOREM RefusalsHaveACause == PipelineSpec => []RefusedForCause
<1>1. PipelineInv => RefusedForCause
  BY DEF PipelineInv
<1> QED  BY <1>1, PipelineSafe, PTL

\* update writes to another row than its entity's only when the column id is not
\* the key, or on Sybase by the text "$2" in the one column it sets.
THEOREM UpdatesOwnRow == PipelineSpec => []OwnRowOnly
<1>1. PipelineInv => OwnRowOnly
  BY DEF PipelineInv
<1> QED  BY <1>1, PipelineSafe, PTL
=============================================================================
