-------------------------- MODULE QueryCacheProofs --------------------------
(***************************************************************************)
(* Theorems about QueryCache: its types, the two properties of what it     *)
(* serves, and that it implements TtlMap.                                  *)
(***************************************************************************)
EXTENDS QueryCache, TLAPS

-----------------------------------------------------------------------------
(* Types.                                                                  *)

\* A client about to store a result has one.
Filled == \A c \in Clients : pc[c] = "fill" => result[c] \in Versions
Typed == TypeOK /\ Filled

LEMMA EntriesArePresent == Absent \notin Entry /\ Absent \notin Versions
<1>1. Versions \subseteq Nat /\ Ttls \subseteq Nat
    BY QueryCacheAssumption DEF Versions
<1>2. Entry \subseteq [value : Nat, expiresAt : Nat, storedAt : Nat, ttl : Nat]
    BY <1>1 DEF Entry
<1> QED BY <1>1, <1>2, QueryCacheAssumption

LEMMA InitTyped == Init => Typed
BY QueryCacheAssumption DEF Init, Typed, Filled, TypeOK, Versions

\* What a step may do to the cache besides storing and clearing: remove
\* expired entries.
Forgets ==
    /\ cache' \in [Keys -> Entry \cup {Absent}]
    /\ \A k \in Keys : cache'[k] = cache[k] \/ (Expired(k) /\ cache'[k] = Absent)

LEMMA LookForgets == ASSUME TypeOK, NEW k, Look(k) PROVE Forgets
BY DEF Look, TypeOK, Forgets

LEMMA CleanupForgets == ASSUME TypeOK, Cleanup PROVE Forgets
BY DEF Cleanup, TypeOK, Forgets

\* The entry put() makes.
LEMMA PutEntry ==
    ASSUME Typed, NEW c \in Clients, NEW ttl \in Ttls, Put(c, ttl)
    PROVE  [value |-> result[c], expiresAt |-> now + ttl, storedAt |-> now, ttl |-> ttl] \in Entry
BY QueryCacheAssumption DEF Put, Entry, Typed, Filled, TypeOK

LEMMA NextTyped == Typed /\ [Next]_vars => Typed'
<1> SUFFICES ASSUME Typed, [Next]_vars PROVE Typed'
    OBVIOUS
<1> USE QueryCacheAssumption DEF Typed, Filled
<1>1. ASSUME NEW c \in Clients, NEW k \in Keys, Contains(c, k) PROVE Typed'
  <2>1. cache' \in [Keys -> Entry \cup {Absent}]
      BY <1>1, LookForgets DEF Contains, Forgets
  <2> QED BY <1>1, <2>1 DEF Contains, Goto, TypeOK
<1>2. ASSUME NEW c \in Clients, Get(c) PROVE Typed'
  <2>1. cache' \in [Keys -> Entry \cup {Absent}]
      BY <1>2, LookForgets DEF Get, Forgets
  <2>2. Present(key[c]) => cache[key[c]].value \in Versions
      BY DEF Present, TypeOK, Entry
  <2> QED BY <1>2, <2>1, <2>2 DEF Get, Goto, TypeOK
<1>3. ASSUME NEW c \in Clients, Query(c) PROVE Typed'
    BY <1>3 DEF Query, Goto, TypeOK
<1>4. ASSUME NEW c \in Clients, NEW ttl \in Ttls, Put(c, ttl) PROVE Typed'
  <2> DEFINE e == [value |-> result[c], expiresAt |-> now + ttl, storedAt |-> now, ttl |-> ttl]
  <2>1. e \in Entry
      BY <1>4, PutEntry
  <2>2. cache' = [cache EXCEPT ![key[c]] = e]
      BY <1>4 DEF Put
  <2> HIDE DEF e
  <2> QED BY <1>4, <2>1, <2>2 DEF Put, Goto, TypeOK
<1>5. ASSUME NEW c \in Clients, Finish(c) PROVE Typed'
    BY <1>5 DEF Finish, Goto, TypeOK
<1>6. CASE Clear
    BY <1>6 DEF Clear, Empty, TypeOK
<1>7. CASE Cleanup
    BY <1>7 DEF Cleanup, TypeOK
<1>8. CASE Change
    BY <1>8 DEF Change, TypeOK, Versions
<1>9. CASE Tick
    BY <1>9 DEF Tick, TypeOK
<1>10. ASSUME NEW e \in BOOLEAN, SetEnabled(e) PROVE Typed'
    BY <1>10 DEF SetEnabled, Empty, TypeOK
<1>11. CASE UNCHANGED vars
    BY <1>11 DEF vars, TypeOK
<1> QED BY <1>1, <1>2, <1>3, <1>4, <1>5, <1>6, <1>7, <1>8, <1>9, <1>10, <1>11 DEF Next

\* The types are invariant for every set of clients, keys and times to live.
THEOREM TypeCorrect == Spec => []TypeOK
<1>1. Typed => TypeOK
    BY DEF Typed
<1> QED BY <1>1, InitTyped, NextTyped, PTL DEF Spec

LEMMA SpecTyped == Spec => []Typed
BY InitTyped, NextTyped, PTL DEF Spec

-----------------------------------------------------------------------------
(* A quiet clear() is final.                                               *)

\* The data never gets older than what a clear() has made the oldest.
Floored == floor <= version /\ QuietClearIsFinal

LEMMA NextFloored == Typed /\ Floored /\ [Next]_vars => Floored'
<1> SUFFICES ASSUME Typed, Floored, [Next]_vars PROVE Floored'
    OBVIOUS
<1> USE QueryCacheAssumption, EntriesArePresent DEF Typed, Filled, Floored, QuietClearIsFinal
\* Steps that store nothing.
<1>1. ASSUME Forgets, UNCHANGED <<version, floor>>,
             \A c \in Clients : pc'[c] = "fill" => pc[c] = "fill" /\ result'[c] = result[c]
      PROVE  Floored'
    BY <1>1 DEF Forgets, TypeOK
<1>2. ASSUME NEW c \in Clients, NEW k \in Keys, Contains(c, k) PROVE Floored'
    BY <1>1, <1>2, LookForgets DEF Contains, Goto, TypeOK
<1>3. ASSUME NEW c \in Clients, Get(c) PROVE Floored'
    BY <1>1, <1>3, LookForgets DEF Get, Goto, TypeOK
<1>4. ASSUME NEW c \in Clients, Query(c) PROVE Floored'
    BY <1>4 DEF Query, Goto, TypeOK, Versions
<1>5. ASSUME NEW c \in Clients, NEW ttl \in Ttls, Put(c, ttl) PROVE Floored'
  <2> DEFINE e == [value |-> result[c], expiresAt |-> now + ttl, storedAt |-> now, ttl |-> ttl]
  <2>1. e.value >= floor
      BY <1>5 DEF Put
  <2>2. cache' = [cache EXCEPT ![key[c]] = e]
      BY <1>5 DEF Put
  <2> HIDE DEF e
  <2> QED BY <1>5, <2>1, <2>2 DEF Put, Goto, TypeOK
<1>6. ASSUME NEW c \in Clients, Finish(c) PROVE Floored'
    BY <1>6 DEF Finish, Goto, TypeOK
<1>7. ASSUME Empty, UNCHANGED <<version, pc, result>> PROVE Floored'
    BY <1>7 DEF Empty, TypeOK, Versions
<1>8. CASE Clear
    BY <1>7, <1>8 DEF Clear
<1>9. ASSUME NEW e \in BOOLEAN, SetEnabled(e) PROVE Floored'
    BY <1>7, <1>9 DEF SetEnabled
<1>10. CASE Cleanup
    BY <1>1, <1>10, CleanupForgets DEF Cleanup
<1>11. CASE Change
    BY <1>11 DEF Change, TypeOK, Versions
<1>12. CASE Tick
    BY <1>12 DEF Tick
<1>13. CASE UNCHANGED vars
    BY <1>13 DEF vars
<1> QED BY <1>2, <1>3, <1>4, <1>5, <1>6, <1>8, <1>9, <1>10, <1>11, <1>12, <1>13 DEF Next

\* After a clear() or setEnabled(false) that finds no client between its query
\* and its put(), no older result is ever cached again.
THEOREM ClearIsFinal == Spec => []QuietClearIsFinal
<1>1. Init => Floored
    BY DEF Init, Floored, QuietClearIsFinal
<1>2. Floored => QuietClearIsFinal
    BY DEF Floored
<1> QED BY <1>1, <1>2, NextFloored, SpecTyped, PTL DEF Spec

-----------------------------------------------------------------------------
(* Nothing is served late.                                                 *)

\* An entry expires its time to live after it was stored.
Timed ==
    \A k \in Keys : cache[k] # Absent => cache[k].expiresAt = cache[k].storedAt + cache[k].ttl

LEMMA NextTimed == Typed /\ Timed /\ [Next]_vars => Timed'
<1> SUFFICES ASSUME Typed, Timed, [Next]_vars PROVE Timed'
    OBVIOUS
<1>1. ASSUME Forgets PROVE Timed'
    BY <1>1 DEF Forgets, Timed, Typed, TypeOK
<1>2. ASSUME NEW c \in Clients, NEW k \in Keys, Contains(c, k) PROVE Timed'
    BY <1>1, <1>2, LookForgets DEF Contains, Typed
<1>3. ASSUME NEW c \in Clients, Get(c) PROVE Timed'
    BY <1>1, <1>3, LookForgets DEF Get, Typed
<1>4. ASSUME NEW c \in Clients, NEW ttl \in Ttls, Put(c, ttl) PROVE Timed'
  <2> DEFINE e == [value |-> result[c], expiresAt |-> now + ttl, storedAt |-> now, ttl |-> ttl]
  <2>1. e.expiresAt = e.storedAt + e.ttl
      OBVIOUS
  <2>2. cache' = [cache EXCEPT ![key[c]] = e]
      BY <1>4 DEF Put
  <2> HIDE DEF e
  <2> QED BY <2>1, <2>2 DEF Timed, Typed, TypeOK
<1>5. ASSUME Empty PROVE Timed'
    BY <1>5 DEF Empty, Timed
<1>6. ASSUME UNCHANGED cache PROVE Timed'
    BY <1>6 DEF Timed
<1> QED BY <1>1, <1>2, <1>3, <1>4, <1>5, <1>6, CleanupForgets
     DEF Next, Query, Finish, Clear, Cleanup, Change, Tick, SetEnabled, vars, Typed

\* get() never serves a result at or after the end of its time to live.
THEOREM NothingServedLate == Spec => ServedInTime
<1> DEFINE InTime ==
      \A c \in Clients :
         pc[c] = "hit" /\ pc'[c] = "served" /\ result'[c] # Absent
           => now - cache[key[c]].storedAt < cache[key[c]].ttl
<1>1. Init => Timed
    BY DEF Init, Timed
<1>2. ASSUME Typed, Timed, [Next]_vars PROVE [InTime]_vars
  <2> SUFFICES ASSUME Next, NEW c \in Clients, pc[c] = "hit", pc'[c] = "served", result'[c] # Absent
               PROVE  now - cache[key[c]].storedAt < cache[key[c]].ttl
      BY <1>2
  <2>1. Typed /\ Timed
      BY <1>2
  <2>2. Get(c)
    <3>1. ASSUME NEW d \in Clients, Get(d) PROVE d = c
        BY <2>1, <3>1 DEF Get, Goto, Typed, TypeOK
    <3>2. ASSUME NEW d \in Clients, NEW l \in {"idle", "miss", "fill", "served"},
                 pc[d] = l, NEW m, Goto(d, m)
          PROVE  FALSE
        BY <2>1, <3>2 DEF Goto, Typed, TypeOK
    <3>3. pc' # pc
        OBVIOUS
    <3> QED BY <3>1, <3>2, <3>3
         DEF Next, Contains, Query, Put, Finish, Clear, Cleanup, Change, Tick, SetEnabled
  <2>3. Present(key[c]) /\ key[c] \in Keys
      BY <2>1, <2>2 DEF Get, Typed, TypeOK
  <2>4. cache[key[c]] \in Entry
      BY <2>1, <2>3 DEF Present, Typed, TypeOK
  <2>5. now < cache[key[c]].storedAt + cache[key[c]].ttl
      BY <2>1, <2>3, <2>4 DEF Present, Expired, Timed, Entry, Typed, TypeOK
  <2>6. now \in Nat
      BY <2>1, QueryCacheAssumption DEF Typed, TypeOK
  <2>7. Ttls \subseteq Nat
      BY QueryCacheAssumption
  <2>8. cache[key[c]].storedAt \in Nat /\ cache[key[c]].ttl \in Ttls
      BY <2>4 DEF Entry
  <2>9. \A n, a, b \in Nat : n < a + b => n - a < b
      OBVIOUS
  <2> QED BY <2>5, <2>6, <2>7, <2>8, <2>9
<1>3. Typed /\ Timed /\ [Next]_vars => [InTime]_vars
    BY <1>2
<1> QED BY <1>1, <1>3, NextTimed, SpecTyped, PTL DEF Spec, ServedInTime

-----------------------------------------------------------------------------
(* Refinement.                                                             *)

\* Removing expired entries cannot be seen.
LEMMA ForgettingIsInvisible ==
    ASSUME TypeOK, Forgets, UNCHANGED now
    PROVE  Visible' = Visible
BY EntriesArePresent DEF Forgets, Visible, Present, Expired, TypeOK

\* Storing a result shows it.
LEMMA PutIsStore ==
    ASSUME Typed, NEW c \in Clients, NEW ttl \in Ttls, Put(c, ttl)
    PROVE  Promise!Store(key[c], result[c], ttl)
<1> DEFINE e == [value |-> result[c], expiresAt |-> now + ttl, storedAt |-> now, ttl |-> ttl]
           v == [value |-> result[c], expiresAt |-> now + ttl]
<1>1. e \in Entry /\ e.value = v.value /\ e.expiresAt = v.expiresAt /\ now < e.expiresAt
    BY PutEntry, QueryCacheAssumption DEF Typed, TypeOK
<1>2. cache' = [cache EXCEPT ![key[c]] = e] /\ now' = now /\ key' = key
    BY DEF Put
<1>3. v = [value |-> e.value, expiresAt |-> e.expiresAt]
    OBVIOUS
<1> HIDE DEF e
<1>4. Visible' = [Visible EXCEPT ![key[c]] = v]
  <2>1. key[c] \in Keys /\ cache'[key[c]] = e
      BY <1>2 DEF Typed, TypeOK
  <2>2. cache'[key[c]] # Absent /\ ~(now' >= cache'[key[c]].expiresAt)
      BY <1>1, <1>2, <2>1, QueryCacheAssumption, EntriesArePresent DEF Entry, Typed, TypeOK
  <2>3. \A k \in Keys : k # key[c] => cache'[k] = cache[k] /\ (Present(k)' <=> Present(k))
      BY <1>2 DEF Present, Expired, Typed, TypeOK
  <2>4. Visible'[key[c]] = v
      BY <1>3, <2>1, <2>2 DEF Visible, Present, Expired
  <2>5. \A k \in Keys : k # key[c] => Visible'[k] = Visible[k]
      BY <2>3 DEF Visible
  <2>6. Visible' = [k \in Keys |-> Visible'[k]] /\ Visible = [k \in Keys |-> Visible[k]]
      BY DEF Visible
  <2> HIDE DEF v
  <2> QED BY <2>1, <2>4, <2>5, <2>6
<1> QED BY <1>2, <1>4 DEF Promise!Store

\* When time passes, what has expired disappears.
LEMMA TickIsTick == ASSUME Typed, Tick PROVE Promise!Tick
<1>1. cache' = cache /\ now' = now + 1 /\ now \in Nat
    BY QueryCacheAssumption DEF Tick, Typed, TypeOK
<1>2. ASSUME NEW k \in Keys
      PROVE  Visible'[k] = IF Visible[k] # Absent /\ now' < Visible[k].expiresAt
                           THEN Visible[k] ELSE Absent
  <2>1. CASE cache[k] = Absent
      BY <1>1, <2>1 DEF Visible, Present
  <2>2. CASE cache[k] \in Entry
    <3>1. cache[k] # Absent /\ cache[k].expiresAt \in Nat /\ cache[k].value \in Nat
        BY <2>2, EntriesArePresent DEF Entry, Versions
    <3>2. [value |-> cache[k].value, expiresAt |-> cache[k].expiresAt] # Absent
        BY <3>1, QueryCacheAssumption
    <3> QED BY <1>1, <3>1, <3>2 DEF Visible, Present, Expired
  <2> QED BY <2>1, <2>2 DEF Typed, TypeOK
<1>3. Visible' = [k \in Keys |-> Visible'[k]]
    BY DEF Visible
<1> QED BY <1>1, <1>2, <1>3 DEF Promise!Tick, Promise!Current

LEMMA EmptyIsClear == ASSUME Empty, UNCHANGED now PROVE Promise!Clear
BY DEF Empty, Visible, Present, Promise!Clear

LEMMA StepRefines == Typed /\ [Next]_vars => [Promise!Next]_(Promise!vars)
<1> SUFFICES ASSUME Typed, [Next]_vars PROVE Promise!Next \/ UNCHANGED Promise!vars
    OBVIOUS
<1>1. ASSUME Forgets, UNCHANGED now PROVE UNCHANGED Promise!vars
    BY <1>1, ForgettingIsInvisible DEF Typed, Promise!vars
<1>2. ASSUME UNCHANGED <<cache, now>> PROVE UNCHANGED Promise!vars
    BY <1>2 DEF Visible, Present, Expired, Promise!vars
<1>3. ASSUME NEW c \in Clients, NEW k \in Keys, Contains(c, k) PROVE UNCHANGED Promise!vars
    BY <1>1, <1>3, LookForgets DEF Contains, Typed
<1>4. ASSUME NEW c \in Clients, Get(c) PROVE UNCHANGED Promise!vars
    BY <1>1, <1>4, LookForgets DEF Get, Typed
<1>5. ASSUME NEW c \in Clients, NEW ttl \in Ttls, Put(c, ttl) PROVE Promise!Next
  <2>1. key[c] \in Keys /\ result[c] \in Versions
      BY <1>5 DEF Put, Typed, Filled, TypeOK
  <2> QED BY <1>5, <2>1, PutIsStore DEF Promise!Next
<1>6. CASE Clear
    BY <1>6, EmptyIsClear DEF Clear, Promise!Next
<1>7. ASSUME NEW e \in BOOLEAN, SetEnabled(e) PROVE Promise!Next \/ UNCHANGED Promise!vars
    BY <1>2, <1>7, EmptyIsClear DEF SetEnabled, Promise!Next
<1>8. CASE Cleanup
    BY <1>1, <1>8, CleanupForgets DEF Cleanup, Typed
<1>9. CASE Tick
    BY <1>9, TickIsTick DEF Promise!Next
<1> QED BY <1>2, <1>3, <1>4, <1>5, <1>6, <1>7, <1>8, <1>9
     DEF Next, Query, Finish, Change, vars

\* The cache implements the map with a time to live: no caller can tell when
\* expired entries are removed, or by whom.
THEOREM Implements == Spec => RefinesPromise
<1>1. Init => Promise!Init
    BY DEF Init, Visible, Present, Promise!Init
<1> QED BY <1>1, StepRefines, SpecTyped, PTL DEF Spec, RefinesPromise, Promise!Spec
=============================================================================
