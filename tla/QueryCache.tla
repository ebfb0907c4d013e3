----------------------------- MODULE QueryCache -----------------------------
(***************************************************************************)
(* The query result cache of include/hft/db/QueryResultCache.hpp and the   *)
(* way its documentation uses it (PRODUCTION_FEATURES.md:353-363): check   *)
(* with contains(), then get(); or query the database and put() the        *)
(* result.  Each operation is one critical section and one step; what      *)
(* happens between two operations of a client is what other clients, the   *)
(* clock and the database do.  A result is the version of the data.        *)
(***************************************************************************)
EXTENDS Naturals, FiniteSets

CONSTANTS
    Clients,
    Keys,
    Ttls,           \* times to live the clients ask for
    Absent,         \* no entry; an empty std::any
    MaxVersion,     \* bound: changes of the data
    MaxTime         \* bound: ticks of the clock

ASSUME QueryCacheAssumption ==
    /\ Ttls \subseteq Nat \ {0}
    /\ MaxVersion \in Nat /\ MaxTime \in Nat
    /\ Absent \notin [value : Nat, expiresAt : Nat, storedAt : Nat, ttl : Nat]
    /\ Absent \notin [value : Nat, expiresAt : Nat]
    /\ Absent \notin Nat

VARIABLES
    cache,      \* _cache: key -> entry
    enabled,    \* _enabled
    now,        \* steady_clock
    version,    \* of the data in the database
    pc,         \* where a client is in the documented use
    key,        \* the key it works on
    result,     \* what it holds: a version, or nothing
    floor       \* for a property: a version that a clear() has made the oldest

vars == <<cache, enabled, now, version, pc, key, result, floor>>

Versions == 0 .. MaxVersion
Entry == [value : Versions, expiresAt : Nat, storedAt : Nat, ttl : Ttls]

TypeOK ==
    /\ cache \in [Keys -> Entry \cup {Absent}]
    /\ enabled \in BOOLEAN
    /\ now \in 0 .. MaxTime
    /\ version \in Versions
    /\ pc \in [Clients -> {"idle", "hit", "miss", "fill", "served"}]
    /\ key \in [Clients -> Keys]
    /\ result \in [Clients -> Versions \cup {Absent}]
    /\ floor \in Versions

Init ==
    /\ cache = [k \in Keys |-> Absent]
    /\ enabled = TRUE
    /\ now = 0
    /\ version = 0
    /\ pc = [c \in Clients |-> "idle"]
    /\ key \in [Clients -> Keys]
    /\ result = [c \in Clients |-> Absent]
    /\ floor = 0

\* Mutant: an entry lives one instant too long.
Expired_Late(k) == cache[k] # Absent /\ now > cache[k].expiresAt

Expired(k) == cache[k] # Absent /\ now >= cache[k].expiresAt
Present(k) == cache[k] # Absent /\ ~Expired(k)

\* contains() and get() erase the entry they look for if it has expired.
Look(k) == cache' = IF Expired(k) THEN [cache EXCEPT ![k] = Absent] ELSE cache

Goto(c, l) == pc' = [pc EXCEPT ![c] = l]

-----------------------------------------------------------------------------
(* The documented use.                                                     *)

Contains(c, k) ==
    /\ pc[c] = "idle"
    /\ key' = [key EXCEPT ![c] = k]
    /\ Goto(c, IF Present(k) THEN "hit" ELSE "miss")
    /\ Look(k)
    /\ result' = [result EXCEPT ![c] = Absent]
    /\ UNCHANGED <<enabled, now, version, floor>>

Get(c) ==
    /\ pc[c] = "hit"
    /\ result' = [result EXCEPT ![c] = IF Present(key[c]) THEN cache[key[c]].value ELSE Absent]
    /\ Look(key[c])
    /\ Goto(c, "served")
    /\ UNCHANGED <<enabled, now, version, key, floor>>

\* The client's own query, outside the cache.
Query(c) ==
    /\ pc[c] = "miss"
    /\ result' = [result EXCEPT ![c] = version]
    /\ Goto(c, "fill")
    /\ UNCHANGED <<cache, enabled, now, version, key, floor>>

\* put(): whatever the cache holds, and whether it is enabled or not.
Put(c, ttl) ==
    /\ pc[c] = "fill"
    /\ cache' = [cache EXCEPT ![key[c]] =
                   [value |-> result[c], expiresAt |-> now + ttl, storedAt |-> now, ttl |-> ttl]]
    /\ Goto(c, "served")
    /\ UNCHANGED <<enabled, now, version, key, result, floor>>

Finish(c) ==
    /\ pc[c] = "served"
    /\ Goto(c, "idle")
    /\ UNCHANGED <<cache, enabled, now, version, key, result, floor>>

-----------------------------------------------------------------------------
(* Cache management, by anyone at any time.                                *)

\* Remove everything.  If no client is about to store a result it read before,
\* nothing older than the present version can come back.
Empty ==
    /\ cache' = [k \in Keys |-> Absent]
    /\ floor' = IF \A c \in Clients : pc[c] # "fill" THEN version ELSE floor

\* Mutant: clear() does what cleanup() does.
Clear_OnlyExpired ==
    /\ cache' = [k \in Keys |-> IF Expired(k) THEN Absent ELSE cache[k]]
    /\ floor' = IF \A c \in Clients : pc[c] # "fill" THEN version ELSE floor
    /\ UNCHANGED <<enabled, now, version, pc, key, result>>

Clear ==
    /\ Empty
    /\ UNCHANGED <<enabled, now, version, pc, key, result>>

Cleanup ==
    /\ cache' = [k \in Keys |-> IF Expired(k) THEN Absent ELSE cache[k]]
    /\ UNCHANGED <<enabled, now, version, pc, key, result, floor>>

SetEnabled(e) ==
    /\ enabled' = e
    /\ IF e THEN UNCHANGED <<cache, floor>> ELSE Empty
    /\ UNCHANGED <<now, version, pc, key, result>>

Change ==
    /\ version < MaxVersion
    /\ version' = version + 1
    /\ UNCHANGED <<cache, enabled, now, pc, key, result, floor>>

Tick ==
    /\ now < MaxTime
    /\ now' = now + 1
    /\ UNCHANGED <<cache, enabled, version, pc, key, result, floor>>

Next ==
    \/ \E c \in Clients :
         \/ Get(c) \/ Query(c) \/ Finish(c)
         \/ \E k \in Keys : Contains(c, k)
         \/ \E ttl \in Ttls : Put(c, ttl)
    \/ Clear \/ Cleanup \/ Change \/ Tick
    \/ \E e \in BOOLEAN : SetEnabled(e)

Spec == Init /\ [][Next]_vars

-----------------------------------------------------------------------------
(* Properties.                                                             *)

\* The cache as its callers can see it: expired entries are not there.
Visible ==
    [k \in Keys |-> IF Present(k)
                    THEN [value |-> cache[k].value, expiresAt |-> cache[k].expiresAt]
                    ELSE Absent]

Promise == INSTANCE TtlMap WITH Values <- Versions, visible <- Visible

\* The cache is a map with a time to live: erasing expired entries in
\* contains(), get() and cleanup() changes no later answer.
RefinesPromise == Promise!Spec

\* get() serves nothing older than the time to live it was stored with
\* (isExpired(), line 23, at the boundary too).
ServedInTime ==
    [][\A c \in Clients :
         pc[c] = "hit" /\ pc'[c] = "served" /\ result'[c] # Absent
           => now - cache[key[c]].storedAt < cache[key[c]].ttl]_vars

\* A clear() made while no client holds an unstored result is final: results
\* from before it are not stored or served again.
QuietClearIsFinal ==
    /\ \A k \in Keys : cache[k] # Absent => cache[k].value >= floor
    /\ \A c \in Clients : pc[c] = "fill" => result[c] >= floor
=============================================================================
