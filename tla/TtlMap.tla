------------------------------- MODULE TtlMap -------------------------------
(***************************************************************************)
(* What a cache with a time to live promises: a map of the entries that    *)
(* have not expired.  Entries come by Store and go by expiry or Clear; who *)
(* removes an expired entry, and when, cannot be seen.                     *)
(***************************************************************************)
EXTENDS Naturals

CONSTANTS Keys, Values, Ttls, Absent

VARIABLES
    visible,    \* key -> [value, expiresAt], or Absent
    now

vars == <<visible, now>>

Current(m, t) == [k \in Keys |-> IF m[k] # Absent /\ t < m[k].expiresAt
                                 THEN m[k] ELSE Absent]

Init == visible = [k \in Keys |-> Absent] /\ now = 0

Store(k, v, ttl) ==
    /\ visible' = [visible EXCEPT ![k] = [value |-> v, expiresAt |-> now + ttl]]
    /\ UNCHANGED now

Clear == visible' = [k \in Keys |-> Absent] /\ UNCHANGED now

Tick == now' = now + 1 /\ visible' = Current(visible, now')

Next == Tick \/ Clear \/ \E k \in Keys, v \in Values, ttl \in Ttls : Store(k, v, ttl)

Spec == Init /\ [][Next]_vars
=============================================================================
