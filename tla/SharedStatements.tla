-------------------------- MODULE SharedStatements --------------------------
(***************************************************************************)
(* What a prepared statement cache promises, without mutex or phases: of   *)
(* one SQL text everybody shares the statement prepared last, as long as   *)
(* somebody keeps it.  StatementCache implements it                        *)
(* (StatementCache!Promise); PooledSessions builds on it.                  *)
(***************************************************************************)
CONSTANTS Threads, Sqls, Statements, Null

VARIABLES
    current,    \* SQL text -> the statement the cache refers to, or Null
    owns        \* the statements a thread keeps

Live == UNION {owns[t] : t \in Threads}

Init ==
    /\ current = [s \in Sqls |-> Null]
    /\ owns = [t \in Threads |-> {}]

Keep(t, st) == owns' = [owns EXCEPT ![t] = @ \cup {st}]

\* get(): the statement in use,
Share(t, s) ==
    /\ current[s] \in Live
    /\ Keep(t, current[s])
    /\ UNCHANGED current

\* or a new one if nobody uses it any more.
Prepare(t, s, st) ==
    /\ current[s] \notin Live
    /\ st \in Statements \ Live /\ st.sql = s
    /\ Keep(t, st)
    /\ current' = [current EXCEPT ![s] = st]

LetGo(t, st) ==
    /\ st \in owns[t]
    /\ owns' = [owns EXCEPT ![t] = @ \ {st}]
    /\ UNCHANGED current

\* clear()
Forget ==
    /\ current' = [s \in Sqls |-> Null]
    /\ UNCHANGED owns

Next ==
    \/ \E t \in Threads :
         \/ \E s \in Sqls : Share(t, s) \/ \E st \in Statements : Prepare(t, s, st)
         \/ \E st \in owns[t] : LetGo(t, st)
    \/ Forget

Spec == Init /\ [][Next]_<<current, owns>>
=============================================================================
