----------------------------- MODULE OrmProofs -----------------------------
(***************************************************************************)
(* Proofs about Orm, for any number of rows, statements, transaction       *)
(* objects and connections opened: what the return values of the           *)
(* repository, of commit() and of the transaction objects mean on the      *)
(* server.                                                                 *)
(***************************************************************************)
EXTENDS Orm, TLAPS

-----------------------------------------------------------------------------
(* The inductive invariant: the calls, and what is true of their answers.  *)

\* Names are given once; a session knows exactly the live statements that were
\* prepared on it, and perhaps some that are gone.
NamesKept ==
    /\ \A n \in DOMAIN stmts : n < statementCounter /\ stmts[n].session <= session
    /\ \A n \in names : n < statementCounter /\ (n \in DOMAIN stmts => stmts[n].prepared)
    /\ \A n \in DOMAIN stmts :
          stmts[n].prepared /\ stmts[n].session = session /\ alive => n \in names
    /\ call.step # "none" => call.name \in DOMAIN stmts
    /\ call.step = "prepare" => ~ stmts[call.name].prepared

\* Statements of this session only are dropped inside an untroubled transaction.
DropsOwn ==
    /\ call.step # "none" /\ call.own => ~ Stale(call.name)
    /\ \A o \in Objects :
          call.step = "destroy" /\ IsOpen(o) /\ ~ life[o].stale => ~ Stale(call.name)

\* A row is written by the call that asked for it.
AskedFirst ==
    call.step \in {"prepare", "execute"} /\ stmts[call.name].sql = "write"
        /\ stmts[call.name].row # NoRow => told[stmts[call.name].row] = "asked"

\* It is written once.
WritesOnce ==
    /\ \A r \in Rows : told[r] \in {"unused", "asked"} => r \notin store \cup pending
    /\ \A o \in Objects : \A r \in life[o].rows : told[r] = "true"

\* The server is in a transaction only while an object is active, and nothing is
\* pending but in a transaction that can commit.
Owned ==
    /\ status # "idle" => Active # {}
    /\ status # "open" => pending = {}

\* An active object that nothing overtook speaks for the session.
Speaks ==
    \A o \in Objects :
        /\ ~ IsOpen(o) => life[o].rows = {}
        /\ IsOpen(o) => /\ txn[o] = "active"
                        /\ alive => status # "idle"
                        /\ alive /\ ~ life[o].failed /\ ~ life[o].stale => life[o].rows \subseteq pending
                        /\ life[o].rows \cap store = {}

Calls == NamesKept /\ DropsOwn /\ AskedFirst

Truth == WritesOnce /\ Owned /\ Speaks /\ WriteReport

-----------------------------------------------------------------------------
(* Types.                                                                  *)

LEMMA ServerTyped ==
  ASSUME ServerTypeOK,
         \/ \E reply : \/ ExecBegin(reply) \/ ExecCommit(reply) \/ ExecRollback(reply)
                       \/ ExecSelect(reply) \/ Unheard(reply) \/ Refused(reply)
         \/ UNCHANGED server
         \/ \E r \in Rows, reply \in Replies : ExecInsert(r, reply)
  PROVE  ServerTypeOK'
BY DEF ServerTypeOK, ExecBegin, ExecCommit, ExecRollback, ExecSelect, ExecInsert,
   Unheard, Refused, SessionIs, server

\* The life of a transaction object.
LEMMA NewLifeTyped ==
  ASSUME NEW state \in {"none", "open", "overtaken", "committed", "notCommitted", "rolledBack"}
  PROVE  /\ NewLife(state) \in Life
         /\ NewLife(state).state = state /\ NewLife(state).rows = {}
         /\ NewLife(state).failed = FALSE /\ NewLife(state).stale = FALSE
BY DEF Life, NewLife

LEMMA LifeTyped ==
  ASSUME life \in [Objects -> Life], NEW o \in Objects
  PROVE  /\ life[o] \in Life /\ life[o].rows \in SUBSET Rows
         /\ life[o].failed \in BOOLEAN /\ life[o].stale \in BOOLEAN
         /\ Overtaken(o) \in Life
         /\ Overtaken(o).state # "open" => Overtaken(o).rows = {} \/ Overtaken(o) = life[o]
<1>1. life[o] \in Life
  OBVIOUS
<1>2. NewLife("overtaken") \in Life /\ NewLife("overtaken").rows = {}
  BY NewLifeTyped
<1> QED  BY <1>1, <1>2 DEF Overtaken, Life

LEMMA InitTyped == Init => TypeOK
<1>1. NewLife("none") \in Life
  BY NewLifeTyped
<1> QED
  BY <1>1, LayerAssumption DEF Init, LayerInit, ServerInit, TypeOK, LayerTypeOK, ServerTypeOK, NoCall,
     Call, Names, Session

\* Calls of statements that are alive.
LEMMA CallTyped ==
  ASSUME NEW own \in BOOLEAN, NEW prepared \in BOOLEAN, NEW n \in Names, CallOf(n, own, prepared)
  PROVE  call' \in Call
BY DEF CallOf, Call

LEMMA ReturnTyped == call \in Call /\ Return => call' \in Call
BY DEF Return, Call, NoCall

LEMMA CreateTyped ==
  ASSUME LayerTypeOK, NEW sql \in {"write", "query"}, NEW row \in Rows \cup {NoRow}, Create(sql, row)
  PROVE  /\ StmtName \in Names
         /\ DOMAIN stmts' \subseteq Names /\ \A n \in DOMAIN stmts' : stmts'[n] \in Stmt
         /\ statementCounter' \in 0 .. MaxStatements
<1>1. StmtName \in Names
  BY LayerAssumption DEF Create, StmtName, Names, LayerTypeOK
<1>2. NewStmt(sql, row) \in Stmt
  BY LayerAssumption DEF NewStmt, Stmt, Session
<1>3. DOMAIN stmts' \subseteq Names /\ \A n \in DOMAIN stmts' : stmts'[n] \in Stmt
  BY <1>1, <1>2 DEF Create, LayerTypeOK
<1>4. statementCounter' \in 0 .. MaxStatements
  BY LayerAssumption DEF Create, LayerTypeOK
<1> QED  BY <1>1, <1>3, <1>4

\* A call that returns leaves what happened in the life of each open object.
LEMMA TellLife ==
  ASSUME life \in [Objects -> Life], NEW done \in BOOLEAN, Tell(done), NEW o \in Objects
  PROVE  /\ ~ IsOpen(o) => life'[o] = life[o]
         /\ IsOpen(o) => /\ life'[o].state = life[o].state
                         /\ life'[o].stale = life[o].stale
                         /\ life'[o].failed = (life[o].failed \/ ~ done)
         /\ IsOpen(o) /\ done /\ IsWrite => life'[o].rows = life[o].rows \cup {stmts[call.name].row}
         /\ ~ (done /\ IsWrite) => life'[o].rows = life[o].rows
<1> DEFINE f == life[o].failed \/ ~ done
           R == IF IsWrite /\ done THEN life[o].rows \cup {stmts[call.name].row} ELSE life[o].rows
<1>1. life'[o] = LifeTold(o, done)
  BY DEF Tell
<1>2. life[o] \in Life
  OBVIOUS
<1>3. IsOpen(o) => life'[o] = [[life[o] EXCEPT !.failed = f] EXCEPT !.rows = R]
  BY <1>1, <1>2 DEF Life, LifeTold
<1>4. /\ f = (life[o].failed \/ ~ done)
      /\ IsWrite /\ done => R = life[o].rows \cup {stmts[call.name].row}
      /\ ~ (IsWrite /\ done) => R = life[o].rows
  OBVIOUS
<1>5. ~ IsOpen(o) => life'[o] = life[o]
  BY <1>1 DEF LifeTold
<1> HIDE DEF f, R
<1>6. IsOpen(o) => /\ life'[o].state = life[o].state /\ life'[o].stale = life[o].stale
                   /\ life'[o].failed = f /\ life'[o].rows = R
  BY <1>2, <1>3 DEF Life
<1>7. IsOpen(o) => /\ life'[o].state = life[o].state
                   /\ life'[o].stale = life[o].stale
                   /\ life'[o].failed = (life[o].failed \/ ~ done)
  BY <1>4, <1>6
<1>8. IsOpen(o) /\ IsWrite /\ done => life'[o].rows = life[o].rows \cup {stmts[call.name].row}
  BY <1>4, <1>6
<1>9. ~ (IsWrite /\ done) => life'[o].rows = life[o].rows
  BY <1>4, <1>5, <1>6
<1> QED  BY <1>5, <1>7, <1>8, <1>9

\* What the program is told is of a row.
LEMMA TellTyped ==
  ASSUME TypeOK, NEW done \in BOOLEAN, Tell(done), call.name \in DOMAIN stmts
  PROVE  /\ told' \in [Rows -> {"unused", "asked", "true", "false"}]
         /\ lost' \in SUBSET Rows /\ within' \in SUBSET Rows /\ life' \in [Objects -> Life]
<1> DEFINE r == stmts[call.name].row
<1>1. IsWrite => r \in Rows
  BY DEF TypeOK, LayerTypeOK, Stmt, IsWrite
<1>2. told' \in [Rows -> {"unused", "asked", "true", "false"}]
  BY <1>1 DEF Tell, TypeOK
<1>3. lost' \in SUBSET Rows /\ within' \in SUBSET Rows
  BY <1>1 DEF Tell, TypeOK
<1>4. life' \in [Objects -> Life]
  <2>1. ASSUME NEW o \in Objects PROVE LifeTold(o, done) \in Life
    <3> DEFINE f == life[o].failed \/ ~ done
               R == IF IsWrite /\ done THEN life[o].rows \cup {r} ELSE life[o].rows
    <3>1. life[o] \in Life
      BY DEF TypeOK
    <3>2. R \in SUBSET Rows /\ f \in BOOLEAN
      BY <1>1, <3>1 DEF Life
    <3>3. LifeTold(o, done) = life[o] \/ LifeTold(o, done) = [[life[o] EXCEPT !.failed = f] EXCEPT !.rows = R]
      BY <3>1 DEF LifeTold, Life
    <3> HIDE DEF f, R
    <3> QED  BY <3>1, <3>2, <3>3 DEF Life
  <2>2. life' = [o \in Objects |-> LifeTold(o, done)]
    BY DEF Tell
  <2> QED  BY <2>1, <2>2
<1> QED  BY <1>2, <1>3, <1>4

LEMMA ProgramTyped ==
  ASSUME TypeOK,
         \/ \E r \in Rows : Write(r)
         \/ Find \/ ProgramCreates
         \/ \E n \in DOMAIN stmts :
               \/ \E r \in Rows \cup {NoRow} : ProgramBinds(n, r)
               \/ ProgramExecutes(n) \/ ProgramDrops(n)
  PROVE  TypeOK'
<1> USE DEF TypeOK, LayerTypeOK
<1>1. ASSUME ServerTypeOK, UNCHANGED server PROVE ServerTypeOK'
  BY <1>1 DEF ServerTypeOK, server
<1>2. ASSUME NEW r \in Rows, Ask(r)
      PROVE  told' \in [Rows -> {"unused", "asked", "true", "false"}]
  BY <1>2 DEF Ask
<1>3. ASSUME NEW r \in Rows, Write(r) PROVE TypeOK'
  <2>1. CallOf(StmtName, TRUE, FALSE) /\ Create("write", r) /\ Ask(r)
    BY <1>3 DEF Write
  <2>2. call' \in Call
    BY <2>1, CallTyped, CreateTyped
  <2> QED  BY <1>1, <1>2, <1>3, <2>1, <2>2, CreateTyped DEF Write
<1>4. CASE Find
  <2>1. CallOf(StmtName, TRUE, FALSE) /\ Create("query", NoRow)
    BY <1>4 DEF Find
  <2>2. call' \in Call
    BY <2>1, CallTyped, CreateTyped
  <2> QED  BY <1>1, <1>4, <2>1, <2>2, CreateTyped DEF Find, history
<1>5. CASE ProgramCreates
  BY <1>1, <1>5, CreateTyped DEF ProgramCreates, history
<1>6. ASSUME NEW n \in DOMAIN stmts, NEW r \in Rows \cup {NoRow}, ProgramBinds(n, r) PROVE TypeOK'
  <2>1. [stmts[n] EXCEPT !.row = r] \in Stmt
    BY DEF Stmt
  <2>2. DOMAIN stmts' = DOMAIN stmts /\ \A m \in DOMAIN stmts' : stmts'[m] \in Stmt
    BY <1>6, <2>1 DEF ProgramBinds, Bind
  <2> QED  BY <1>1, <1>6, <2>2 DEF ProgramBinds, history
<1>7. ASSUME NEW n \in DOMAIN stmts, ProgramExecutes(n) PROVE TypeOK'
  <2>1. stmts[n].prepared \in BOOLEAN /\ stmts[n].row \in Rows \cup {NoRow} /\ n \in Names
    BY DEF Stmt
  <2>2. call' \in Call
    BY <1>7, <2>1, CallTyped DEF ProgramExecutes
  <2>3. told' \in [Rows -> {"unused", "asked", "true", "false"}]
    BY <1>2, <1>7, <2>1 DEF ProgramExecutes
  <2> QED  BY <1>1, <1>7, <2>2, <2>3 DEF ProgramExecutes
<1>8. ASSUME NEW n \in DOMAIN stmts, ProgramDrops(n) PROVE TypeOK'
  <2>1. [step |-> "destroy", name |-> n, own |-> FALSE] \in Call
    BY DEF Call
  <2>2. life' \in [Objects -> Life]
    <3>1. ASSUME NEW o \in Objects
          PROVE  [life[o] EXCEPT !.stale = @ \/ (IsOpen(o) /\ Stale(n))] \in Life
      <4> DEFINE t == life[o].stale \/ (IsOpen(o) /\ Stale(n))
      <4>1. t \in BOOLEAN
        OBVIOUS
      <4> HIDE DEF t
      <4>2. [life[o] EXCEPT !.stale = t] \in Life
        BY <4>1 DEF Life
      <4> QED  BY <4>2 DEF t
    <3> QED  BY <1>8, <3>1 DEF ProgramDrops
  <2> QED  BY <1>1, <1>8, <2>1, <2>2 DEF ProgramDrops
<1> QED  BY <1>3, <1>4, <1>5, <1>6, <1>7, <1>8

LEMMA CallStepTyped ==
  ASSUME TypeOK, call.step # "none" => call.name \in DOMAIN stmts,
         \/ StatementPrepared \/ PrepareFails \/ WriteExecuted \/ QueryExecuted
         \/ StatementDestroyed
  PROVE  TypeOK'
<1> USE DEF TypeOK, LayerTypeOK
<1>1. names \subseteq Names /\ call.name \in Names /\ call.name \in DOMAIN stmts
  BY DEF StatementPrepared, PrepareFails, WriteExecuted, QueryExecuted, StatementDestroyed,
     Prepare, Destroy
<1>2. ASSUME NEW known \in SUBSET Names, KnownAfter(known) PROVE names' \in SUBSET Names
  BY <1>2 DEF KnownAfter
<1>3. ASSUME NEW reply, Prepare(reply)
      PROVE  LayerTypeOK'
  <2>1. ServerTypeOK'
    BY <1>3, ServerTyped DEF Prepare, ServerPrepare
  <2>2. names' \in SUBSET Names
    BY <1>1, <1>2, <1>3 DEF Prepare, ServerPrepare
  <2>3. DOMAIN stmts' \subseteq Names /\ \A n \in DOMAIN stmts' : stmts'[n] \in Stmt
    <3>1. [[stmts[call.name] EXCEPT !.prepared = TRUE] EXCEPT !.session = session] \in Stmt
      BY <1>1 DEF Stmt
    <3> QED  BY <1>3, <3>1 DEF Prepare, Stmt
  <2>4. call' \in Call
    <3>1. [call EXCEPT !.step = "execute"] \in Call
      BY DEF Call
    <3> QED  BY <1>3, <3>1, ReturnTyped DEF Prepare
  <2> QED  BY <1>3, <2>1, <2>2, <2>3, <2>4 DEF Prepare
<1>4. ASSUME NEW reply, NEW count, Execute(reply, count), stmts[call.name].sql = "write" => reply \in Replies
      PROVE  LayerTypeOK'
  <2>1. ServerTypeOK'
    BY <1>1, <1>4, ServerTyped DEF Execute, ServerExecute, MatchNone, Stmt
  <2>2. names' \in SUBSET Names
    BY <1>1, <1>2, <1>4 DEF Execute, ServerExecute
  <2> QED  BY <1>4, <2>1, <2>2, ReturnTyped DEF Execute
<1>5. CASE StatementPrepared
  BY <1>3, <1>5 DEF StatementPrepared, history
<1>6. CASE PrepareFails
  BY <1>1, <1>3, <1>6, TellTyped DEF PrepareFails
<1>7. CASE WriteExecuted
  <2>1. PICK reply \in Replies, count \in 0 .. 1 : Execute(reply, count) /\ Tell(Positive(count))
    BY <1>7 DEF WriteExecuted
  <2>2. Positive(count) \in BOOLEAN
    BY DEF Positive
  <2>3. LayerTypeOK'
    BY <1>4, <2>1
  <2>4. PICK done \in BOOLEAN : Tell(done)
    BY <2>1, <2>2
  <2> QED  BY <1>1, <2>3, <2>4, TellTyped
<1>8. CASE QueryExecuted
  <2>1. PICK reply \in {"tuplesOk", "error"} : Execute(reply, 0) /\ Tell(reply = "tuplesOk")
    BY <1>8 DEF QueryExecuted
  <2>2. stmts[call.name].sql # "write"
    BY <1>8 DEF QueryExecuted
  <2> QED  BY <1>1, <1>4, <2>1, <2>2, TellTyped
<1>9. CASE StatementDestroyed
  <2>1. ServerTypeOK'
    BY <1>9, ServerTyped DEF StatementDestroyed, Destroy, ServerDeallocate
  <2>2. names' \in SUBSET Names
    BY <1>1, <1>2, <1>9 DEF StatementDestroyed, Destroy, ServerDeallocate
  <2>3. NoCall \in Call
    BY DEF NoCall, Call
  <2> QED  BY <1>9, <2>1, <2>2, <2>3 DEF StatementDestroyed, Destroy, Forget, history
<1> QED  BY <1>5, <1>6, <1>7, <1>8, <1>9

\* The end of an object, or of a session, touches the lives of the others.
LEMMA EndsTyped ==
  ASSUME TypeOK, NEW o \in Objects, NEW state \in {"committed", "notCommitted", "rolledBack"}, Ends(o, state)
  PROVE  life' \in [Objects -> Life]
<1>1. NewLife(state) \in Life
  BY NewLifeTyped
<1>2. \A p \in Objects : Overtaken(p) \in Life
  BY LifeTyped DEF TypeOK
<1> QED  BY <1>1, <1>2 DEF Ends

LEMMA SessionTyped ==
  ASSUME TypeOK,
         \/ ProgramOpens \/ ProgramCloses
         \/ \E o \in Objects :
               ProgramBegins(o) \/ ProgramCommits(o) \/ ProgramRollsBack(o) \/ ProgramReleases(o)
  PROVE  TypeOK'
<1> USE DEF TypeOK, LayerTypeOK
<1>1. CASE ProgramOpens
  <2>1. life' \in [Objects -> Life]
    <3>1. \A o \in Objects : Overtaken(o) \in Life
      BY LifeTyped
    <3> QED  BY <1>1, <3>1 DEF ProgramOpens
  <2>2. session' \in Session
    <3>1. session < MaxOpens /\ (session' = session + 1 \/ session' = session)
      BY <1>1 DEF ProgramOpens, Open
    <3>2. session \in 0 .. MaxOpens /\ MaxOpens \in Nat
      BY LayerAssumption DEF Session
    <3> HIDE DEF TypeOK, LayerTypeOK
    <3> QED  BY <3>1, <3>2 DEF Session
  <2>3. ServerTypeOK'
    BY <1>1 DEF ProgramOpens, Open, SessionIs, ServerTypeOK
  <2> QED  BY <1>1, <2>1, <2>2, <2>3 DEF ProgramOpens, Open
<1>2. CASE ProgramCloses
  BY <1>2 DEF ProgramCloses, Close, SessionIs, ServerTypeOK, history
<1>3. ASSUME Transacts PROVE names' \in SUBSET Names /\ UNCHANGED <<session, statementCounter, stmts, call>>
  BY <1>3 DEF Transacts, KnownAfter
<1>4. ASSUME NEW o \in Objects, NEW state \in {"none", "active", "inactive"}, Is(o, state)
      PROVE  txn' \in [Objects -> {"none", "active", "inactive"}]
  BY <1>4 DEF Is
<1>5. ASSUME NEW o \in Objects, ProgramBegins(o) PROVE TypeOK'
  <2>1. ServerTypeOK'
    BY <1>5, ServerTyped DEF ProgramBegins, Begin
  <2>2. life' \in [Objects -> Life]
    <3>1. NewLife("open") \in Life
      BY NewLifeTyped
    <3> QED  BY <1>5, <3>1 DEF ProgramBegins
  <2> QED  BY <1>3, <1>4, <1>5, <2>1, <2>2 DEF ProgramBegins, Begin
<1>6. ASSUME NEW o \in Objects, ProgramCommits(o) PROVE TypeOK'
  <2>1. ServerTypeOK'
    BY <1>6, ServerTyped DEF ProgramCommits, Commit
  <2>2. life' \in [Objects -> Life]
    <3>1. PICK reply \in Replies : Ends(o, IF Succeeds(reply) THEN "committed" ELSE "notCommitted")
      BY <1>6 DEF ProgramCommits
    <3> QED  BY <3>1, EndsTyped
  <2> QED  BY <1>3, <1>4, <1>6, <2>1, <2>2 DEF ProgramCommits, Commit
<1>7. ASSUME NEW o \in Objects, ProgramRollsBack(o) PROVE TypeOK'
  <2>1. ServerTypeOK'
    BY <1>7, ServerTyped DEF ProgramRollsBack, Rollback
  <2> QED  BY <1>3, <1>4, <1>7, <2>1, EndsTyped DEF ProgramRollsBack, Rollback
<1>8. ASSUME NEW o \in Objects, ProgramReleases(o) PROVE TypeOK'
  <2>1. ServerTypeOK'
    BY <1>8, ServerTyped DEF ProgramReleases, Release
  <2>2. life' \in [Objects -> Life]
    BY <1>8, EndsTyped DEF ProgramReleases
  <2> QED  BY <1>3, <1>4, <1>8, <2>1, <2>2 DEF ProgramReleases, Release
<1> QED  BY <1>1, <1>2, <1>5, <1>6, <1>7, <1>8

LEMMA NextTyped == TypeOK /\ NamesKept /\ [Next]_vars => TypeOK'
<1> SUFFICES ASSUME TypeOK, NamesKept, [Next]_vars PROVE TypeOK'
  OBVIOUS
<1>1. call.step # "none" => call.name \in DOMAIN stmts
  BY DEF NamesKept
<1>2. CASE UNCHANGED vars
  BY <1>2 DEF vars, TypeOK, LayerTypeOK, ServerTypeOK
<1> QED  BY <1>1, <1>2, ProgramTyped, CallStepTyped, SessionTyped DEF Next

-----------------------------------------------------------------------------
(* Names.                                                                  *)

LEMMA Numbers ==
  ASSUME TypeOK
  PROVE  /\ session \in Nat /\ statementCounter \in Nat
         /\ \A n \in Names : n \in Nat
         /\ DOMAIN stmts \subseteq Names
         /\ \A n \in DOMAIN stmts : stmts[n] \in Stmt /\ stmts[n].session \in Nat
BY LayerAssumption DEF TypeOK, LayerTypeOK, Names, Session, Stmt

\* A new statement has a name that neither the program nor the server knows.
LEMMA CreateKeeps ==
  ASSUME TypeOK, NamesKept, NEW sql, NEW row, Create(sql, row), UNCHANGED <<names, session, alive>>,
         \/ call' = call
         \/ call'.step = "prepare" /\ call'.name = StmtName
  PROVE  NamesKept'
<1>1. /\ DOMAIN stmts' = DOMAIN stmts \cup {statementCounter}
      /\ \A n \in DOMAIN stmts : n # statementCounter /\ stmts'[n] = stmts[n]
      /\ stmts'[statementCounter] = NewStmt(sql, row)
      /\ statementCounter' = statementCounter + 1
  <2>1. \A n \in DOMAIN stmts : n # statementCounter
    BY Numbers DEF NamesKept
  <2> QED  BY <2>1 DEF Create, StmtName
<1>2. statementCounter \notin names
  BY Numbers DEF NamesKept
<1>3. NewStmt(sql, row).prepared = FALSE /\ NewStmt(sql, row).session = 0
  BY DEF NewStmt
<1>4. \A n \in DOMAIN stmts' : n < statementCounter' /\ stmts'[n].session <= session'
  BY <1>1, <1>3, Numbers DEF NamesKept
<1>5. \A n \in names' : n < statementCounter' /\ (n \in DOMAIN stmts' => stmts'[n].prepared)
  <2> SUFFICES ASSUME NEW n \in names
               PROVE  n < statementCounter' /\ (n \in DOMAIN stmts' => stmts'[n].prepared)
    OBVIOUS
  <2>1. n \in Nat /\ n < statementCounter
    BY Numbers DEF NamesKept, TypeOK, LayerTypeOK
  <2> QED  BY <1>1, <1>2, <2>1, Numbers DEF NamesKept
<1>6. \A n \in DOMAIN stmts' :
         stmts'[n].prepared /\ stmts'[n].session = session' /\ alive' => n \in names'
  BY <1>1, <1>3 DEF NamesKept
<1>7. /\ call'.step # "none" => call'.name \in DOMAIN stmts'
      /\ call'.step = "prepare" => ~ stmts'[call'.name].prepared
  BY <1>1, <1>3 DEF NamesKept, StmtName
<1> QED  BY <1>4, <1>5, <1>6, <1>7 DEF NamesKept

\* Steps that change no statement but a bound row, and start or end a call.
LEMMA RestKeeps ==
  ASSUME NamesKept, UNCHANGED <<session, statementCounter>>, DOMAIN stmts' = DOMAIN stmts,
         \A n \in DOMAIN stmts : /\ stmts'[n].prepared = stmts[n].prepared
                                 /\ stmts'[n].session = stmts[n].session,
         (alive' = alive /\ names' = names) \/ (alive' = FALSE /\ names' = {}),
         \/ call' = call \/ call'.step = "none"
         \/ /\ call'.name \in DOMAIN stmts
            /\ call'.step = "prepare" => ~ stmts[call'.name].prepared
  PROVE  NamesKept'
BY DEF NamesKept

\* A reply is heard, or the session and its names are gone.
LEMMA KnownKeeps ==
  ASSUME alive \in BOOLEAN, KnownAfter(names), NEW reply,
         \/ ExecBegin(reply) \/ ExecCommit(reply) \/ ExecRollback(reply)
         \/ ExecSelect(reply) \/ Unheard(reply) \/ Refused(reply) \/ UNCHANGED server
         \/ \E r : ExecInsert(r, reply)
  PROVE  (alive' = alive /\ names' = names) \/ (alive' = FALSE /\ names' = {})
BY DEF KnownAfter, ExecBegin, ExecCommit, ExecRollback, ExecSelect, ExecInsert, Unheard, Refused,
   SessionIs, server

LEMMA NextNames == TypeOK /\ NamesKept /\ [Next]_vars => NamesKept'
<1> SUFFICES ASSUME TypeOK, NamesKept, [Next]_vars PROVE NamesKept'
  OBVIOUS
<1>1. /\ alive \in BOOLEAN
      /\ call.step # "none" => call.name \in DOMAIN stmts
      /\ \A n \in DOMAIN stmts : stmts[n] \in Stmt
  BY Numbers DEF TypeOK, LayerTypeOK, ServerTypeOK, Free, NamesKept
<1>2. ASSUME NEW r \in Rows, Write(r) PROVE NamesKept'
  BY <1>2, CreateKeeps DEF Write, CallOf, server
<1>3. CASE Find
  BY <1>3, CreateKeeps DEF Find, CallOf, server
<1>4. CASE ProgramCreates
  BY <1>4, CreateKeeps DEF ProgramCreates, server
<1>5. ASSUME NEW n \in DOMAIN stmts, NEW r, ProgramBinds(n, r) PROVE NamesKept'
  <2>1. DOMAIN stmts' = DOMAIN stmts
        /\ \A m \in DOMAIN stmts : /\ stmts'[m].prepared = stmts[m].prepared
                                   /\ stmts'[m].session = stmts[m].session
    BY <1>1, <1>5 DEF ProgramBinds, Bind, Stmt
  <2> QED  BY <1>5, <2>1, RestKeeps DEF ProgramBinds, server
<1>6. ASSUME NEW n \in DOMAIN stmts, ProgramExecutes(n) PROVE NamesKept'
  <2>1. call'.name = n /\ (call'.step = "prepare" => ~ stmts[n].prepared)
    BY <1>6 DEF ProgramExecutes, CallOf
  <2> QED  BY <1>6, <2>1, RestKeeps DEF ProgramExecutes, server
<1>7. ASSUME NEW n \in DOMAIN stmts, ProgramDrops(n) PROVE NamesKept'
  <2>1. call'.name = n /\ call'.step = "destroy"
    BY <1>7 DEF ProgramDrops
  <2> QED  BY <1>7, <2>1, RestKeeps DEF ProgramDrops, server
<1>8. CASE ProgramOpens
  <2>1. /\ names' = {} /\ UNCHANGED <<statementCounter, stmts, call>>
        /\ session' = session + 1 \/ (session' = session /\ alive' = FALSE)
    BY <1>8 DEF ProgramOpens, Open, SessionIs
  <2>2. \A n \in DOMAIN stmts : stmts[n].session <= session' /\ (stmts[n].session = session' => alive' = FALSE)
    BY <2>1, Numbers DEF NamesKept
  <2> QED  BY <2>1, <2>2 DEF NamesKept
<1>9. CASE ProgramCloses
  BY <1>9, RestKeeps DEF ProgramCloses, Close, SessionIs
<1>10. ASSUME Return
       PROVE  \/ call'.step = "none"
              \/ call'.name = call.name /\ call'.step = "destroy"
  <2>1. call \in Call
    BY DEF TypeOK, LayerTypeOK
  <2> QED  BY <1>10, <2>1 DEF Return, NoCall, Call
<1>11. CASE PrepareFails
  <2>1. Prepare("error")
    BY <1>11 DEF PrepareFails
  <2>2. /\ Unheard("error") \/ Refused("error")
        /\ KnownAfter(names) /\ stmts' = stmts /\ Return /\ UNCHANGED <<session, statementCounter>>
        /\ call.step # "none"
    BY <2>1 DEF Prepare, ServerPrepare
  <2>3. (alive' = alive /\ names' = names) \/ (alive' = FALSE /\ names' = {})
    BY <1>1, <2>2, KnownKeeps
  <2> QED  BY <1>1, <1>10, <2>2, <2>3, RestKeeps
<1>12. CASE StatementPrepared
  <2> DEFINE n == call.name
  <2>1. n \in DOMAIN stmts /\ n \in Names /\ n < statementCounter
    BY <1>1, <1>12, Numbers DEF StatementPrepared, Prepare, NamesKept
  <2>2. /\ DOMAIN stmts' = DOMAIN stmts /\ stmts'[n].prepared = TRUE /\ stmts'[n].session = session
        /\ \A m \in DOMAIN stmts : m # n => stmts'[m] = stmts[m]
    <3>1. stmts' = [stmts EXCEPT ![n] = [[@ EXCEPT !.prepared = TRUE] EXCEPT !.session = session]]
      BY <1>12 DEF StatementPrepared, Prepare
    <3>2. stmts[n] \in Stmt
      BY <1>1, <2>1
    <3> HIDE DEF n
    <3> QED  BY <2>1, <3>1, <3>2 DEF Stmt
  <2>3. /\ names' = names \cup {n} /\ alive' = alive /\ UNCHANGED <<session, statementCounter>>
        /\ call'.name = n /\ call'.step = "execute"
    <3>1. call \in Call
      BY DEF TypeOK, LayerTypeOK
    <3> QED
      BY <1>12, <3>1 DEF StatementPrepared, Prepare, ServerPrepare, Unheard, Refused, server, Call
  <2> HIDE DEF n
  <2> QED  BY <2>1, <2>2, <2>3, Numbers DEF NamesKept
<1>13. CASE WriteExecuted \/ QueryExecuted
  <2>1. PICK reply, count : Execute(reply, count)
    BY <1>13 DEF WriteExecuted, QueryExecuted
  <2>2. /\ KnownAfter(names) /\ stmts' = stmts /\ Return /\ UNCHANGED <<session, statementCounter>>
        /\ call.step # "none"
    BY <2>1 DEF Execute, ServerExecute
  <2>3. \/ ExecSelect(reply) \/ Unheard(reply) \/ Refused(reply) \/ UNCHANGED server
        \/ \E r : ExecInsert(r, reply)
    BY <2>1 DEF Execute, ServerExecute, MatchNone
  <2>4. (alive' = alive /\ names' = names) \/ (alive' = FALSE /\ names' = {})
    BY <1>1, <2>2, <2>3, KnownKeeps
  <2> QED  BY <1>1, <1>10, <2>2, <2>4, RestKeeps
<1>14. CASE StatementDestroyed
  <2> DEFINE n == call.name
  <2>1. /\ DOMAIN stmts' = DOMAIN stmts \ {n} /\ \A m \in DOMAIN stmts' : stmts'[m] = stmts[m]
        /\ call'.step = "none" /\ UNCHANGED <<session, statementCounter>>
    BY <1>14 DEF StatementDestroyed, Destroy, Forget, NoCall
  <2>2. names' \subseteq names /\ (alive' => alive /\ \A m \in names : m # n => m \in names')
    <3>1. CASE stmts[call.name].prepared
      <4>1. PICK reply \in Replies : ServerDeallocate(n, reply)
        BY <1>14, <3>1 DEF StatementDestroyed, Destroy
      <4> QED
        BY <1>1, <4>1 DEF ServerDeallocate, KnownAfter, Unheard, Refused, SessionIs, server
    <3>2. CASE ~ stmts[call.name].prepared
      BY <1>14, <3>2 DEF StatementDestroyed, Destroy, server
    <3> QED  BY <3>1, <3>2
  <2> HIDE DEF n
  <2> QED  BY <2>1, <2>2 DEF NamesKept
<1>15. ASSUME NEW o \in Objects,
              ProgramBegins(o) \/ ProgramCommits(o) \/ ProgramRollsBack(o) \/ ProgramReleases(o)
       PROVE  NamesKept'
  <2>1. Transacts
    BY <1>15 DEF ProgramBegins, Begin, ProgramCommits, Commit, ProgramRollsBack, Rollback,
       ProgramReleases, Release
  <2>2. PICK reply : ExecBegin(reply) \/ ExecCommit(reply) \/ ExecRollback(reply) \/ UNCHANGED server
    BY <1>15
       DEF ProgramBegins, Begin, ProgramCommits, Commit, ProgramRollsBack, Rollback,
           ProgramReleases, Release
  <2>3. (alive' = alive /\ names' = names) \/ (alive' = FALSE /\ names' = {})
    BY <1>1, <2>1, <2>2, KnownKeeps DEF Transacts
  <2> QED  BY <2>1, <2>3, RestKeeps DEF Transacts
<1>16. CASE UNCHANGED vars
  BY <1>16 DEF vars, NamesKept
<1> QED
  BY <1>2, <1>3, <1>4, <1>5, <1>6, <1>7, <1>8, <1>9, <1>11, <1>12, <1>13, <1>14, <1>15, <1>16
     DEF Next

-----------------------------------------------------------------------------
(* Calls.                                                                  *)

LEMMA NextCalls == TypeOK /\ Calls /\ [Next]_vars => Calls'
<1> SUFFICES ASSUME TypeOK, Calls, [Next]_vars PROVE Calls'
  OBVIOUS
<1> DEFINE n == call.name
<1>1. NamesKept /\ NamesKept'
  BY NextNames DEF Calls
<1>2. /\ call \in Call /\ \A m \in DOMAIN stmts : stmts[m] \in Stmt
      /\ told \in [Rows -> {"unused", "asked", "true", "false"}]
      /\ call.step # "none" => n \in DOMAIN stmts
      /\ DropsOwn /\ AskedFirst
  BY <1>1 DEF TypeOK, LayerTypeOK, NamesKept, Calls
<1>3. ASSUME call'.step = "none" PROVE DropsOwn' /\ AskedFirst'
  BY <1>3 DEF DropsOwn, AskedFirst
<1>4. ASSUME Return, UNCHANGED <<stmts, session>>, call.step \in {"prepare", "execute"}
      PROVE  DropsOwn' /\ AskedFirst'
  <2>1. CASE call.own
    <3>1. call'.step = "destroy" /\ call'.name = n /\ call'.own = call.own
      BY <1>2, <1>4, <2>1 DEF Return, Call
    <3>2. ~ Stale(call.name) /\ ~ (stmts'[call.name].prepared /\ stmts'[call.name].session # session')
      BY <1>2, <1>4, <2>1 DEF DropsOwn, Stale
    <3> QED  BY <3>1, <3>2 DEF DropsOwn, AskedFirst, Stale
  <2>2. CASE ~ call.own
    BY <1>3, <1>4, <2>2 DEF Return, NoCall
  <2> QED  BY <2>1, <2>2
<1>5. ASSUME NEW r, NEW sql, Create(sql, r), CallOf(StmtName, TRUE, FALSE),
             sql = "write" => told'[r] = "asked"
      PROVE  DropsOwn' /\ AskedFirst'
  <2>1. /\ call'.step = "prepare" /\ call'.name = StmtName /\ StmtName \in DOMAIN stmts'
        /\ stmts'[StmtName] = NewStmt(sql, r)
    BY <1>5 DEF CallOf, Create
  <2>2. /\ stmts'[call'.name].prepared = FALSE /\ stmts'[call'.name].sql = sql
        /\ stmts'[call'.name].row = r
    BY <2>1 DEF NewStmt
  <2> QED  BY <1>5, <2>1, <2>2 DEF DropsOwn, AskedFirst, Stale
<1>6. ASSUME NEW r \in Rows, Write(r) PROVE DropsOwn' /\ AskedFirst'
  <2>1. told'[r] = "asked"
    BY <1>2, <1>6 DEF Write, Ask
  <2> QED  BY <1>5, <1>6, <2>1 DEF Write
<1>7. ASSUME Find PROVE DropsOwn' /\ AskedFirst'
  BY <1>5, <1>7 DEF Find
<1>8. ASSUME \/ ProgramCreates \/ (\E m \in DOMAIN stmts : \E r : ProgramBinds(m, r))
             \/ ProgramOpens \/ ProgramCloses
             \/ \E o \in Objects :
                   ProgramBegins(o) \/ ProgramCommits(o) \/ ProgramRollsBack(o) \/ ProgramReleases(o)
      PROVE  DropsOwn' /\ AskedFirst'
  <2>1. call'.step = "none"
    BY <1>8 DEF ProgramCreates, ProgramBinds, ProgramOpens, Open, ProgramCloses, Close, Free,
       ProgramBegins, Begin, ProgramCommits, Commit, ProgramRollsBack, Rollback,
       ProgramReleases, Release, Transacts
  <2> QED  BY <1>3, <2>1
<1>9. ASSUME NEW m \in DOMAIN stmts, ProgramExecutes(m) PROVE DropsOwn' /\ AskedFirst'
  <2>1. /\ call'.name = m /\ call'.own = FALSE /\ call'.step \in {"prepare", "execute"}
        /\ stmts' = stmts
    BY <1>9 DEF ProgramExecutes, CallOf
  <2>2. stmts[m].row # NoRow => told'[stmts[m].row] = "asked"
    BY <1>2, <1>9 DEF ProgramExecutes, Ask, Stmt
  <2> QED  BY <2>1, <2>2 DEF DropsOwn, AskedFirst
<1>10. ASSUME NEW m \in DOMAIN stmts, ProgramDrops(m) PROVE DropsOwn' /\ AskedFirst'
  <2>1. /\ call'.name = m /\ call'.own = FALSE /\ call'.step = "destroy"
        /\ UNCHANGED <<stmts, session>>
    BY <1>10 DEF ProgramDrops
  <2>2. ASSUME NEW o \in Objects, life'[o].state = "open", Stale(m) PROVE life'[o].stale
    <3>1. life'[o] = [life[o] EXCEPT !.stale = @ \/ (IsOpen(o) /\ Stale(m))] /\ life[o] \in Life
      BY <1>10, <2>2 DEF ProgramDrops, TypeOK
    <3>2. IsOpen(o)
      BY <2>2, <3>1 DEF IsOpen, Life
    <3> QED  BY <2>2, <3>1, <3>2 DEF Life
  <2>3. Stale(m)' => Stale(m)
    BY <2>1 DEF Stale
  <2> QED  BY <2>1, <2>2, <2>3 DEF DropsOwn, AskedFirst, Stale, IsOpen
<1>11. ASSUME StatementPrepared PROVE DropsOwn' /\ AskedFirst'
  <2>1. /\ call'.name = n /\ call'.step = "execute" /\ n \in DOMAIN stmts
        /\ told' = told /\ session' = session
    BY <1>2, <1>11 DEF StatementPrepared, Prepare, history, Call
  <2>2. /\ stmts'[n].sql = stmts[n].sql /\ stmts'[n].row = stmts[n].row
        /\ stmts'[n].session = session
    <3>1. stmts' = [stmts EXCEPT ![n] = [[@ EXCEPT !.prepared = TRUE] EXCEPT !.session = session]]
      BY <1>11 DEF StatementPrepared, Prepare
    <3>2. stmts[n] \in Stmt
      BY <1>2, <2>1
    <3> HIDE DEF n
    <3> QED  BY <2>1, <3>1, <3>2 DEF Stmt
  <2>3. call.step = "prepare"
    BY <1>11 DEF StatementPrepared, Prepare
  <2>4. AskedFirst'
    BY <1>2, <2>1, <2>2, <2>3 DEF AskedFirst
  <2>5. DropsOwn'
    BY <2>1, <2>2 DEF DropsOwn, Stale
  <2> QED  BY <2>4, <2>5
<1>12. ASSUME PrepareFails PROVE DropsOwn' /\ AskedFirst'
  BY <1>4, <1>12 DEF PrepareFails, Prepare
<1>13. ASSUME WriteExecuted \/ QueryExecuted PROVE DropsOwn' /\ AskedFirst'
  BY <1>4, <1>13 DEF WriteExecuted, QueryExecuted, Execute
<1>14. ASSUME StatementDestroyed PROVE DropsOwn' /\ AskedFirst'
  <2>1. call'.step = "none"
    BY <1>14 DEF StatementDestroyed, Destroy, NoCall
  <2> QED  BY <1>3, <2>1
<1>15. ASSUME UNCHANGED vars PROVE DropsOwn' /\ AskedFirst'
  BY <1>2, <1>15 DEF vars, DropsOwn, AskedFirst, Stale, IsOpen
<1> QED
  <2>1. DropsOwn' /\ AskedFirst'
    BY <1>6, <1>7, <1>8, <1>9, <1>10, <1>11, <1>12, <1>13, <1>14, <1>15 DEF Next
  <2> QED  BY <1>1, <2>1 DEF Calls

-----------------------------------------------------------------------------
(* Answers.                                                                *)

LEMMA InitTruth == Init => Calls /\ Truth
<1> SUFFICES ASSUME Init PROVE Calls /\ Truth
  OBVIOUS
<1>1. Calls
  BY DEF Init, LayerInit, NoCall, Calls, NamesKept, DropsOwn, AskedFirst
<1>2. \A o \in Objects : life[o].rows = {} /\ life[o].state = "none"
  BY NewLifeTyped DEF Init
<1>3. Truth
  BY <1>2 DEF Init, LayerInit, ServerInit, Truth, WritesOnce, Owned, Speaks, IsOpen, WriteReport
<1> QED  BY <1>1, <1>3

\* Steps that write nothing and end no transaction object.
LEMMA QuietStep ==
  ASSUME Truth, store' = store, txn' = txn, lost \subseteq lost', within \subseteq within',
         \A r \in Rows : \/ told'[r] = told[r]
                         \/ told[r] \in {"unused", "asked"} /\ told'[r] \in {"asked", "false"},
         \A o \in Objects : life[o].rows \subseteq Rows,
         \A o \in Objects :
            \/ life'[o].state # "open" /\ life'[o].rows = {}
            \/ /\ life'[o].state = life[o].state /\ life'[o].rows = life[o].rows
               /\ life[o].failed => life'[o].failed
               /\ life[o].stale => life'[o].stale,
         \/ UNCHANGED server
         \/ ~ alive' /\ status' = "idle" /\ pending' = {}
         \/ status' = "idle" /\ pending' = {} /\ \A o \in Objects : life'[o].state # "open"
         \/ /\ alive /\ status # "idle" /\ status' = "aborted" /\ pending' = {}
            /\ \/ status = "aborted"
               \/ \A o \in Objects : life'[o].state = "open" => life'[o].failed \/ life'[o].stale
  PROVE  Truth'
<1>1. pending' \subseteq pending /\ store' \cup pending' \subseteq store \cup pending
  BY DEF server, Truth, Owned
<1>2. \A o \in Objects : life'[o].rows \subseteq life[o].rows
  OBVIOUS
<1>3. WritesOnce'
  <2>1. ASSUME NEW r \in Rows, told'[r] \in {"unused", "asked"} PROVE r \notin store' \cup pending'
    BY <1>1, <2>1 DEF Truth, WritesOnce
  <2>2. ASSUME NEW o \in Objects, NEW r \in life'[o].rows PROVE told'[r] = "true"
    BY <1>2, <2>2 DEF Truth, WritesOnce
  <2> QED  BY <2>1, <2>2 DEF WritesOnce
<1>4. Owned'
  BY DEF Truth, Owned, server, Active
<1>5. Speaks'
  <2> SUFFICES ASSUME NEW o \in Objects
               PROVE  /\ life'[o].state # "open" => life'[o].rows = {}
                      /\ life'[o].state = "open" =>
                           /\ txn'[o] = "active"
                           /\ alive' => status' # "idle"
                           /\ alive' /\ ~ life'[o].failed /\ ~ life'[o].stale
                                => life'[o].rows \subseteq pending'
                           /\ life'[o].rows \cap store' = {}
    BY DEF Speaks, IsOpen
  <2>1. /\ life[o].state # "open" => life[o].rows = {}
        /\ life[o].state = "open" =>
             /\ txn[o] = "active"
             /\ alive => status # "idle"
             /\ alive /\ ~ life[o].failed /\ ~ life[o].stale => life[o].rows \subseteq pending
             /\ life[o].rows \cap store = {}
    BY DEF Truth, Speaks, IsOpen
  <2>2. CASE life'[o].state # "open"
    BY <2>1, <2>2
  <2>3. CASE life'[o].state = "open"
    <3>1. /\ life[o].state = "open" /\ life'[o].rows = life[o].rows
          /\ life[o].failed => life'[o].failed
          /\ life[o].stale => life'[o].stale
      BY <2>3
    <3>2. status = "aborted" => pending = {}
      BY DEF Truth, Owned
    <3>3. \/ UNCHANGED server
          \/ ~ alive' /\ status' = "idle" /\ pending' = {}
          \/ /\ alive /\ status' = "aborted" /\ pending' = {}
             /\ status = "aborted" \/ life'[o].failed \/ life'[o].stale
      BY <2>3
    <3> QED  BY <2>1, <2>3, <3>1, <3>2, <3>3 DEF server
  <2> QED  BY <2>2, <2>3
<1>6. WriteReport'
  BY <1>1 DEF Truth, WritesOnce, WriteReport
<1> QED  BY <1>3, <1>4, <1>5, <1>6 DEF Truth

\* A call that fails, and whose write, if it was one, did not happen.
LEMMA FailureTold ==
  ASSUME TypeOK, Calls, Truth, Tell(FALSE), call.step \in {"prepare", "execute"}, txn' = txn, store' = store,
         \/ UNCHANGED server
         \/ ~ alive' /\ status' = "idle" /\ pending' = {}
         \/ alive /\ status # "idle" /\ status' = "aborted" /\ pending' = {}
  PROVE  Truth'
<1> DEFINE r == stmts[call.name].row
           w == IsWrite
<1>1. call.name \in DOMAIN stmts /\ r \in Rows \cup {NoRow}
  BY DEF Calls, NamesKept, TypeOK, LayerTypeOK, Stmt
<1>2. /\ told \in [Rows -> {"unused", "asked", "true", "false"}] /\ life \in [Objects -> Life]
  BY DEF TypeOK
<1>3. \A o \in Objects : life[o].rows \subseteq Rows
  BY <1>2, LifeTyped
<1>4. w => told[r] = "asked"
  BY DEF Calls, AskedFirst, IsWrite
<1>5. lost \subseteq lost' /\ within \subseteq within' /\ (~ w => told' = told)
      /\ (w => told' = [told EXCEPT ![r] = "false"])
  BY DEF Tell
<1>6. \A q \in Rows : \/ told'[q] = told[q]
                      \/ told[q] \in {"unused", "asked"} /\ told'[q] \in {"asked", "false"}
  BY <1>1, <1>2, <1>4, <1>5
<1>7. ASSUME NEW o \in Objects
      PROVE  /\ life'[o].state = life[o].state /\ life'[o].rows = life[o].rows
             /\ life[o].failed => life'[o].failed
             /\ life[o].stale => life'[o].stale
             /\ life'[o].state = "open" => life'[o].failed
  <2>1. /\ ~ IsOpen(o) => life'[o] = life[o]
        /\ IsOpen(o) => /\ life'[o].state = life[o].state
                        /\ life'[o].stale = life[o].stale
                        /\ life'[o].failed
        /\ life'[o].rows = life[o].rows
    BY <1>2, TellLife DEF Tell, IsWrite
  <2> QED  BY <2>1 DEF IsOpen
<1> HIDE DEF w, r
<1> QED  BY <1>3, <1>5, <1>6, <1>7, QuietStep

\* A write that is answered.
LEMMA SuccessTold ==
  ASSUME TypeOK, Calls, Truth, Tell(TRUE), call.step = "execute", txn' = txn,
         stmts[call.name].sql = "write", stmts[call.name].row # NoRow, alive, alive',
         \/ /\ status = "idle" /\ store' = store \cup {stmts[call.name].row}
            /\ status' = "idle" /\ pending' = {}
         \/ /\ status = "open" /\ pending' = pending \cup {stmts[call.name].row}
            /\ status' = "open" /\ store' = store
  PROVE  Truth'
<1> DEFINE r == stmts[call.name].row
<1>1. call.name \in DOMAIN stmts /\ r \in Rows
  BY DEF Calls, NamesKept, TypeOK, LayerTypeOK, Stmt
<1>2. /\ told \in [Rows -> {"unused", "asked", "true", "false"}] /\ life \in [Objects -> Life]
  BY DEF TypeOK
<1>3. told[r] = "asked" /\ r \notin store \cup pending
  BY <1>1 DEF Calls, AskedFirst, Truth, WritesOnce
<1>4. ASSUME NEW o \in Objects
      PROVE  /\ ~ IsOpen(o) => life'[o] = life[o]
             /\ IsOpen(o) => /\ life'[o].state = life[o].state
                             /\ life'[o].stale = life[o].stale /\ (life'[o].failed <=> life[o].failed)
                             /\ life'[o].rows = life[o].rows \cup {r}
  BY <1>2, TellLife DEF Tell, IsWrite
<1>5. /\ told' = [told EXCEPT ![r] = "true"]
      /\ within' = IF Active # {} THEN within \cup {r} ELSE within
      /\ lost' = lost
  BY DEF Tell, IsWrite
<1>6. /\ told'[r] = "true" /\ \A q \in Rows : q # r => told'[q] = told[q]
  BY <1>1, <1>2, <1>5
<1> HIDE DEF r
<1>7. WritesOnce'
  <2>1. ASSUME NEW q \in Rows, told'[q] \in {"unused", "asked"} PROVE q \notin store' \cup pending'
    BY <1>6, <2>1 DEF Truth, WritesOnce, r
  <2>2. ASSUME NEW o \in Objects, NEW q \in life'[o].rows PROVE told'[q] = "true"
    <3>1. q = r \/ q \in life[o].rows
      BY <1>4, <2>2
    <3>2. q \in life[o].rows => q \in Rows /\ told[q] = "true"
      BY <1>2, LifeTyped DEF Truth, WritesOnce
    <3> QED  BY <1>6, <3>1, <3>2
  <2> QED  BY <2>1, <2>2 DEF WritesOnce
<1>8. Owned'
  BY DEF Truth, Owned, Active
<1>9. Speaks'
  <2> SUFFICES ASSUME NEW o \in Objects
               PROVE  /\ life'[o].state # "open" => life'[o].rows = {}
                      /\ life'[o].state = "open" =>
                           /\ txn'[o] = "active"
                           /\ alive' => status' # "idle"
                           /\ alive' /\ ~ life'[o].failed /\ ~ life'[o].stale
                                => life'[o].rows \subseteq pending'
                           /\ life'[o].rows \cap store' = {}
    BY DEF Speaks, IsOpen
  <2>1. CASE ~ IsOpen(o)
    BY <1>4, <2>1 DEF Truth, Speaks, IsOpen
  <2>2. CASE IsOpen(o)
    <3>1. /\ txn[o] = "active" /\ status # "idle" /\ life[o].rows \cap store = {}
          /\ ~ life[o].failed /\ ~ life[o].stale => life[o].rows \subseteq pending
      BY <2>2 DEF Truth, Speaks
    <3>2. /\ status = "open" /\ pending' = pending \cup {r} /\ status' = "open" /\ store' = store
      BY <3>1 DEF r
    <3> QED  BY <1>3, <1>4, <2>2, <3>1, <3>2 DEF IsOpen
  <2> QED  BY <2>1, <2>2
<1>10. WriteReport'
  <2> SUFFICES ASSUME NEW q \in Rows
               PROVE  /\ told'[q] = "true" /\ q \notin within' => q \in store'
                      /\ told'[q] = "false" /\ q \in store' \cup pending' => q \in lost'
    BY DEF WriteReport
  <2>1. CASE q = r
    <3>1. status = "open" => r \in within'
      BY <1>5 DEF Truth, Owned
    <3> QED  BY <1>6, <2>1, <3>1 DEF r
  <2>2. CASE q # r
    <3>1. /\ told[q] = "true" /\ q \notin within => q \in store
          /\ told[q] = "false" /\ q \in store \cup pending => q \in lost
      BY DEF Truth, WriteReport
    <3> QED  BY <1>5, <1>6, <2>2, <3>1 DEF r
  <2> QED  BY <2>1, <2>2
<1> QED  BY <1>7, <1>8, <1>9, <1>10 DEF Truth

\* A write outside a transaction whose answer is lost.
LEMMA LossTold ==
  ASSUME TypeOK, Calls, Truth, Tell(FALSE), call.step = "execute", txn' = txn,
         stmts[call.name].sql = "write", stmts[call.name].row # NoRow, alive, ~ alive',
         status = "idle", store' = store \cup {stmts[call.name].row}, status' = "idle", pending' = {}
  PROVE  Truth'
<1> DEFINE r == stmts[call.name].row
<1>1. call.name \in DOMAIN stmts /\ r \in Rows
  BY DEF Calls, NamesKept, TypeOK, LayerTypeOK, Stmt
<1>2. /\ told \in [Rows -> {"unused", "asked", "true", "false"}] /\ life \in [Objects -> Life]
  BY DEF TypeOK
<1>3. told[r] = "asked" /\ r \notin store \cup pending
  BY <1>1 DEF Calls, AskedFirst, Truth, WritesOnce
<1>4. \A o \in Objects : ~ IsOpen(o) /\ life[o].rows = {}
  BY DEF Truth, Speaks
<1>5. \A o \in Objects : life'[o] = life[o]
  BY <1>2, <1>4, TellLife DEF Tell
<1>6. told' = [told EXCEPT ![r] = "false"] /\ lost' = lost \cup {r} /\ within' = within
  BY DEF Tell, IsWrite
<1>7. WritesOnce'
  BY <1>1, <1>2, <1>3, <1>4, <1>5, <1>6 DEF Truth, WritesOnce
<1>8. Owned' /\ Speaks'
  BY <1>4, <1>5 DEF Owned, Speaks, IsOpen
<1>9. WriteReport'
  BY <1>1, <1>2, <1>3, <1>6 DEF Truth, WriteReport
<1> QED  BY <1>7, <1>8, <1>9 DEF Truth

LEMMA ProgramTruth ==
  ASSUME TypeOK, Calls, Truth,
         \/ \E r \in Rows : Write(r)
         \/ Find \/ ProgramCreates
         \/ \E n \in DOMAIN stmts :
               \/ \E r \in Rows \cup {NoRow} : ProgramBinds(n, r)
               \/ ProgramExecutes(n) \/ ProgramDrops(n)
         \/ ProgramOpens \/ ProgramCloses \/ UNCHANGED vars
  PROVE  Truth'
<1>1. /\ told \in [Rows -> {"unused", "asked", "true", "false"}] /\ life \in [Objects -> Life]
      /\ \A o \in Objects : life[o].rows \subseteq Rows
      /\ \A n \in DOMAIN stmts : stmts[n].row \in Rows \cup {NoRow}
  <2>1. life \in [Objects -> Life]
    BY DEF TypeOK
  <2>2. \A o \in Objects : life[o].rows \subseteq Rows
    BY <2>1, LifeTyped
  <2> QED  BY <2>1, <2>2 DEF TypeOK, LayerTypeOK, Stmt
<1>2. ASSUME NEW q \in Rows, Ask(q)
      PROVE  \A r \in Rows : \/ told'[r] = told[r]
                             \/ told[r] \in {"unused", "asked"} /\ told'[r] \in {"asked", "false"}
  BY <1>1, <1>2 DEF Ask
<1>3. ASSUME NEW r \in Rows, Write(r) PROVE Truth'
  BY <1>1, <1>2, <1>3, QuietStep DEF Write, Create, server
<1>4. CASE Find \/ ProgramCreates \/ UNCHANGED vars
  BY <1>1, <1>4, QuietStep DEF Find, ProgramCreates, history, server, vars
<1>5. ASSUME NEW n \in DOMAIN stmts, NEW r, ProgramBinds(n, r) PROVE Truth'
  BY <1>1, <1>5, QuietStep DEF ProgramBinds, history, server
<1>6. ASSUME NEW n \in DOMAIN stmts, ProgramExecutes(n) PROVE Truth'
  <2>1. \A r \in Rows : \/ told'[r] = told[r]
                        \/ told[r] \in {"unused", "asked"} /\ told'[r] \in {"asked", "false"}
    BY <1>1, <1>2, <1>6 DEF ProgramExecutes
  <2> QED  BY <1>1, <1>6, <2>1, QuietStep DEF ProgramExecutes, server
<1>7. ASSUME NEW n \in DOMAIN stmts, ProgramDrops(n) PROVE Truth'
  <2>1. ASSUME NEW o \in Objects
        PROVE  /\ life'[o].state = life[o].state /\ life'[o].rows = life[o].rows
               /\ life'[o].failed = life[o].failed
               /\ life[o].stale => life'[o].stale
    <3> DEFINE t == life[o].stale \/ (IsOpen(o) /\ Stale(n))
    <3>1. life'[o] = [life[o] EXCEPT !.stale = t] /\ (life[o].stale => t)
      BY <1>7 DEF ProgramDrops
    <3> HIDE DEF t
    <3> QED  BY <1>1, <3>1 DEF Life
  <2> QED  BY <1>1, <1>7, <2>1, QuietStep DEF ProgramDrops, server
<1>8. CASE ProgramOpens
  <2>1. store' = store /\ txn' = txn /\ status' = "idle" /\ pending' = {} /\ UNCHANGED <<told, lost, within>>
    BY <1>8 DEF ProgramOpens, Open, SessionIs
  <2>2. ASSUME NEW o \in Objects PROVE life'[o].state # "open" /\ life'[o].rows = {}
    <3>1. life'[o] = Overtaken(o)
      BY <1>8 DEF ProgramOpens
    <3>2. CASE o \in Active
      <4>1. NewLife("overtaken").state = "overtaken" /\ NewLife("overtaken").rows = {}
        BY NewLifeTyped
      <4> QED  BY <3>1, <3>2, <4>1 DEF Overtaken
    <3>3. CASE o \notin Active
      <4>1. ~ IsOpen(o) /\ life[o].rows = {}
        BY <3>3 DEF Truth, Speaks, Active
      <4> QED  BY <3>1, <3>3, <4>1 DEF Overtaken, IsOpen
    <3> QED  BY <3>2, <3>3
  <2> QED  BY <1>1, <2>1, <2>2, QuietStep
<1>9. CASE ProgramCloses
  <2>1. /\ store' = store /\ txn' = txn /\ status' = "idle" /\ pending' = {} /\ ~ alive'
        /\ UNCHANGED <<told, lost, within, life>>
    BY <1>9 DEF ProgramCloses, Close, SessionIs, history
  <2> QED  BY <1>1, <2>1, QuietStep
<1> QED  BY <1>3, <1>4, <1>5, <1>6, <1>7, <1>8, <1>9

LEMMA CallTruth ==
  ASSUME TypeOK, Calls, Truth,
         \/ StatementPrepared \/ PrepareFails \/ WriteExecuted \/ QueryExecuted
         \/ StatementDestroyed
  PROVE  Truth'
<1> DEFINE n == call.name
           r == stmts[call.name].row
<1>1. /\ told \in [Rows -> {"unused", "asked", "true", "false"}] /\ life \in [Objects -> Life]
      /\ \A o \in Objects : life[o].rows \subseteq Rows
      /\ call.step # "none" => n \in DOMAIN stmts
  <2>1. life \in [Objects -> Life]
    BY DEF TypeOK
  <2>2. \A o \in Objects : life[o].rows \subseteq Rows
    BY <2>1, LifeTyped
  <2> QED  BY <2>1, <2>2 DEF TypeOK, Calls, NamesKept
<1>2. ASSUME NEW reply, Unheard(reply) \/ Refused(reply)
      PROVE  /\ reply = "error" /\ store' = store
             /\ \/ UNCHANGED server
                \/ ~ alive' /\ status' = "idle" /\ pending' = {}
                \/ alive /\ status # "idle" /\ status' = "aborted" /\ pending' = {}
  BY <1>2 DEF Unheard, Refused, SessionIs, server
<1>3. CASE StatementPrepared
  <2>1. UNCHANGED server /\ txn' = txn /\ UNCHANGED history
    BY <1>2, <1>3 DEF StatementPrepared, Prepare, ServerPrepare
  <2> QED  BY <1>1, <2>1, QuietStep DEF server, history
<1>4. CASE PrepareFails
  <2>1. /\ Tell(FALSE) /\ txn' = txn /\ call.step = "prepare"
        /\ Unheard("error") \/ Refused("error")
    BY <1>4 DEF PrepareFails, Prepare, ServerPrepare
  <2> QED  BY <1>2, <2>1, FailureTold
<1>5. CASE WriteExecuted
  <2>1. PICK reply \in Replies, count \in 0 .. 1 : Execute(reply, count) /\ Tell(Positive(count))
    BY <1>5 DEF WriteExecuted
  <2>2. /\ call.step = "execute" /\ txn' = txn /\ stmts[n].sql = "write"
        /\ \/ (Unheard(reply) \/ Refused(reply)) /\ count = 0
           \/ /\ r # NoRow
              /\ \/ MatchNone(reply) /\ count = 0
                 \/ ExecInsert(r, reply) /\ count = IF reply = "commandOk" THEN 1 ELSE 0
    BY <1>5, <2>1 DEF WriteExecuted, Execute, ServerExecute
  <2>3. /\ count = 0 => Tell(FALSE)
        /\ count = 1 => Tell(TRUE)
    <3>1. ASSUME count = 0 PROVE Tell(FALSE)
      <4>1. Positive(count) = FALSE
        BY <3>1 DEF Positive
      <4> QED  BY <2>1, <4>1
    <3>2. ASSUME count = 1 PROVE Tell(TRUE)
      <4>1. Positive(count) = TRUE
        BY <3>2 DEF Positive
      <4> QED  BY <2>1, <4>1
    <3> QED  BY <3>1, <3>2
  <2>4. CASE Unheard(reply) \/ Refused(reply)
    <3>1. count = 0
      BY <1>2, <2>2, <2>4
    <3> QED  BY <1>2, <2>2, <2>3, <2>4, <3>1, FailureTold
  <2>5. CASE MatchNone(reply) /\ count = 0
    BY <2>2, <2>3, <2>5, FailureTold DEF MatchNone, server
  <2>6. CASE /\ r # NoRow /\ ExecInsert(r, reply) /\ ~ Unheard(reply) /\ ~ Refused(reply)
             /\ count = IF reply = "commandOk" THEN 1 ELSE 0
    <3>1. CASE reply = "commandOk"
      <4>1. Tell(TRUE)
        BY <2>3, <2>6, <3>1
      <4>2. /\ alive /\ alive'
            /\ \/ status = "idle" /\ store' = store \cup {r} /\ status' = "idle" /\ pending' = {}
               \/ /\ status = "open" /\ pending' = pending \cup {r}
                  /\ status' = "open" /\ store' = store
        BY <2>6, <3>1 DEF ExecInsert, SessionIs
      <4> QED  BY <2>2, <2>6, <4>1, <4>2, SuccessTold
    <3>2. CASE reply # "commandOk"
      <4>1. Tell(FALSE)
        BY <2>3, <2>6, <3>2
      <4>2. /\ alive /\ ~ alive' /\ status = "idle" /\ store' = store \cup {r}
            /\ status' = "idle" /\ pending' = {}
        BY <2>6, <3>2 DEF ExecInsert, SessionIs
      <4> QED  BY <2>2, <2>6, <4>1, <4>2, LossTold
    <3> QED  BY <3>1, <3>2
  <2> QED  BY <2>2, <2>4, <2>5, <2>6
<1>6. CASE QueryExecuted
  <2>1. PICK reply \in {"tuplesOk", "error"} : Execute(reply, 0) /\ Tell(reply = "tuplesOk")
    BY <1>6 DEF QueryExecuted
  <2>2. /\ call.step = "execute" /\ txn' = txn /\ stmts[n].sql = "query"
        /\ \/ Unheard(reply) \/ Refused(reply)
           \/ reply = "tuplesOk" /\ UNCHANGED server
    BY <1>6, <2>1 DEF QueryExecuted, Execute, ServerExecute, ExecSelect
  <2>3. CASE reply = "error"
    <3>1. Tell(FALSE)
      <4>1. (reply = "tuplesOk") <=> FALSE
        BY <2>3
      <4> QED  BY <2>1, <4>1
    <3> QED  BY <1>2, <2>2, <2>3, <3>1, FailureTold
  <2>4. CASE reply = "tuplesOk"
    <3>1. Tell(TRUE)
      <4>1. (reply = "tuplesOk") <=> TRUE
        BY <2>4
      <4> QED  BY <2>1, <4>1
    <3>2. UNCHANGED server
      BY <1>2, <2>2, <2>4
    <3>3. stmts[call.name].sql # "write"
      BY <2>2
    <3>4. lost \subseteq lost' /\ within \subseteq within' /\ told' = told
      BY <3>1, <3>3 DEF Tell, IsWrite
    <3>5. ASSUME NEW o \in Objects
          PROVE  /\ life'[o].state = life[o].state /\ life'[o].rows = life[o].rows
                 /\ life'[o].failed <=> life[o].failed
                 /\ life'[o].stale <=> life[o].stale
      <4>1. /\ ~ IsOpen(o) => life'[o] = life[o]
            /\ IsOpen(o) => /\ life'[o].state = life[o].state
                            /\ life'[o].stale = life[o].stale /\ (life'[o].failed <=> life[o].failed)
            /\ life'[o].rows = life[o].rows
        BY <1>1, <3>1, <3>3, TellLife DEF Tell, IsWrite
      <4> QED  BY <4>1
    <3> QED  BY <1>1, <2>2, <3>2, <3>4, <3>5, QuietStep DEF server
  <2> QED  BY <2>3, <2>4
<1>7. CASE StatementDestroyed
  <2>1. /\ call.step = "destroy" /\ txn' = txn /\ UNCHANGED history
        /\ \/ UNCHANGED server
           \/ /\ stmts[n].prepared
              /\ \E reply : \/ Unheard(reply)
                            \/ (n \notin names \/ status = "aborted") /\ Refused(reply)
    BY <1>7 DEF StatementDestroyed, Destroy, ServerDeallocate
  <2>2. CASE UNCHANGED server
    BY <1>1, <2>1, <2>2, QuietStep DEF server, history
  <2>3. ASSUME NEW reply, Unheard(reply) PROVE Truth'
    BY <1>1, <2>1, <2>3, QuietStep DEF Unheard, SessionIs, history
  <2>4. ASSUME NEW reply, n \notin names \/ status = "aborted", Refused(reply), stmts[n].prepared,
               ~ UNCHANGED server
        PROVE  Truth'
    <3>1. alive /\ status # "idle" /\ status' = "aborted" /\ pending' = {} /\ store' = store
      BY <2>4 DEF Refused, SessionIs
    <3>2. CASE status = "aborted"
      BY <1>1, <2>1, <3>1, <3>2, QuietStep DEF history
    <3>3. CASE n \notin names
      <4>1. Stale(n)
        BY <1>1, <2>1, <2>4, <3>1, <3>3 DEF Calls, NamesKept, Stale
      <4>2. \A o \in Objects : life[o].state = "open" => life[o].stale
        BY <2>1, <4>1 DEF Calls, DropsOwn, IsOpen
      <4>3. life' = life
        BY <2>1 DEF history
      <4> QED  BY <1>1, <2>1, <3>1, <4>2, <4>3, QuietStep DEF history
    <3> QED  BY <2>4, <3>2, <3>3
  <2> QED  BY <2>1, <2>2, <2>3, <2>4
<1> QED  BY <1>3, <1>4, <1>5, <1>6, <1>7

\* An object begins: BEGIN opens the transaction, joins it, or is refused in a
\* failed one.
LEMMA BeginTruth ==
  ASSUME TypeOK, Truth, NEW o \in Objects, ProgramBegins(o)
  PROVE  Truth'
<1>1. /\ UNCHANGED <<store, told, lost, within>> /\ pending' \subseteq pending
      /\ status' # "open" => pending' = {}
      /\ alive' => /\ alive /\ status' # "idle" /\ (status # "idle" => pending' = pending)
  BY DEF ProgramBegins, Begin, ExecBegin, Unheard, SessionIs, server, Truth, Owned
<1>2. /\ txn'[o] = "active" /\ \A p \in Objects : p # o => txn'[p] = txn[p]
      /\ life'[o].state = "open" /\ life'[o].rows = {}
      /\ \A p \in Objects : p # o => life'[p] = life[p]
  <2>1. NewLife("open").state = "open" /\ NewLife("open").rows = {}
    BY NewLifeTyped
  <2>2. /\ txn \in [Objects -> {"none", "active", "inactive"}] /\ life \in [Objects -> Life]
        /\ txn' = [txn EXCEPT ![o] = "active"] /\ life' = [life EXCEPT ![o] = NewLife("open")]
    BY DEF TypeOK, LayerTypeOK, ProgramBegins, Begin, Is
  <2> QED  BY <2>1, <2>2
<1>3. WritesOnce'
  <2>1. ASSUME NEW p \in Objects, NEW r \in life'[p].rows PROVE told'[r] = "true"
    BY <1>1, <1>2, <2>1 DEF Truth, WritesOnce
  <2> QED  BY <1>1, <2>1 DEF Truth, WritesOnce
<1>4. Owned'
  BY <1>1, <1>2 DEF Owned, Active
<1>5. Speaks'
  <2> SUFFICES ASSUME NEW p \in Objects
               PROVE  /\ life'[p].state # "open" => life'[p].rows = {}
                      /\ life'[p].state = "open" =>
                           /\ txn'[p] = "active"
                           /\ alive' => status' # "idle"
                           /\ alive' /\ ~ life'[p].failed /\ ~ life'[p].stale
                                => life'[p].rows \subseteq pending'
                           /\ life'[p].rows \cap store' = {}
    BY DEF Speaks, IsOpen
  <2>1. CASE p = o
    BY <1>1, <1>2, <2>1
  <2>2. CASE p # o
    <3>1. /\ life[p].state # "open" => life[p].rows = {}
          /\ life[p].state = "open" =>
               /\ txn[p] = "active"
               /\ alive => status # "idle"
               /\ alive /\ ~ life[p].failed /\ ~ life[p].stale => life[p].rows \subseteq pending
               /\ life[p].rows \cap store = {}
      BY DEF Truth, Speaks, IsOpen
    <3> QED  BY <1>1, <1>2, <2>2, <3>1
  <2> QED  BY <2>1, <2>2
<1>6. WriteReport'
  BY <1>1 DEF Truth, WriteReport
<1> QED  BY <1>3, <1>4, <1>5, <1>6 DEF Truth

\* An active object ends, and the transaction of all of them.
LEMMA EndTruth ==
  ASSUME TypeOK, Truth, NEW o \in Objects, txn[o] = "active", txn'[o] # "active",
         NEW state \in {"committed", "notCommitted", "rolledBack"}, Ends(o, state),
         UNCHANGED <<told, lost, within>>, status' = "idle", pending' = {},
         store' = store \/ store' = store \cup pending
  PROVE  Truth'
<1>1. /\ store \subseteq store' /\ store' \cup pending' \subseteq store \cup pending
  OBVIOUS
<1>2. ASSUME NEW p \in Objects PROVE life'[p].state # "open" /\ life'[p].rows = {}
  <2>1. CASE p = o
    BY <2>1, NewLifeTyped DEF Ends
  <2>2. CASE p # o
    <3>1. life'[p] = Overtaken(p)
      BY <2>2 DEF Ends
    <3>2. CASE p \in Active
      <4>1. NewLife("overtaken").state = "overtaken" /\ NewLife("overtaken").rows = {}
        BY NewLifeTyped
      <4> QED  BY <3>1, <3>2, <4>1 DEF Overtaken
    <3>3. CASE p \notin Active
      <4>1. ~ IsOpen(p) /\ life[p].rows = {}
        BY <3>3 DEF Truth, Speaks, Active
      <4> QED  BY <3>1, <3>3, <4>1 DEF Overtaken, IsOpen
    <3> QED  BY <3>2, <3>3
  <2> QED  BY <2>1, <2>2
<1>3. WritesOnce'
  BY <1>1, <1>2 DEF Truth, WritesOnce
<1>4. Owned' /\ Speaks'
  BY <1>2 DEF Owned, Speaks, IsOpen
<1>5. WriteReport'
  BY <1>1 DEF Truth, WriteReport
<1> QED  BY <1>3, <1>4, <1>5 DEF Truth

LEMMA TransactionTruth ==
  ASSUME TypeOK, Truth, NEW o \in Objects,
         ProgramBegins(o) \/ ProgramCommits(o) \/ ProgramRollsBack(o) \/ ProgramReleases(o)
  PROVE  Truth'
<1>1. ASSUME NEW state \in {"none", "active", "inactive"}, Is(o, state)
      PROVE  txn'[o] = state /\ \A p \in Objects : p # o => txn'[p] = txn[p]
  BY <1>1 DEF Is, TypeOK, LayerTypeOK
<1>2. ASSUME NEW reply, ExecRollback(reply) PROVE status' = "idle" /\ pending' = {} /\ store' = store
  BY <1>2 DEF ExecRollback, Unheard, SessionIs
<1>3. CASE ProgramCommits(o)
  <2>1. PICK reply \in Replies :
             /\ Commit(o, reply)
             /\ Ends(o, IF Succeeds(reply) THEN "committed" ELSE "notCommitted")
    BY <1>3 DEF ProgramCommits
  <2>2. /\ txn[o] = "active" /\ txn'[o] # "active" /\ status' = "idle" /\ pending' = {}
        /\ store' = store \/ store' = store \cup pending
    BY <1>1, <2>1 DEF Commit, ExecCommit, Unheard, SessionIs
  <2>3. UNCHANGED <<told, lost, within>>
    BY <1>3 DEF ProgramCommits
  <2> QED  BY <2>1, <2>2, <2>3, EndTruth
<1>4. CASE ProgramRollsBack(o)
  BY <1>1, <1>2, <1>4, EndTruth DEF ProgramRollsBack, Rollback
<1>5. CASE ProgramReleases(o)
  <2>1. CASE txn[o] = "active"
    BY <1>1, <1>2, <1>5, <2>1, EndTruth DEF ProgramReleases, Release, Active
  <2>2. CASE txn[o] # "active"
    <3>1. UNCHANGED server /\ txn'[o] = "none" /\ \A p \in Objects : p # o => txn'[p] = txn[p]
      BY <1>1, <1>5, <2>2 DEF ProgramReleases, Release
    <3>2. UNCHANGED <<told, lost, within, life>>
      BY <1>5, <2>2 DEF ProgramReleases, Active
    <3>3. Active' = Active
      BY <2>2, <3>1 DEF Active
    <3>4. Owned' /\ WritesOnce' /\ WriteReport'
      BY <3>1, <3>2, <3>3 DEF Truth, Owned, WritesOnce, WriteReport, server
    <3>5. Speaks'
      <4>1. ~ IsOpen(o)
        BY <2>2 DEF Truth, Speaks
      <4> QED  BY <3>1, <3>2, <4>1 DEF Truth, Speaks, IsOpen, server
    <3> QED  BY <3>4, <3>5 DEF Truth
  <2> QED  BY <2>1, <2>2
<1> QED  BY <1>3, <1>4, <1>5, BeginTruth

LEMMA NextTruth == TypeOK /\ Calls /\ Truth /\ [Next]_vars => Truth'
<1> SUFFICES ASSUME TypeOK, Calls, Truth, [Next]_vars PROVE Truth'
  OBVIOUS
<1> QED  BY ProgramTruth, CallTruth, TransactionTruth DEF Next

-----------------------------------------------------------------------------
(* Theorems.                                                               *)

LEMMA Invariant == Spec => [](TypeOK /\ Calls /\ Truth)
<1>1. Init => TypeOK /\ Calls /\ Truth
  BY InitTyped, InitTruth
<1>2. TypeOK /\ Calls /\ Truth /\ [Next]_vars => (TypeOK /\ Calls /\ Truth)'
  <2>1. Calls => NamesKept
    BY DEF Calls
  <2> QED  BY <2>1, NextTyped, NextCalls, NextTruth
<1> QED  BY <1>1, <1>2, PTL DEF Spec

\* The server is in a transaction only while an object is active, whatever BEGIN,
\* COMMIT and ROLLBACK answer: an object is inactive after any of the last two
\* and its constructor and destructor ignore the answer (PostgreSQLConnection.cpp:271-294).
THEOREM NeverOrphan == Spec => []NoOrphanTransaction
<1>1. TypeOK /\ Calls /\ Truth => NoOrphanTransaction
  BY DEF Truth, Owned, NoOrphanTransaction
<1> QED  BY <1>1, Invariant, PTL

\* The names a connection gives to its statements are those its session knows
\* them by, across lost and opened connections (PostgreSQLConnection.cpp:71-81,
\* 144-155).
THEOREM NamesAgree == Spec => []NamesMatch
<1>1. TypeOK /\ Calls /\ Truth => NamesMatch
  <2> SUFFICES ASSUME TypeOK, Calls PROVE NamesMatch
    OBVIOUS
  <2>1. call.step = "prepare" => call.name \notin names
    BY DEF Calls, NamesKept
  <2> QED  BY <2>1 DEF Calls, NamesKept, NamesMatch
<1> QED  BY <1>1, Invariant, PTL

\* insert(), update() and the deletes return true of permanent writes only, and
\* false of writes without effect, but for those under which the connection was
\* lost (Repository.h:99, PostgreSQLConnection.cpp:200).
THEOREM WritesReported == Spec => []WriteReport
<1>1. TypeOK /\ Calls /\ Truth => WriteReport
  BY DEF Truth
<1> QED  BY <1>1, Invariant, PTL

\* An open object ends only by a call on it.
LEMMA OpenEnds ==
  ASSUME TypeOK, Calls, Truth, [Next]_vars, NEW o \in Objects, IsOpen(o),
         life'[o].state \in {"committed", "rolledBack"}
  PROVE  \/ life'[o].state = "committed" /\ \E reply : Commit(o, reply) /\ Succeeds(reply)
         \/ life'[o].state = "rolledBack" /\ \E reply : ExecRollback(reply)
<1>1. life \in [Objects -> Life] /\ life[o].state = "open"
  BY DEF TypeOK, IsOpen
<1>2. /\ Overtaken(o) = life[o] \/ Overtaken(o).state = "overtaken"
      /\ \A state \in {"committed", "notCommitted", "rolledBack"} : NewLife(state).state = state
  BY NewLifeTyped DEF Overtaken
<1>3. ASSUME NEW p \in Objects, NEW state \in {"committed", "notCommitted", "rolledBack"}, Ends(p, state)
      PROVE  p = o /\ life'[o].state = state
  BY <1>1, <1>2, <1>3 DEF Ends
<1>4. life' # life
  BY <1>1
<1>5. ASSUME NEW done \in BOOLEAN, Tell(done) PROVE FALSE
  BY <1>1, <1>5, TellLife DEF Tell
<1>6. ~ (PrepareFails \/ WriteExecuted \/ QueryExecuted)
  <2>1. ASSUME PrepareFails PROVE FALSE
    BY <1>5, <2>1 DEF PrepareFails
  <2>2. ASSUME WriteExecuted PROVE FALSE
    <3>1. PICK count \in 0 .. 1 : Tell(Positive(count))
      BY <2>2 DEF WriteExecuted
    <3>2. Positive(count) \in BOOLEAN
      BY DEF Positive
    <3> QED  BY <1>5, <3>1, <3>2
  <2>3. ASSUME QueryExecuted PROVE FALSE
    <3>1. PICK reply \in {"tuplesOk", "error"} : Tell(reply = "tuplesOk")
      BY <2>3 DEF QueryExecuted
    <3>2. (reply = "tuplesOk") \in BOOLEAN
      OBVIOUS
    <3> QED  BY <1>5, <3>1, <3>2
  <2> QED  BY <2>1, <2>2, <2>3
<1>7. ~ ProgramOpens
  BY <1>1, <1>2 DEF ProgramOpens
<1>8. ASSUME NEW n \in DOMAIN stmts, ProgramDrops(n) PROVE FALSE
  <2>1. life'[o] = [life[o] EXCEPT !.stale = @ \/ (IsOpen(o) /\ Stale(n))]
    BY <1>8 DEF ProgramDrops
  <2> QED  BY <1>1, <2>1 DEF Life
<1>9. PICK p \in Objects :
         ProgramBegins(p) \/ ProgramCommits(p) \/ ProgramRollsBack(p) \/ ProgramReleases(p)
  BY <1>4, <1>6, <1>7, <1>8
     DEF Next, Write, Find, ProgramCreates, ProgramBinds, ProgramExecutes, ProgramCloses,
         StatementPrepared, StatementDestroyed, history, vars
<1>10. ~ ProgramBegins(p)
  <2>1. ASSUME ProgramBegins(p) PROVE FALSE
    <3>1. life' = [life EXCEPT ![p] = NewLife("open")] /\ NewLife("open").state = "open"
      BY <2>1, NewLifeTyped DEF ProgramBegins
    <3> QED  BY <1>1, <3>1
  <2> QED  BY <2>1
<1>11. CASE ProgramCommits(p)
  <2>1. PICK reply \in Replies :
             /\ Commit(p, reply)
             /\ Ends(p, IF Succeeds(reply) THEN "committed" ELSE "notCommitted")
    BY <1>11 DEF ProgramCommits
  <2>2. p = o /\ life'[o].state = IF Succeeds(reply) THEN "committed" ELSE "notCommitted"
    BY <1>3, <2>1
  <2> QED  BY <2>1, <2>2
<1>12. CASE ProgramRollsBack(p)
  BY <1>3, <1>12 DEF ProgramRollsBack, Rollback
<1>13. CASE ProgramReleases(p)
  <2>1. p \in Active
    BY <1>4, <1>13 DEF ProgramReleases
  <2> QED  BY <1>3, <1>13, <2>1 DEF ProgramReleases, Release, Active
<1> QED  BY <1>9, <1>10, <1>11, <1>12, <1>13

\* commit() that returned true made permanent what was written in the life of its
\* object, however many objects there are, under the conditions the property names
\* (ITransaction.h:15, PostgreSQLConnection.cpp:283).
THEOREM CommitsReported == Spec => CommitReport
<1> DEFINE Reported ==
      \A o \in Objects :
         EndsOpen(o, "committed") /\ ~ life[o].failed /\ ~ life[o].stale => life[o].rows \subseteq store'
<1>1. TypeOK /\ Calls /\ Truth /\ [Next]_vars => [Reported]_vars
  <2> SUFFICES ASSUME TypeOK, Calls, Truth, [Next]_vars, NEW o \in Objects,
                      EndsOpen(o, "committed"), ~ life[o].failed, ~ life[o].stale
               PROVE  life[o].rows \subseteq store'
    OBVIOUS
  <2>1. IsOpen(o) /\ life'[o].state = "committed"
    BY DEF EndsOpen
  <2>2. PICK reply : Commit(o, reply) /\ Succeeds(reply)
    BY <2>1, OpenEnds
  <2>3. /\ alive /\ status = "open" => store' = store \cup pending
        /\ alive
    BY <2>2 DEF Commit, ExecCommit, Unheard, Succeeds
  <2>4. life[o].rows \subseteq pending /\ (status # "open" => pending = {})
    BY <2>1, <2>3 DEF Truth, Speaks, Owned
  <2> QED  BY <2>3, <2>4
<1> QED  BY <1>1, Invariant, PTL DEF Spec, CommitReport

\* What ends an object otherwise than by commit() undoes what was written in its
\* life, unless the connection was opened, or another object ended, in between
\* (ARCHITECTURE.md:123, PostgreSQLConnection.cpp:277-294).
THEOREM RolledBack == Spec => AutoRollback
<1> DEFINE Undone ==
      \A o \in Objects : EndsOpen(o, "rolledBack") => life[o].rows \cap (store' \cup pending') = {}
<1>1. TypeOK /\ Calls /\ Truth /\ [Next]_vars => [Undone]_vars
  <2> SUFFICES ASSUME TypeOK, Calls, Truth, [Next]_vars, NEW o \in Objects, EndsOpen(o, "rolledBack")
               PROVE  life[o].rows \cap (store' \cup pending') = {}
    OBVIOUS
  <2>1. IsOpen(o) /\ life'[o].state = "rolledBack"
    BY DEF EndsOpen
  <2>2. PICK reply : ExecRollback(reply)
    BY <2>1, OpenEnds
  <2>3. store' = store /\ pending' = {}
    BY <2>2 DEF ExecRollback, Unheard, SessionIs
  <2> QED  BY <2>1, <2>3 DEF Truth, Speaks
<1> QED  BY <1>1, Invariant, PTL DEF Spec, AutoRollback

\* Only a destructor takes a statement away.
LEMMA StatementsStay ==
  ASSUME TypeOK, NamesKept, [Next]_vars, ~ StatementDestroyed
  PROVE  DOMAIN stmts \subseteq DOMAIN stmts'
<1>1. ASSUME NEW sql, NEW row, Create(sql, row) PROVE DOMAIN stmts \subseteq DOMAIN stmts'
  BY <1>1 DEF Create
<1>2. CASE \/ \E r \in Rows : Write(r)
           \/ Find \/ ProgramCreates
  BY <1>1, <1>2 DEF Write, Find, ProgramCreates
<1>3. ASSUME NEW n \in DOMAIN stmts, NEW r \in Rows \cup {NoRow}, ProgramBinds(n, r)
      PROVE  DOMAIN stmts \subseteq DOMAIN stmts'
  BY <1>3 DEF ProgramBinds, Bind
<1>4. ASSUME NEW reply, Prepare(reply) PROVE DOMAIN stmts \subseteq DOMAIN stmts'
  BY <1>4 DEF Prepare
<1>5. CASE StatementPrepared \/ PrepareFails
  BY <1>4, <1>5 DEF StatementPrepared, PrepareFails
<1>6. CASE WriteExecuted \/ QueryExecuted
  BY <1>6 DEF WriteExecuted, QueryExecuted, Execute
<1>7. CASE \/ \E n \in DOMAIN stmts : ProgramExecutes(n) \/ ProgramDrops(n)
           \/ ProgramOpens \/ ProgramCloses
  BY <1>7 DEF ProgramExecutes, ProgramDrops, ProgramOpens, Open, ProgramCloses, Close
<1>8. CASE \E o \in Objects :
              ProgramBegins(o) \/ ProgramCommits(o) \/ ProgramRollsBack(o) \/ ProgramReleases(o)
  BY <1>8 DEF ProgramBegins, Begin, ProgramCommits, Commit, ProgramRollsBack, Rollback,
     ProgramReleases, Release, Transacts
<1>9. CASE UNCHANGED vars
  BY <1>9 DEF vars
<1> QED  BY <1>2, <1>3, <1>5, <1>6, <1>7, <1>8, <1>9 DEF Next

\* The session forgets a statement with its object, however DEALLOCATE ends, but
\* for an object destroyed in a transaction that had failed, whose name the session
\* keeps (PostgreSQLConnection.cpp:76-81).
THEOREM NamesGone == Spec => NamesReleased
<1> DEFINE Released ==
      \A n \in DOMAIN stmts \ DOMAIN stmts' : n \in names' => status = "aborted"
<1>1. ASSUME TypeOK, NamesKept, StatementDestroyed PROVE Released
  <2> DEFINE c == call.name
  <2>1. DOMAIN stmts' = DOMAIN stmts \ {c}
    BY <1>1 DEF StatementDestroyed, Destroy, Forget
  <2>2. CASE ~ stmts[c].prepared
    <3>1. c \notin names /\ names' = names
      BY <1>1, <2>2 DEF StatementDestroyed, Destroy, NamesKept
    <3> QED  BY <2>1, <3>1
  <2>3. CASE stmts[c].prepared
    <3>1. PICK reply \in Replies : ServerDeallocate(c, reply)
      BY <1>1, <2>3 DEF StatementDestroyed, Destroy
    <3>2. c \in names' => status = "aborted"
      BY <3>1 DEF ServerDeallocate, Unheard, SessionIs, KnownAfter
    <3> QED  BY <2>1, <3>2
  <2> QED  BY <2>2, <2>3
<1>2. TypeOK /\ Calls /\ Truth /\ [Next]_vars => [Released]_vars
  <2> SUFFICES ASSUME TypeOK, Calls, [Next]_vars PROVE Released
    OBVIOUS
  <2>1. CASE StatementDestroyed
    BY <1>1, <2>1 DEF Calls
  <2>2. CASE ~ StatementDestroyed
    BY <2>2, StatementsStay DEF Calls
  <2> QED  BY <2>1, <2>2
<1> QED  BY <1>2, Invariant, PTL DEF Spec, NamesReleased
=============================================================================
