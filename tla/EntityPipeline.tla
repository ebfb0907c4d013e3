--------------------------- MODULE EntityPipeline ---------------------------
(***************************************************************************)
(* From the declaration of an entity to a row and back, in both APIs:      *)
(*   hft    hft::catalog::Catalog, hft::codegen, hft::orm::Repository over *)
(*          PostgreSQLStatement and SybaseStatement;                       *)
(*   plain  Catalog.cpp, EntityGenerator.cpp and repository/Repository.hpp *)
(*          over IDBConnection.                                            *)
(* One entity, one table, at most one row of it.  A content stands for the *)
(* values of its kind: "wide" needs 64 bits, "fine" more than six decimals,*)
(* "digits" is a text of digits, "long" one of over 255 characters, "ref"  *)
(* one that contains "$2"; "cut", "head" and "altered" are what is left of *)
(* a value that was shortened or changed on its way.                       *)
(***************************************************************************)
EXTENDS Substitution, TypeMaps, FiniteSets

CONSTANTS MaxCols,   \* columns of a table
          OwnRefs,   \* placeholders of a program's own Sybase statement
          MaxOwn     \* places of such a statement

ASSUME PipelineAssumption == MaxCols \in Nat /\ MaxOwn \in Nat /\ OwnRefs \subseteq Nat \ {0}

VARIABLES decl,      \* the entity: API, server, who makes the table, columns, and
                     \* whether its WHERE names the key, another column or none
          table,     \* "none", "there" or "refused" by the server
          row,       \* the columns of its row, the key left out
          sent,      \* the entity handed to insert, update or insertPS
          outcome,   \* what became of it: "taken", "refused", "missed" or another row's
          found,     \* what findById returned
          own        \* a program's own statement: text, parameters, builder, result

pipelineVars == <<decl, table, row, sent, outcome, found, own>>

NoRow == <<>>
NoDecl == [api |-> "none", dialect |-> "none", maker |-> "none", cols |-> <<>>, where |-> "key"]
NoSent == [via |-> "none", values |-> <<>>]
NoOwn == [builder |-> "none", text |-> <<>>, params |-> <<>>, result |-> <<>>]
Refused == "refused"

Contents(field) ==
  CASE field \in {"int32", "int16", "int8"} -> {"n"}
    [] field = "int64"  -> {"n", "wide"}
    [] field = "double" -> {"half", "fine"}
    [] field = "string" -> {"word", "digits", "long", "ref"}
    [] field = "bool"   -> {"true"}

(* A member nothing was assigned to. *)
Default(field) ==
  CASE field = "string" -> "empty" [] field = "bool" -> "false" [] OTHER -> "zero"

Entities(cols) ==
  {e \in [DOMAIN cols -> UNION {Contents(c.field) : c \in Range(cols)}] :
     \A i \in DOMAIN cols : e[i] \in Contents(cols[i].field)}

(***************************************************************************)
(* Declaration.  A column's sql type comes from the catalog or, when the   *)
(* program made the table, from its script.                                *)
(***************************************************************************)
HftColumn(field, key, dialect) ==
  [field |-> field, key |-> key, sql |-> GetTypeSQL(field, dialect), name |-> field]

PlainColumn(name, key, dialect, maker) ==
  [field |-> MapSQLTypeToCpp(name), key |-> key, name |-> name,
   sql |-> IF maker = "catalog" THEN MapTypeToSQL(name, dialect) ELSE TypeOf[name]]

NonKey(cols) == Select(cols, LAMBDA c : ~c.key)
Keys(cols) == Select(cols, LAMBDA c : c.key)
Fields == [i \in DOMAIN NonKey(decl.cols) |-> NonKey(decl.cols)[i].field]
Start == decl = NoDecl /\ own = NoOwn

(* registerEntity and generateCreateTableSQL of the hft catalog: a PRIMARY *)
(* KEY clause per key column, which a table may have once.  The column the *)
(* repository names, id, is a key, another member or no column at all.     *)
HftDeclare ==
  /\ Start
  /\ \E dialect \in {"postgres", "sybase"}, maker \in {"catalog", "script"}, n \in 1 .. MaxCols :
       \E fields \in [1 .. n -> {"int32", "int64", "double", "string", "bool"}],
          keys \in SUBSET (1 .. n), where \in {"key", "other", "none"} :
         /\ where = "other" => keys # 1 .. n
         /\ keys # {} /\ (maker = "script" => Cardinality(keys) = 1)
         /\ \A i \in keys : fields[i] \in {"int32", "int64"}
         /\ decl' = [api |-> "hft", dialect |-> dialect, maker |-> maker, where |-> where,
                     cols |-> [i \in 1 .. n |-> HftColumn(fields[i], i \in keys, dialect)]]
         /\ table' = IF Cardinality(keys) = 1 THEN "there" ELSE "refused"
  /\ UNCHANGED <<row, sent, outcome, found, own>>

(* The plain generators: the first column is taken for the key, and the    *)
(* CREATE TABLE of the catalog has no key clause at all.                   *)
PlainDeclare ==
  /\ Start
  /\ \E dialect \in {"postgres", "sybase"}, maker \in {"catalog", "script"}, n \in 1 .. MaxCols :
       \E names \in [1 .. n -> TypeNames(dialect)] :
         /\ names[1] \in {"integer", "int"}
         /\ decl' = [api |-> "plain", dialect |-> dialect, maker |-> maker, where |-> "key",
                     cols |-> [i \in 1 .. n |-> PlainColumn(names[i], i = 1, dialect, maker)]]
  /\ table' = "there"
  /\ UNCHANGED <<row, sent, outcome, found, own>>

(* Catalog::loadPostgres and loadSybase on a server with tables: asInt of   *)
(* the text "t" or "f" throws, and so does the query for the columns while  *)
(* the list of tables is being read on the same DBPROCESS.  A catalog with  *)
(* tables takes another driver behind IDBConnection: PlainDeclare.          *)
PlainLoad ==
  /\ Start
  /\ \E dialect \in {"postgres", "sybase"} :
       decl' = [NoDecl EXCEPT !.api = "load", !.dialect = dialect]
  /\ table' = "refused"
  /\ UNCHANGED <<row, sent, outcome, found, own>>

(* The program puts a row in by a script of its own. *)
ScriptRow ==
  /\ table = "there" /\ row = NoRow /\ sent = NoSent
  /\ NonKey(decl.cols) # <<>>
  /\ row' = [i \in DOMAIN NonKey(decl.cols) |-> Default(NonKey(decl.cols)[i].field)]
  /\ UNCHANGED <<decl, table, sent, outcome, found, own>>

(***************************************************************************)
(* What the servers make of what they are sent: the outcomes for one       *)
(* column, a content or Refused.                                           *)
(***************************************************************************)
(* PostgreSQL reads a parameter's text in the type of the column. *)
PgTakes(sql, content) ==
  CASE sql \in {"text", "varchar"} -> {content}
    [] sql = "int4"   -> IF content \in {"n", "digits"} THEN {content} ELSE {Refused}
    [] sql = "int8"   -> IF content \in {"n", "wide", "digits"} THEN {content} ELSE {Refused}
    [] sql = "double" -> IF content \in {"n", "wide", "digits", "half", "cut"}
                         THEN {content} ELSE {Refused}
    [] sql = "bool"   -> IF content \in {"n", "digits"} THEN {"true", Refused} ELSE {Refused}

(* Sybase reads the text at the column's place.  Nothing there, or a quoted *)
(* value inside a quoted value, is a syntax error; a placeholder nothing    *)
(* replaced is an amount of money; a varchar drops what does not fit.       *)
SybTakes(sql, place) ==
  LET first == place[1]
  IN  IF place = <<>> \/ (Len(place) > 1 /\ place[2].kind = "quoted") THEN {Refused}
      ELSE IF (first.kind = "quoted") # (sql = "varchar") THEN {Refused}
      ELSE CASE first.kind = "ref"   -> {"altered", Refused}
             [] sql = "varchar"      -> IF Len(place) > 1 /\ place[2].kind = "number"
                                        THEN {"altered"}
                                        ELSE {IF first.content = "long" THEN "head" ELSE first.content}
             [] sql = "bool"         -> {"true"}
             [] sql = "int4"         -> IF first.content = "wide" THEN {Refused}
                                        ELSE {IF first.content = "n" THEN "n" ELSE "altered"}
             [] sql = "int8"         -> {IF first.content \in {"n", "wide"} THEN first.content ELSE "altered"}
             [] sql = "double"       -> {first.content}

(* A value printed into the text of the statement; a type that takes no     *)
(* number refuses it, as does one the number does not fit.                  *)
PrintTakes(dialect, sql, place) ==
  LET content == place[1].content
  IN  CASE place[1].kind = "bare"   -> IF /\ dialect = "postgres" /\ sql = "varchar"
                                          /\ content = "digits"
                                       THEN {content} ELSE {Refused}
        [] place[1].kind = "char"   -> {Refused}
        [] place[1].kind = "bool"   -> IF dialect = "postgres" THEN {Refused} ELSE {content}
        [] place[1].kind = "number" -> IF \/ sql \in {"interval", "timestamp", "datetime", "date"}
                                          \/ sql = "int4" /\ content = "wide"
                                       THEN {Refused} ELSE {content}

(* The rows a statement can write; one with a Refused in it is not written. *)
Written(takes) ==
  {r \in [DOMAIN takes -> UNION Range(takes)] : \A i \in DOMAIN takes : r[i] \in takes[i]}

Unwritten(cols) == {[i \in DOMAIN cols |-> Refused]}

Write(via, e, rows) ==
  /\ sent' = [via |-> via, values |-> e] /\ found' = NoRow
  /\ \E r \in rows :
       IF Refused \in Range(r) THEN outcome' = "refused" /\ UNCHANGED row
       ELSE outcome' = "taken" /\ row' = r
  /\ UNCHANGED <<decl, table, own>>

(***************************************************************************)
(* hft::orm::Repository                                                    *)
(***************************************************************************)
(* Mutant: bindString leaves out the quotes. *)
Bind_Unquoted(field, v) == <<Lit("number", v)>>

(* bindInt, bindLong, bindDouble (std::to_string) and bindString *)
Bind(field, v) ==
  CASE field \in {"int32", "int64"} -> <<Lit("number", v)>>
    [] field = "double" -> <<Lit("number", IF v = "fine" THEN "cut" ELSE v)>>
    [] field = "string" -> IF v = "ref" THEN <<Lit("quoted", v), Ref(2)>> ELSE <<Lit("quoted", v)>>

(* bindEntityToStatement: no branch for bool, and the index stays. *)
BindEntity(cols, e) ==
  LET bound == Select([i \in DOMAIN cols |-> [field |-> cols[i].field, v |-> e[i]]],
                      LAMBDA b : b.field # "bool")
  IN  [i \in DOMAIN bound |-> Bind(bound[i].field, bound[i].v)]

(* Mutant: bindLong appends its value. *)
BindAt_Appends(params, n, value) == Append(params, value)

(* A parameter beyond the vector enlarges it; the ones between are empty. *)
BindAt(params, n, value) ==
  [i \in 1 .. n |-> IF i = n THEN value ELSE IF i \in DOMAIN params THEN params[i] ELSE <<>>]

PgText(value) == IF value = <<>> THEN "empty" ELSE value[1].content

At(text, i) == Select(text, LAMBDA t : t.col = i)

(* The key names another row or none: the entity's own stays as it is. *)
Miss(e, how) ==
  /\ sent' = [via |-> "update", values |-> e] /\ outcome' = how /\ found' = NoRow
  /\ UNCHANGED <<decl, table, row, own>>

(* The servers on n columns of an hft statement with these parameters;      *)
(* PostgreSQL wants as many parameters as there are placeholders, which are *)
(* numbered without a gap.                                                  *)
Taken(cols, placeholders, params) ==
  LET text == BuildSQL(Placeholders([i \in 1 .. placeholders |-> i]), params)
      takes == [i \in DOMAIN cols |->
                  IF decl.dialect = "postgres" THEN PgTakes(cols[i].sql, PgText(params[i]))
                  ELSE SybTakes(cols[i].sql, At(text, i))]
  IN  IF decl.dialect = "postgres" /\ Len(params) # placeholders
      THEN Unwritten(cols) ELSE Written(takes)

(* The inserts leave the key to the server.  A table the catalog made has   *)
(* none to give: its key column is NOT NULL and has no default.  Without    *)
(* another column the statement is "() VALUES ()", which is no SQL.         *)
NoKeyGiven(cols) == decl.maker = "catalog" \/ cols = <<>>

HftInsert ==
  /\ decl.api = "hft" /\ table = "there" /\ row = NoRow /\ sent = NoSent
  /\ LET cols == NonKey(decl.cols)
     IN  \E e \in Entities(cols) :
           Write("insert", e, IF NoKeyGiven(cols) THEN {<<Refused>>}
                              ELSE Taken(cols, Len(cols), BindEntity(cols, e)))

(* What becomes of the WHERE of update, which compares the column id with   *)
(* the key read through an int64_t pointer: the upper half of an int32 key  *)
(* is whatever lies behind it, so that number is the key or no int4 at all, *)
(* which PostgreSQL refuses and Sybase finds in no row.  A WHERE whose      *)
(* placeholder was not the one replaced compares with the placeholder's own *)
(* number; a column id of any other type may hold the number or refuse it.  *)
Selected(replaced) ==
  CASE decl.where = "none"  -> {"refused"}
    [] decl.where = "other" -> {"own", "other", "missed", "refused"}
    [] decl.where = "key"   ->
         IF ~replaced THEN {"other"}
         ELSE {"own"} \cup (IF Keys(decl.cols)[1].field # "int32" THEN {}
                            ELSE IF decl.dialect = "postgres" THEN {"refused"} ELSE {"missed"})

(* update: the key is the last parameter. *)
HftUpdate ==
  /\ decl.api = "hft" /\ row # NoRow /\ sent = NoSent
  /\ LET cols == NonKey(decl.cols)
         n    == Len(cols) + 1
     IN  \E e \in Entities(cols) :
           LET params   == BindAt(BindEntity(cols, e), n, <<Lit("number", "key")>>)
               where    == At(BuildSQL(Placeholders([i \in 1 .. n |-> i]), params), n)
               replaced == decl.dialect = "postgres" \/ where[1].content = "key"
           IN  \E how \in Selected(replaced) :
                 \/ how = "own" /\ Write("update", e, Taken(cols, n, params))
                 \/ how = "refused" /\ Write("update", e, Unwritten(cols))
                 \/ how \in {"missed", "other"} /\ Miss(e, how)

(* Mutant: getInt reads an int64_t. *)
HftFind_NarrowRead ==
  /\ decl.api = "hft" /\ decl.where # "none" /\ row # NoRow /\ found = NoRow
  /\ found' = [i \in DOMAIN row |-> LET field == NonKey(decl.cols)[i].field
                                    IN  CASE field = "bool"  -> Default(field)
                                          [] field = "int64" -> IF row[i] = "wide" THEN "altered" ELSE row[i]
                                          [] OTHER           -> row[i]]
  /\ UNCHANGED <<decl, table, row, sent, outcome, own>>

(* findById, when it finds the entity's own row, through mapResultToEntity, *)
(* which has no branch for bool.                                            *)
HftFind ==
  /\ decl.api = "hft" /\ decl.where # "none" /\ row # NoRow /\ found = NoRow
  /\ found' = [i \in DOMAIN row |-> LET field == NonKey(decl.cols)[i].field
                                    IN  IF field = "bool" THEN Default(field) ELSE row[i]]
  /\ UNCHANGED <<decl, table, row, sent, outcome, own>>

(***************************************************************************)
(* repository/Repository.hpp                                               *)
(***************************************************************************)
(* buildValuesList and buildUpdateSet: the member of a const entity is a   *)
(* const std::string, which the branch that quotes does not match; a       *)
(* double is printed with six digits, an int8_t as a character.            *)
ValueText(field, v) ==
  CASE field = "string" -> <<Lit("bare", v)>>
    [] field = "bool"   -> <<Lit("bool", v)>>
    [] field = "int8"   -> <<Lit("char", v)>>
    [] field = "double" -> <<Lit("number", IF v = "fine" THEN "cut" ELSE v)>>
    [] OTHER            -> <<Lit("number", v)>>

ValueTexts(cols, e) ==
  Written([i \in DOMAIN cols |->
             PrintTakes(decl.dialect, cols[i].sql, ValueText(cols[i].field, e[i]))])

PlainInsert ==
  /\ decl.api = "plain" /\ table = "there" /\ row = NoRow /\ sent = NoSent
  /\ LET cols == NonKey(decl.cols)
     IN  \E e \in Entities(cols) :
           Write("insert", e, IF NoKeyGiven(cols) THEN {<<Refused>>} ELSE ValueTexts(cols, e))

PlainUpdate ==
  /\ decl.api = "plain" /\ row # NoRow /\ sent = NoSent
  /\ \E e \in Entities(NonKey(decl.cols)) : Write("update", e, ValueTexts(NonKey(decl.cols), e))

(* bindParameter: the members are const here too, and no branch binds one. *)
BindParameters(cols, e) == <<>>

(* insertPS: PostgreSQL misses the parameters, Sybase gets the text.       *)
PlainInsertPS ==
  /\ decl.api = "plain" /\ table = "there" /\ row = NoRow /\ sent = NoSent
  /\ LET cols == NonKey(decl.cols)
     IN  \E e \in Entities(cols) :
           LET params   == BindParameters(cols, e)
               text     == BuildFinalSQL(Placeholders([i \in DOMAIN cols |-> i]), params)
               takes    == [i \in DOMAIN cols |-> SybTakes(cols[i].sql, At(text, i))]
               short    == decl.dialect = "postgres" /\ Len(params) # Len(cols)
           IN  Write("insertPS", e, IF short \/ NoKeyGiven(cols) THEN {<<Refused>>}
                                    ELSE Written(takes))

(* getById through mapColumn, which reads int, double and std::string; on   *)
(* Sybase it throws, as every executeQuery (module SybSession).             *)
PlainFind ==
  /\ decl.api = "plain" /\ decl.dialect = "postgres" /\ row # NoRow /\ found = NoRow
  /\ found' = [i \in DOMAIN row |-> LET field == NonKey(decl.cols)[i].field
                                    IN  IF field \in {"int32", "double", "string"}
                                        THEN row[i] ELSE Default(field)]
  /\ UNCHANGED <<decl, table, row, sent, outcome, own>>

(***************************************************************************)
(* A program's own statement through one of the two Sybase classes.        *)
(***************************************************************************)
(* Parameter i is a value of its own, perhaps with a "$n" in it. *)
OwnValue(i, n) == <<Lit("quoted", ToString(i))>> \o IF n = 0 THEN <<>> ELSE <<Ref(n)>>

OwnStatement ==
  /\ Start
  /\ \E size \in 1 .. MaxOwn, bound \in OwnRefs :
       \E ns \in [1 .. size -> OwnRefs], inside \in [1 .. Min({2, bound}) -> OwnRefs \cup {0}],
          builder \in {"BuildSQL", "BuildFinalSQL"} :
         LET text   == Placeholders(ns)
             params == [i \in 1 .. bound |-> OwnValue(i, IF i \in DOMAIN inside THEN inside[i] ELSE 0)]
         IN  own' = [builder |-> builder, text |-> text, params |-> params,
                     result |-> IF builder = "BuildSQL" THEN BuildSQL(text, params)
                                ELSE BuildFinalSQL(text, params)]
  /\ UNCHANGED <<decl, table, row, sent, outcome, found>>

PipelineInit ==
  /\ decl = NoDecl /\ table = "none" /\ row = NoRow /\ sent = NoSent
  /\ outcome = "none" /\ found = NoRow /\ own = NoOwn

PipelineNext ==
  \/ HftDeclare \/ PlainDeclare \/ PlainLoad \/ ScriptRow
  \/ HftInsert \/ HftUpdate \/ HftFind
  \/ PlainInsert \/ PlainUpdate \/ PlainInsertPS \/ PlainFind
  \/ OwnStatement

PipelineSpec == PipelineInit /\ [][PipelineNext]_pipelineVars

-----------------------------------------------------------------------------
(* Every variable stays in its domain. *)
PipelineTypeOK ==
  /\ decl.api \in {"none", "hft", "plain", "load"} /\ Len(decl.cols) <= MaxCols
  /\ table \in {"none", "there", "refused"}
  /\ row # NoRow => DOMAIN row = DOMAIN NonKey(decl.cols)
  /\ Refused \notin Range(row)
  /\ sent # NoSent => sent.values \in Entities(NonKey(decl.cols))
  /\ outcome \in {"none", "taken", "refused", "missed", "other"}
  /\ found # NoRow => DOMAIN found = DOMAIN row
  /\ own # NoOwn => decl = NoDecl

Has(field) == field \in Range(Fields)
RefFirst == decl.dialect = "sybase" /\ sent.values # <<>> /\ sent.values[1] = "ref"

(* A member survives the way to the server and back, unless it is a double *)
(* of more digits than are printed, or                                     *)
(*   hft    a bool or a member after one (bindEntityToStatement shifts the *)
(*          parameters), a text cut at 255 characters, or one of the first *)
(*          two when the first contains "$2" (Sybase);                     *)
(*   plain  of a type mapColumn does not read, or stored by insertPS.      *)
Survives(i) ==
  LET v == sent.values[i]
  IN  /\ v # "fine"
      /\ IF decl.api = "hft"
         THEN /\ \A j \in 1 .. i : Fields[j] # "bool"
              /\ ~(decl.dialect = "sybase" /\ v = "long") /\ ~(RefFirst /\ i <= 2)
         ELSE Fields[i] \in {"int32", "double", "string"} /\ sent.via # "insertPS"

(* An entity whose write the server took is stored, and found, with the    *)
(* values it had: no parameter lands in another column and none is changed *)
(* on the way, except for the members named above.  (And PipelineTypeOK.)   *)
RoundTrip ==
  /\ PipelineTypeOK
  /\ outcome = "taken" => \A i \in DOMAIN row : Survives(i) =>
       row[i] = sent.values[i] /\ (found # NoRow => found[i] = sent.values[i])

(* A statement is refused only for one of these reasons: a table that has  *)
(* no key to give, no column but the key, a member the statement builder   *)
(* does not bind or quote, a "$2" in the first text, and for an update of  *)
(* the hft repository a column id that is not the key or, on PostgreSQL, a *)
(* key of 32 bits, which is read as one of 64.                             *)
RefusedForCause ==
  outcome = "refused" =>
    \/ sent.via # "update" /\ (decl.maker = "catalog" \/ Fields = <<>>)
    \/ decl.api = "hft" /\ (Has("bool") \/ RefFirst)
    \/ /\ decl.api = "hft" /\ sent.via = "update"
       /\ decl.where = "key" => decl.dialect = "postgres" /\ Keys(decl.cols)[1].field = "int32"
    \/ decl.api = "plain" /\ \/ sent.via = "insertPS" \/ Has("string") \/ Has("int8")
                             \/ Has("bool") /\ decl.dialect = "postgres"
                             \/ \E i \in DOMAIN Fields : NonKey(decl.cols)[i].name \in {"bigint", "interval"}

(* update changes another row than its entity's only when the column id is *)
(* not the key, or on Sybase when the one column it sets is a text that    *)
(* contains "$2".                                                          *)
OwnRowOnly == outcome = "other" => decl.where = "other" \/ (RefFirst /\ Len(Fields) = 1)

(* The text sent is the statement with every placeholder replaced by its   *)
(* own parameter, when no value carries a reference to a later parameter,  *)
(* and the placeholders come in rising order (buildSQL, which replaces one *)
(* place) or are all below 10 (buildFinalSQL, which replaces every one).   *)
SubstitutionExact ==
  /\ own # NoOwn /\ NoLaterRef(own.params)
  /\ \/ own.builder = "BuildSQL" /\ InOrder(own.text)
     \/ own.builder = "BuildFinalSQL" /\ \A i \in DOMAIN own.text : own.text[i].n < 10
  => own.result = Intended(own.text, own.params)

=============================================================================
