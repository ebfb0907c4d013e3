------------------------------ MODULE TypeMaps ------------------------------
(***************************************************************************)
(* The type tables of the catalogs and the entity generators: the type a   *)
(* column gets from a field (hft::catalog::Catalog), and, for tables read  *)
(* from a database, the type a copy of the column gets (Catalog.cpp) and   *)
(* the type of the field that is to hold it (EntityGenerator.cpp).  The    *)
(* last two look for fragments of the type's name, the first rule wins.    *)
(***************************************************************************)
EXTENDS Integers, Sequences, FiniteSetsExt

(* hft::catalog::Catalog::getTypeSQL *)
GetTypeSQL(field, dialect) ==
  CASE field = "int32"  -> "int4"
    [] field = "int64"  -> "int8"
    [] field = "double" -> "double"
    [] field = "bool"   -> "bool"
    [] field = "string" -> IF dialect = "postgres" THEN "text" ELSE "varchar"

(***************************************************************************)
(* The type names a server reports, the fragments each contains, and the   *)
(* type it is.                                                             *)
(***************************************************************************)
Fragments ==
  [ integer   |-> {"int"},                  bigint   |-> {"int", "bigint"},
    interval  |-> {"int"},                  float8   |-> {"double"},
    charvary  |-> {"char", "character_varying", "varying"},
    boolean   |-> {"bool"},                 timestamp |-> {"timestamp", "time"},
    int       |-> {"int"},                  tinyint  |-> {"int", "tinyint"},
    float     |-> {"float"},                varchar  |-> {"varchar", "char", "var"},
    bit       |-> {"bit"},                  datetime |-> {"date", "datetime", "time"} ]

TypeNames(dialect) ==
  IF dialect = "postgres"
  THEN {"integer", "bigint", "interval", "float8", "charvary", "boolean", "timestamp"}
  ELSE {"int", "bigint", "tinyint", "float", "varchar", "bit", "datetime"}

(* float8 is "double precision", charvary "character varying(n)". *)
TypeOf ==
  [ integer |-> "int4",   int |-> "int4",       bigint |-> "int8",   tinyint |-> "int1",
    float8  |-> "double", float |-> "double",   charvary |-> "varchar", varchar |-> "varchar",
    boolean |-> "bool",   bit |-> "bool",       interval |-> "interval",
    timestamp |-> "timestamp",                  datetime |-> "datetime" ]

Rule(fragments, without, type) == [any |-> fragments, without |-> without, type |-> type]

FirstRule(rules, name, default) ==
  LET hits == {i \in DOMAIN rules : /\ rules[i].any \cap Fragments[name] # {}
                                    /\ rules[i].without \cap Fragments[name] = {}}
  IN  IF hits = {} THEN default ELSE rules[Min(hits)].type

PostgresRules ==
  << Rule({"int"}, {}, "int4"), Rule({"bigint"}, {}, "int8"), Rule({"smallint"}, {}, "int2"),
     Rule({"varchar", "character_varying"}, {}, "varchar"), Rule({"char"}, {"varying"}, "char"),
     Rule({"text"}, {}, "text"), Rule({"numeric", "decimal"}, {}, "numeric"),
     Rule({"real"}, {}, "real"), Rule({"double", "float"}, {}, "double"),
     Rule({"bool"}, {}, "bool"), Rule({"date"}, {}, "date"),
     Rule({"timestamp"}, {}, "timestamp"), Rule({"time"}, {}, "time") >>

SybaseRules ==
  << Rule({"int"}, {}, "int4"), Rule({"bigint"}, {}, "int8"), Rule({"smallint"}, {}, "int2"),
     Rule({"tinyint"}, {}, "int1"), Rule({"varchar"}, {}, "varchar"),
     Rule({"char"}, {"var"}, "char"), Rule({"text"}, {}, "text"),
     Rule({"numeric", "decimal"}, {}, "numeric"), Rule({"real"}, {}, "real"),
     Rule({"float", "double"}, {}, "double"), Rule({"bit"}, {}, "bool"),
     Rule({"date"}, {}, "date"), Rule({"datetime"}, {}, "datetime"), Rule({"time"}, {}, "time") >>

(* Catalog::mapTypeToSQL *)
MapTypeToSQL(name, dialect) ==
  FirstRule(IF dialect = "postgres" THEN PostgresRules ELSE SybaseRules, name, TypeOf[name])

(* EntityGenerator: mapSQLTypeToCpp *)
MapSQLTypeToCpp(name) ==
  FirstRule(<< Rule({"bigint"}, {}, "int64"), Rule({"smallint"}, {}, "int16"),
               Rule({"tinyint"}, {}, "int8"), Rule({"int"}, {}, "int32"),
               Rule({"float", "double", "real"}, {}, "double"),
               Rule({"numeric", "decimal"}, {}, "double"),
               Rule({"bool", "bit"}, {}, "bool"),
               Rule({"char", "text", "varchar"}, {}, "string"),
               Rule({"date", "time"}, {}, "string") >>, name, "string")

=============================================================================
