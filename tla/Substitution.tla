---------------------------- MODULE Substitution ----------------------------
(***************************************************************************)
(* How the two Sybase statement classes put the bound values into the text *)
(* of a statement: SybaseStatement::buildSQL (src/db/SybaseConnection.cpp) *)
(* and SybPreparedStatement::buildFinalSQL.  Both replace the characters   *)
(* "$k" wherever they find them, so they see a "$2" inside a text value    *)
(* that was put in before, and "$1" is the beginning of "$10".             *)
(*                                                                         *)
(* A text is a sequence of tokens: a reference is the characters "$n", a   *)
(* literal is anything else.  col is the place of the statement a token    *)
(* stands at; what replaces a token stands at the same place.              *)
(***************************************************************************)
EXTENDS Integers, Sequences, SequencesExt

Ref(n) == [kind |-> "ref", n |-> n, content |-> "", col |-> 0]
Lit(form, content) == [kind |-> form, n |-> 0, content |-> content, col |-> 0]

(* The elements the test keeps, in order: SelectSeq, in a form that can be  *)
(* reasoned about.                                                         *)
Select(s, Keeps(_)) ==
  FlattenSeq([i \in DOMAIN s |-> IF Keeps(s[i]) THEN <<s[i]>> ELSE <<>>])

(* The placeholders of the statement, one per place. *)
Placeholders(ns) == [i \in DOMAIN ns |-> [Ref(ns[i]) EXCEPT !.col = i]]

(* "$k" is found at a reference to k and at the front of one to k0 .. k9. *)
Found(token, k) == token.kind = "ref" /\ (token.n = k \/ token.n \div 10 = k)

(* What stands at the token once "$k" there is replaced: the last digit of *)
(* the longer reference is left behind the value.                          *)
Replaced(token, k, value) ==
  LET at(t) == [t EXCEPT !.col = token.col]
      rest  == IF token.n = k THEN <<>> ELSE <<at(Lit("digit", ToString(token.n % 10)))>>
  IN  [j \in DOMAIN value |-> at(value[j])] \o rest

(* Mutant: rfind instead of find. *)
ReplaceFirst_Last(text, k, value) ==
  LET hits == {i \in DOMAIN text : Found(text[i], k)}
      at   == Max(hits)
  IN  IF hits = {} THEN text
      ELSE SubSeq(text, 1, at - 1) \o Replaced(text[at], k, value)
             \o SubSeq(text, at + 1, Len(text))

(* result.find(placeholder) and one replace. *)
ReplaceFirst(text, k, value) ==
  LET hits == {i \in DOMAIN text : Found(text[i], k)}
      at   == Min(hits)
  IN  IF hits = {} THEN text
      ELSE SubSeq(text, 1, at - 1) \o Replaced(text[at], k, value)
             \o SubSeq(text, at + 1, Len(text))

(* The loop that goes on behind each value it has put in. *)
ReplaceEvery(text, k, value) ==
  FlattenSeq([i \in DOMAIN text |->
                IF Found(text[i], k) THEN Replaced(text[i], k, value) ELSE <<text[i]>>])

(* SybaseStatement::buildSQL: the parameters in order, one place each. *)
BuildSQL(text, params) ==
  FoldLeftDomain(LAMBDA t, i : ReplaceFirst(t, i, params[i]), text, params)

(* SybPreparedStatement::buildFinalSQL: in order, every place. *)
BuildFinalSQL(text, params) ==
  FoldLeftDomain(LAMBDA t, i : ReplaceEvery(t, i, params[i]), text, params)

(* What the placeholders mean: each one its own parameter, all at once. *)
Intended(text, params) ==
  FlattenSeq([i \in DOMAIN text |->
                IF text[i].kind = "ref" /\ text[i].n \in DOMAIN params
                THEN Replaced(text[i], text[i].n, params[text[i].n]) ELSE <<text[i]>>])

(* No value carries the reference to a parameter that is put in after it. *)
NoLaterRef(params) ==
  \A i \in DOMAIN params : \A j \in (i + 1) .. Len(params) :
    \A t \in Range(params[i]) : ~Found(t, j)

(* Each placeholder once, in rising order, $10 only after $1: 1 .. n is so, *)
(* and those are the statements of the repositories.                        *)
InOrder(text) ==
  /\ \A i, j \in DOMAIN text : i < j => text[i].n < text[j].n
  /\ \A i \in DOMAIN text : text[i].n >= 10 => \E j \in 1 .. (i - 1) : text[j].n = text[i].n \div 10

=============================================================================
