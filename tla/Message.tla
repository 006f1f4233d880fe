------------------------------- MODULE Message -------------------------------
(***************************************************************************)
(* A message as rules and streams see it (internal/schema), and the tests    *)
(* that conditions (internal/pipeline/dsl) and the rules of streams           *)
(* (internal/stream/model.go) make on one field of it.                       *)
(***************************************************************************)
EXTENDS Integers, Sequences, SequencesExt

CONSTANTS
  Numbers,     \* the numbers that texts parse as
  Accepts      \* for contains, regex and cidr, by pattern: the texts that pass; a
               \* pattern that is missing does not compile

-----------------------------------------------------------------------------
(* schema.Message: columns and a map.  A column is absent when it is empty.     *)

Columns == {"message", "source", "stream", "input_id"}
Column(f) == IF f = "body" THEN "message" ELSE f

StringField(m, f) ==
  IF Column(f) \in Columns THEN {m[Column(f)]} \ {""}
  ELSE IF f \in DOMAIN m.fields THEN {m.fields[f]} ELSE {}

NumberField(m, f) == {Numbers[v] : v \in StringField(m, f) \cap DOMAIN Numbers}

\* SetField, for every field in the domain of new: it never writes a column.
SetFields(m, new) == [m EXCEPT !.fields = new @@ @]

\* setField and removeField of action.go.
SetAny(m, f, v) ==
  IF Column(f) \in Columns \ {"input_id"} THEN [m EXCEPT ![Column(f)] = v]
  ELSE SetFields(m, f :> v)
RemoveField(m, f) == [m EXCEPT !.fields = [g \in DOMAIN @ \ {f} |-> m.fields[g]]]

-----------------------------------------------------------------------------
(* Tests.                                                                   *)

Compares(name, a, b) ==
  CASE name = "gt" -> a > b [] name = "lt" -> a < b [] name = "gte" -> a >= b
    [] name = "lte" -> a <= b

\* The functions of buildCond; the rules of a stream have other names for six of them.
Tests(m, name, f, want) ==
  CASE name = "has" -> StringField(m, f) # {}
    [] name = "eq"  -> want \in StringField(m, f)
    [] name = "neq" -> want \notin StringField(m, f)
    [] name \in {"contains", "regex", "cidr"} ->
         StringField(m, f) \cap Accepts[name][want] # {}
    [] name \in {"gt", "lt", "gte", "lte"} ->
         \E v \in NumberField(m, f) : Compares(name, v, Numbers[want])

=============================================================================
