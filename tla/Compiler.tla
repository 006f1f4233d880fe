------------------------------- MODULE Compiler -------------------------------
(***************************************************************************)
(* The compiler from the tree of a query to SQL                              *)
(* (internal/logstore/sqlite/compile.go), with what SQLite makes of that SQL, *)
(* compared with what an expression means for a message.                    *)
(***************************************************************************)
EXTENDS Integers, Sequences

CONSTANTS
  Levels,    \* the trees that are compiled, by their height
  Messages,  \* the messages they are evaluated on
  Columns,   \* fields that are columns of the table: source, stream, ...
  NoValue,   \* a field the message does not have
  Open       \* the bound "*" of a range

VARIABLE expr   \* the tree compiled

Exprs    == UNION {Levels[n] : n \in DOMAIN Levels}
Below(n) == UNION {Levels[k] : k \in 1..(n - 1)}

CompilerTypeOK == expr = [op |-> "all"] \/ expr \in Exprs

\* A message has a body, a set of words, and fields.  A value is a number or a
\* text; Msg.fields[f] = NoValue where the message lacks f.  A column is never
\* NULL: a message without a source has "" there.
IsText(v) == v.kind = "text"
Text(s)   == [kind |-> "text", v |-> s]
Num(n)    == [kind |-> "num", v |-> n]
NULL      == [kind |-> "null", v |-> 0]

ValueOf(m, f) ==
  IF m.fields[f] # NoValue THEN m.fields[f]
  ELSE IF f \in Columns THEN Text(0) ELSE NULL

\* The operands of a tree are in lower levels.
TreeOK(e, below) ==
  /\ e.op \in {"all", "and", "or", "not", "term", "eq", "exists", "cmp", "range"}
  /\ e.op \in {"and", "or"} => {e.l, e.r} \subseteq below
  /\ e.op = "not" => e.e \in below
  /\ e.op = "cmp" => e.rel \in {">", "<", ">=", "<="}

\* A message says of each field of e whether it has it.  A text is not empty, and
\* what is compared in a field that is no column is a number.
FieldsOK(e, m) ==
  e.op \in {"exists", "cmp", "range"} \/ (e.op = "eq" /\ e.field # "message") =>
    /\ e.field \in DOMAIN m.fields
    /\ LET v == m.fields[e.field]
       IN v # NoValue =>
            /\ v.kind \in {"num", "text"} /\ v # Text(0)
            /\ e.op \in {"cmp", "range"} /\ e.field \notin Columns => v.kind = "num"

ASSUME CompilerAssumption ==
  /\ Len(Levels) \in Nat /\ DOMAIN Levels = 1..Len(Levels)
  /\ \A n \in DOMAIN Levels : \A e \in Levels[n] :
       TreeOK(e, Below(n)) /\ \A m \in Messages : FieldsOK(e, m)

-----------------------------------------------------------------------------
(* The compiler, together with SQLite: the three values a WHERE clause can     *)
(* have on a message.                                                         *)

True    == "true"
False   == "false"
Unknown == "null"

Sql(b) == IF b THEN True ELSE False

SqlNot(a) == CASE a = True -> False [] a = False -> True [] OTHER -> Unknown
SqlAnd(a, b) ==
  IF False \in {a, b} THEN False ELSE IF Unknown \in {a, b} THEN Unknown ELSE True
SqlOr(a, b) ==
  IF True \in {a, b} THEN True ELSE IF Unknown \in {a, b} THEN Unknown ELSE False

Holds(rel, a, b) ==
  CASE rel = ">" -> a > b [] rel = "<" -> a < b
    [] rel = ">=" -> a >= b [] rel = "<=" -> a <= b

\* CAST(json AS REAL): a text that is no number becomes 0.
Real(v) == IF v.kind = "num" THEN v.v ELSE 0

\* compare: columns compare as text, other fields as numbers; texts and numbers
\* are given with the same order here.
Compare(v, f, rel, bound) ==
  IF v = NULL THEN Unknown
  ELSE Sql(Holds(rel, IF f \in Columns THEN v.v ELSE Real(v), bound))

\* rangeExpr: a bound of "*" is open.
RangeSql_And(v, f, e) ==             \* mutant: > and < whatever the brackets
  SqlAnd(IF e.lo = Open THEN True ELSE Compare(v, f, ">", e.lo),
         IF e.hi = Open THEN True ELSE Compare(v, f, "<", e.hi))

RangeSql(v, f, e) ==
  SqlAnd(IF e.lo = Open THEN True ELSE Compare(v, f, IF e.incLo THEN ">=" ELSE ">", e.lo),
         IF e.hi = Open THEN True ELSE Compare(v, f, IF e.incHi THEN "<=" ELSE "<", e.hi))

\* walk: what the SQL of tree e yields on message m, given what that of its operands does.
Emit(e, m, sql) ==
  CASE e.op = "all"    -> True
    [] e.op = "and"    -> SqlAnd(sql[e.l], sql[e.r])
    [] e.op = "or"     -> SqlOr(sql[e.l], sql[e.r])
    [] e.op = "not"    -> SqlNot(sql[e.e])
    [] e.op = "term"   -> Sql(e.val \in m.words)
    [] e.op = "eq"     ->
         IF e.field = "message" THEN Sql(e.val \in m.words)
         ELSE IF ValueOf(m, e.field) = NULL THEN Unknown
         ELSE Sql(ValueOf(m, e.field) = e.val)
    [] e.op = "exists" ->
         IF e.field \in Columns THEN Sql(ValueOf(m, e.field) # Text(0))
         ELSE Sql(ValueOf(m, e.field) # NULL)
    [] e.op = "cmp"    -> Compare(ValueOf(m, e.field), e.field, e.rel, e.val)
    [] e.op = "range"  -> RangeSql(ValueOf(m, e.field), e.field, e)

Walk(m) == LET sql[e \in Exprs] == Emit(e, m, sql) IN sql

Selected(e, m) == Walk(m)[e] = True

-----------------------------------------------------------------------------
(* The reference.                                                           *)

\* What tree e means for a message that has every field it names, given what its
\* operands mean.
Meaning(e, m, holds) ==
  CASE e.op = "all"    -> TRUE
    [] e.op = "and"    -> holds[e.l] /\ holds[e.r]
    [] e.op = "or"     -> holds[e.l] \/ holds[e.r]
    [] e.op = "not"    -> ~holds[e.e]
    [] e.op = "term"   -> e.val \in m.words
    [] e.op = "eq"     -> IF e.field = "message" THEN e.val \in m.words
                          ELSE m.fields[e.field] = e.val
    [] e.op = "exists" -> m.fields[e.field] # NoValue
    [] e.op = "cmp"    -> Holds(e.rel, m.fields[e.field].v, e.val)
    [] e.op = "range"  ->
         /\ e.lo = Open \/ (IF e.incLo THEN m.fields[e.field].v >= e.lo
                           ELSE m.fields[e.field].v > e.lo)
         /\ e.hi = Open \/ (IF e.incHi THEN m.fields[e.field].v <= e.hi
                           ELSE m.fields[e.field].v < e.hi)

Means(m) == LET holds[e \in Exprs] == Meaning(e, m, holds) IN holds

\* The fields a tree names.
Named(e, names) ==
  CASE e.op \in {"and", "or"} -> names[e.l] \cup names[e.r]
    [] e.op = "not" -> names[e.e]
    [] e.op = "eq" -> {e.field} \ {"message"}
    [] e.op \in {"cmp", "range"} -> {e.field}
    [] OTHER -> {}

Names[e \in Exprs] == Named(e, Names)

-----------------------------------------------------------------------------
(* Properties.                                                              *)

\* On messages that have the fields an expression names, the compiled SQL selects
\* what the expression means; it is NULL, so that neither the expression nor its
\* negation selects the message, only where a field that is no column is missing
\* (compile.go:33-90).
SqlMeansTheQuery ==
  expr.op # "all" => \A m \in Messages :
    /\ (\A f \in Names[expr] : m.fields[f] # NoValue) =>
         (Selected(expr, m) <=> Means(m)[expr])
    /\ Walk(m)[expr] = Unknown => \E f \in Names[expr] \ Columns : m.fields[f] = NoValue

=============================================================================
