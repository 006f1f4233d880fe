---------------------------- MODULE QueryLanguage ----------------------------
(***************************************************************************)
(* The search language: the recursive-descent parser of                     *)
(* internal/search/query, compared with the grammar its package comment      *)
(* gives.                                                                   *)
(*                                                                          *)
(* A query is a sequence of tokens, the text of a bare word being one of      *)
(* Words; quoting, which only changes the kind of a Term, is left out.        *)
(***************************************************************************)
EXTENDS Integers, Sequences

CONSTANTS
  Words,     \* bare words
  Queries    \* the token sequences that are parsed

VARIABLE tokens   \* the query parsed

QueryTypeOK == tokens = <<>> \/ tokens \in Queries

-----------------------------------------------------------------------------
(* The parser.  Every function returns the tree and the position after it, or  *)
(* Failed; a position beyond the tokens is at tEOF.                            *)

Failed == [ok |-> FALSE, tree |-> [op |-> "all"], pos |-> 0]
Got(t, p) == [ok |-> TRUE, tree |-> t, pos |-> p]

Peek(ts, p) == IF p <= Len(ts) THEN ts[p] ELSE "EOF"

RECURSIVE ParseOr(_, _), MoreOr(_, _), ParseAnd(_, _), MoreAnd(_, _), ParseUnary(_, _)

\* parseRange, after field and colon: [lo TO hi] or {lo TO hi}, or a mixture.
ParseRange(ts, p, field) ==
  LET lo == Peek(ts, p + 1)
      hi == Peek(ts, p + 3)
      close == Peek(ts, p + 4)
  IN IF /\ lo \in Words /\ Peek(ts, p + 2) = "TO" /\ hi \in Words
        /\ close \in {"]", "}"}
     THEN Got([op |-> "range", field |-> field, lo |-> lo, hi |-> hi,
               incLo |-> Peek(ts, p) = "[", incHi |-> close = "]"], p + 5)
     ELSE Failed

ParseFieldValue(ts, p, field) ==
  CASE Peek(ts, p) \in {"[", "{"} -> ParseRange(ts, p, field)
    [] Peek(ts, p) \in {">", "<", ">=", "<="} ->
         IF Peek(ts, p + 1) \in Words
         THEN Got([op |-> "cmp", field |-> field, rel |-> Peek(ts, p),
                   val |-> Peek(ts, p + 1)], p + 2)
         ELSE Failed
    [] Peek(ts, p) \in Words ->
         IF field = "_exists_" THEN Got([op |-> "exists", field |-> Peek(ts, p)], p + 1)
         ELSE Got([op |-> "eq", field |-> field, val |-> Peek(ts, p)], p + 1)
    [] OTHER -> Failed

ParseClause(ts, p) ==
  IF Peek(ts, p) \notin Words THEN Failed
  ELSE IF Peek(ts, p + 1) = ":" THEN ParseFieldValue(ts, p + 2, ts[p])
  ELSE Got([op |-> "term", val |-> ts[p]], p + 1)

ParsePrimary(ts, p) ==
  IF Peek(ts, p) # "(" THEN ParseClause(ts, p)
  ELSE LET in == ParseOr(ts, p + 1) IN
       IF in.ok /\ Peek(ts, in.pos) = ")" THEN Got(in.tree, in.pos + 1) ELSE Failed

ParseUnary(ts, p) ==
  IF Peek(ts, p) # "NOT" THEN ParsePrimary(ts, p)
  ELSE LET e == ParseUnary(ts, p + 1) IN
       IF e.ok THEN Got([op |-> "not", e |-> e.tree], e.pos) ELSE Failed

\* The loop of parseAnd: two primaries side by side are a conjunction.
MoreAnd(ts, left) ==
  IF Peek(ts, left.pos) \in {"OR", ")", "EOF", "TO", "]", "}"} THEN left
  ELSE LET right == ParseUnary(ts, IF Peek(ts, left.pos) = "AND" THEN left.pos + 1
                                   ELSE left.pos)
       IN IF right.ok
          THEN MoreAnd(ts, Got([op |-> "and", l |-> left.tree, r |-> right.tree], right.pos))
          ELSE Failed

ParseAnd(ts, p) ==
  LET left == ParseUnary(ts, p) IN IF left.ok THEN MoreAnd(ts, left) ELSE Failed

MoreOr_RightFirst(ts, left) ==       \* mutant: the right operand by parseOr
  IF Peek(ts, left.pos) # "OR" THEN left
  ELSE LET right == ParseOr(ts, left.pos + 1) IN
       IF right.ok
       THEN MoreOr(ts, Got([op |-> "or", l |-> left.tree, r |-> right.tree], right.pos))
       ELSE Failed

MoreOr(ts, left) ==
  IF Peek(ts, left.pos) # "OR" THEN left
  ELSE LET right == ParseAnd(ts, left.pos + 1) IN
       IF right.ok
       THEN MoreOr(ts, Got([op |-> "or", l |-> left.tree, r |-> right.tree], right.pos))
       ELSE Failed

ParseOr(ts, p) ==
  LET left == ParseAnd(ts, p) IN IF left.ok THEN MoreOr(ts, left) ELSE Failed

\* Parse: an empty query matches everything; nothing may be left over.
Parse(ts) ==
  IF ts = <<>> THEN Got([op |-> "all"], 1)
  ELSE LET n == ParseOr(ts, 1) IN
       IF n.ok /\ Peek(ts, n.pos) = "EOF" THEN n ELSE Failed

-----------------------------------------------------------------------------
(* The reference.                                                           *)

\* The leaves of ast.go:6-11.
ClauseTrees(s) ==
  LET word(i) == s[i] \in Words
      field   == Len(s) > 2 /\ word(1) /\ s[2] = ":"
  IN CASE Len(s) = 1 /\ word(1) -> {[op |-> "term", val |-> s[1]]}
       [] Len(s) = 3 /\ field /\ word(3) ->
            {IF s[1] = "_exists_" THEN [op |-> "exists", field |-> s[3]]
             ELSE [op |-> "eq", field |-> s[1], val |-> s[3]]}
       [] Len(s) = 4 /\ field /\ s[3] \in {">", "<", ">=", "<="} /\ word(4) ->
            {[op |-> "cmp", field |-> s[1], rel |-> s[3], val |-> s[4]]}
       [] Len(s) = 7 /\ field /\ s[3] \in {"[", "{"} /\ word(4) /\ s[5] = "TO"
            /\ word(6) /\ s[7] \in {"]", "}"} ->
            {[op |-> "range", field |-> s[1], lo |-> s[4], hi |-> s[6],
              incLo |-> s[3] = "[", incHi |-> s[7] = "]"]}
       [] OTHER -> {}

RECURSIVE Derives(_, _, _, _)

\* The trees the grammar of ast.go:3-5 gives tokens i..j as an "or", an "and", a
\* "not" or a clause.
Derives(ts, rule, i, j) ==
  CASE i > j -> {}
    [] rule = "or" ->
         Derives(ts, "and", i, j) \cup
         UNION {{[op |-> "or", l |-> a, r |-> b] : a \in Derives(ts, "or", i, k - 1),
                                                  b \in Derives(ts, "and", k + 1, j)}
                : k \in {n \in i..j : ts[n] = "OR"}}
    [] rule = "and" ->
         Derives(ts, "not", i, j) \cup
         UNION {{[op |-> "and", l |-> a, r |-> b] : a \in Derives(ts, "and", i, k - 1),
                                                   b \in Derives(ts, "not", k + 1, j)}
                : k \in {n \in i..j : ts[n] = "AND"}} \cup
         UNION {{[op |-> "and", l |-> a, r |-> b] : a \in Derives(ts, "and", i, k - 1),
                                                   b \in Derives(ts, "not", k, j)}
                : k \in i..j}
    [] rule = "not" ->
         (IF ts[i] = "NOT" THEN {[op |-> "not", e |-> a] : a \in Derives(ts, "not", i + 1, j)}
          ELSE {}) \cup
         (IF ts[i] = "(" /\ ts[j] = ")" THEN Derives(ts, "or", i + 1, j - 1) ELSE {}) \cup
         ClauseTrees(SubSeq(ts, i, j))

-----------------------------------------------------------------------------
(* Properties.                                                              *)

\* The parser accepts what the grammar generates and nothing else, and gives the
\* one tree that precedence and left association allow: OR binds least, then AND,
\* written or not, then NOT (ast.go:3-5, parser.go:41-95).
ParsesTheGrammar ==
  tokens # <<>> =>
    Derives(tokens, "or", 1, Len(tokens)) =
      IF Parse(tokens).ok THEN {Parse(tokens).tree} ELSE {}

=============================================================================
