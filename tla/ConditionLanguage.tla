-------------------------- MODULE ConditionLanguage --------------------------
(***************************************************************************)
(* The condition language of pipeline rules (internal/pipeline/dsl): the      *)
(* parser, compared with what precedence and grouping say, and what a tree    *)
(* of it says of a message.                                                 *)
(***************************************************************************)
EXTENDS Message

CONSTANTS
  Idents,      \* tokens that are identifiers
  Conditions   \* the token sequences that are parsed

VARIABLE condition   \* the condition parsed

ConditionTypeOK == condition = <<>> \/ condition \in Conditions

-----------------------------------------------------------------------------
(* The parser of conditions.                                                *)

NoParse == [ok |-> FALSE, tree |-> [op |-> "true"], pos |-> 0]
Parsed(t, p) == [ok |-> TRUE, tree |-> t, pos |-> p]
Token(ts, p) == IF p <= Len(ts) THEN ts[p] ELSE "EOF"
Punctuation == {"(", ")", ",", "&&", "||", "!", "EOF"}

\* buildCond: the functions and their arguments.
Buildable(name, args) ==
  \/ name = "has" /\ Len(args) = 1
  \/ name \in {"eq", "neq", "contains"} /\ Len(args) = 2
  \/ name \in {"regex", "cidr"} /\ Len(args) = 2 /\ args[2] \in DOMAIN Accepts[name]
  \/ name \in {"gt", "lt", "gte", "lte"} /\ Len(args) = 2 /\ args[2] \in DOMAIN Numbers

RECURSIVE ParseArgs(_, _, _), CondOr(_, _), MoreCondOr(_, _), CondAnd(_, _),
          MoreCondAnd(_, _), CondUnary(_, _)

\* The loop of parseArgs; tree is the sequence of arguments.
ParseArgs(ts, p, args) ==
  IF Token(ts, p) = ")" THEN Parsed(args, p + 1)
  ELSE IF Token(ts, p) \in Punctuation THEN NoParse
  ELSE CASE Token(ts, p + 1) = "," -> ParseArgs(ts, p + 2, Append(args, ts[p]))
         [] Token(ts, p + 1) = ")" -> ParseArgs(ts, p + 1, Append(args, ts[p]))
         [] OTHER -> NoParse

ParseCall(ts, p) ==
  CASE Token(ts, p) \notin Idents -> NoParse
    [] Token(ts, p) \in {"true", "false"} -> Parsed([op |-> ts[p]], p + 1)
    [] OTHER ->
         LET args == IF Token(ts, p + 1) = "(" THEN ParseArgs(ts, p + 2, <<>>) ELSE NoParse
         IN IF args.ok /\ Buildable(ts[p], args.tree)
            THEN Parsed([op |-> "call", name |-> ts[p], args |-> args.tree], args.pos)
            ELSE NoParse

CondUnary_Greedy(ts, p) ==           \* mutant: "!" takes all that follows
  CASE Token(ts, p) = "!" ->
         LET c == CondOr(ts, p + 1) IN
         IF c.ok THEN Parsed([op |-> "not", c |-> c.tree], c.pos) ELSE NoParse
    [] Token(ts, p) = "(" ->
         LET c == CondOr(ts, p + 1) IN
         IF c.ok /\ Token(ts, c.pos) = ")" THEN Parsed(c.tree, c.pos + 1) ELSE NoParse
    [] OTHER -> ParseCall(ts, p)

CondUnary(ts, p) ==
  CASE Token(ts, p) = "!" ->
         LET c == CondUnary(ts, p + 1) IN
         IF c.ok THEN Parsed([op |-> "not", c |-> c.tree], c.pos) ELSE NoParse
    [] Token(ts, p) = "(" ->
         LET c == CondOr(ts, p + 1) IN
         IF c.ok /\ Token(ts, c.pos) = ")" THEN Parsed(c.tree, c.pos + 1) ELSE NoParse
    [] OTHER -> ParseCall(ts, p)

Joined(op, l, r) == Parsed([op |-> op, l |-> l.tree, r |-> r.tree], r.pos)

MoreCondAnd(ts, left) ==
  IF ~left.ok \/ Token(ts, left.pos) # "&&" THEN left
  ELSE LET right == CondUnary(ts, left.pos + 1) IN
       IF right.ok THEN MoreCondAnd(ts, Joined("and", left, right)) ELSE NoParse
CondAnd(ts, p) == MoreCondAnd(ts, CondUnary(ts, p))

MoreCondOr(ts, left) ==
  IF ~left.ok \/ Token(ts, left.pos) # "||" THEN left
  ELSE LET right == CondAnd(ts, left.pos + 1) IN
       IF right.ok THEN MoreCondOr(ts, Joined("or", left, right)) ELSE NoParse
CondOr(ts, p) == MoreCondOr(ts, CondAnd(ts, p))

CompileCondition(ts) ==
  IF ts = <<>> THEN Parsed([op |-> "true"], 1)
  ELSE LET c == CondOr(ts, 1) IN
       IF c.ok /\ Token(ts, c.pos) = "EOF" THEN c ELSE NoParse

-----------------------------------------------------------------------------
(* What a condition says.                                                   *)

RECURSIVE Cond(_, _)
Cond(c, m) ==
  CASE c.op = "true" -> TRUE [] c.op = "false" -> FALSE
    [] c.op = "not"  -> ~Cond(c.c, m)
    [] c.op = "and"  -> Cond(c.l, m) /\ Cond(c.r, m)
    [] c.op = "or"   -> Cond(c.l, m) \/ Cond(c.r, m)
    [] c.op = "call" -> Tests(m, c.name, c.args[1], c.args[Len(c.args)])

Compilable(ts)   == CompileCondition(ts).ok
HoldsOf(ts, m)   == Cond(CompileCondition(ts).tree, m)

-----------------------------------------------------------------------------
(* Properties.                                                              *)

RECURSIVE Readings(_, _)

\* The trees of a condition: "||" binds least, then "&&", then "!"; an argument list
\* may end in a comma.
Readings(rule, s) ==
  LET n == Len(s)
      inner == SubSeq(s, 3, n - 1)
      comma == inner # <<>> /\ Last(inner) = ","
      list == IF comma THEN Front(inner) ELSE inner
      args == [i \in 1..((Len(list) + 1) \div 2) |-> list[2 * i - 1]]
      split(op, tok, l, r) ==
        UNION {{[op |-> op, l |-> a, r |-> b] : a \in Readings(l, SubSeq(s, 1, k - 1)),
                                                b \in Readings(r, SubSeq(s, k + 1, n))}
               : k \in {i \in 1..n : s[i] = tok}}
  IN CASE n = 0 -> {}
       [] rule = "or"  -> Readings("and", s) \cup split("or", "||", "or", "and")
       [] rule = "and" -> Readings("not", s) \cup split("and", "&&", "and", "not")
       [] OTHER ->
            (IF s[1] = "!" THEN {[op |-> "not", c |-> a] : a \in Readings("not", Tail(s))}
             ELSE {}) \cup
            (IF s[1] = "(" /\ s[n] = ")" THEN Readings("or", SubSeq(s, 2, n - 1)) ELSE {})
            \cup (IF n = 1 /\ s[1] \in {"true", "false"} THEN {[op |-> s[1]]} ELSE {})
            \cup (IF /\ n > 2 /\ s[1] \in Idents \ {"true", "false"} /\ s[2] = "(" /\ s[n] = ")"
                     /\ list = <<>> => ~comma
                     /\ list # <<>> => Len(list) % 2 = 1
                     /\ \A i \in DOMAIN list : IF i % 2 = 0 THEN list[i] = ","
                                               ELSE list[i] \notin Punctuation
                     /\ Buildable(s[1], args)
                  THEN {[op |-> "call", name |-> s[1], args |-> args]} ELSE {})

\* A condition compiles when the language has it and then means what precedence and
\* grouping say (lex.go:1-5, dsl.go:104-212).
ConditionsMean ==
  condition # <<>> =>
    Readings("or", condition) =
      IF CompileCondition(condition).ok THEN {CompileCondition(condition).tree} ELSE {}

=============================================================================
