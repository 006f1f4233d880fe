------------------------------ MODULE MCStorage ------------------------------
(***************************************************************************)
(* Instances of Partitions, Search, QueryLanguage and Compiler for TLC.  A    *)
(* behaviour exercises one of them, named by part; the others keep one state. *)
(***************************************************************************)
EXTENDS Partitions, Search, QueryLanguage, Compiler, TLC

CONSTANTS Parts, hot, cold, w1, w2

VARIABLE part
mcvars == <<part, ptvars, shvars, tokens, expr>>

Symmetry == Permutations({w1, w2})

\* A stream kept for a day in a store kept for two.  When the clock moves, the file of
\* the first kind's day is due, and of the other two, which share a file, one message
\* expires and the other stays; all three may still come after that.
MCStreamDays == [s \in {hot, cold} |-> IF s = hot THEN 1 ELSE 0]
MCKinds == {[ts |-> 3, stream |-> cold], [ts |-> 5, stream |-> hot],
            [ts |-> 4, stream |-> cold]}

\* Up to five messages in two days of four instants, with and without a value.
Rows5 == {[id |-> 1, ts |-> 1, grp |-> "a", val |-> 4],
          [id |-> 2, ts |-> 3, grp |-> "b", val |-> Null],
          [id |-> 3, ts |-> 3, grp |-> "a", val |-> 1],
          [id |-> 4, ts |-> 4, grp |-> "a", val |-> 7],
          [id |-> 5, ts |-> 6, grp |-> "b", val |-> 1]}
MCStores == SUBSET Rows5 \ {{}}

AnyRequest == [from |-> Null, to |-> Null, match |-> 1..5, order |-> "desc",
               limit |-> 1, offset |-> 0, interval |-> 3, metric |-> "count",
               grouped |-> FALSE]
Pages == {[AnyRequest EXCEPT !.from = f, !.order = o, !.limit = l, !.offset = n]
          : f \in {Null, 2}, o \in {"asc", "desc"}, l \in 0..2, n \in 0..3}
Tables == {[AnyRequest EXCEPT !.to = t, !.match = ids, !.metric = k, !.grouped = g]
           : t \in {Null, 5}, ids \in {1..5, {1, 4, 5}},
             k \in {"sum", "avg", "min", "max", "count"}, g \in BOOLEAN}
Bars == {[AnyRequest EXCEPT !.from = f, !.interval = i] : f \in {Null, 2}, i \in {1, 2, 5}}
MCRequests == Pages \cup Tables \cup Bars

\* All short queries over the connectives and over simple clauses, and queries
\* that are ranges but for a token or two.
Sentences(S, n) == UNION {[1..k -> S] : k \in 1..n}
NearRanges == {<<"a", ":", b, lo, to, "a", e>> :
                 b \in {"[", "{", "a"}, lo \in {"a", "TO"}, to \in {"TO", "a"},
                 e \in {"]", "}", ")", "a"}}
MCQueries == Sentences({"a", "AND", "OR", "NOT", "(", ")"}, 4) \cup
             Sentences({"a", "OR", "NOT", "(", ")"}, 5) \cup
             Sentences({"a", "_exists_", ":", ">"}, 4) \cup
             NearRanges \cup {<<"NOT">> \o q : q \in NearRanges} \cup
             {q \o <<"a">> : q \in NearRanges}

\* Columns hold texts; a field that is compared with a number holds a number.
MCMessages == {m \in [words : {{}, {"a"}},
                      fields : [{"source", "status"} ->
                                  {NoValue, Num(1), Num(2), Num(3), Text(2)}]] :
                 /\ m.fields["source"] \in {NoValue, Text(2)}
                 /\ m.fields["status"] # Text(2)}

Leaves == {[op |-> "term", val |-> "a"], [op |-> "exists", field |-> "status"],
           [op |-> "exists", field |-> "source"]} \cup
          [op : {"eq"}, field : {"status"}, val : {Num(1), Num(3)}] \cup
          [op : {"cmp"}, field : {"status"}, rel : {">", "<", ">=", "<="}, val : {2}] \cup
          [op : {"range"}, field : {"status", "source"}, lo : {1, Open}, hi : {3, Open},
           incLo : BOOLEAN, incHi : BOOLEAN]
Compound(S) == S \cup {[op |-> "not", e |-> a] : a \in S} \cup
               [op : {"and", "or"}, l : S, r : S]
MCLevels == <<Leaves, Compound(Leaves), {[op |-> "not", e |-> a] : a \in Compound(Leaves)}>>

-----------------------------------------------------------------------------
NoTokens == tokens = <<>>
NoExpr   == expr = [op |-> "all"]
NoSearch == stored = {} /\ req = AnyRequest

MCInit ==
  /\ part \in Parts
  /\ PartInit
  /\ IF part = "search" THEN SearchInit ELSE NoSearch
  /\ IF part = "parser" THEN tokens \in MCQueries ELSE NoTokens
  /\ IF part = "compiler" THEN expr \in Exprs ELSE NoExpr

MCNext == part = "partitions" /\ PartNext /\ UNCHANGED <<part, shvars, tokens, expr>>

MCSpec == MCInit /\ [][MCNext]_mcvars

TypeOK ==
  CASE part = "partitions" -> PartTypeOK
    [] part = "search"     -> SearchTypeOK
    [] part = "parser"     -> QueryTypeOK
    [] OTHER               -> CompilerTypeOK

=============================================================================
