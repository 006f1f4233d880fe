------------------------------ MODULE MCServer ------------------------------
(***************************************************************************)
(* Instances of Reload, Events, ConditionLanguage and Rules for TLC.  A       *)
(* behaviour exercises one of them, named by part; the others keep one state.  *)
(***************************************************************************)
EXTENDS Reload, Events, ConditionLanguage, Rules

CONSTANTS Parts, r1, r2, j1, j2, g1, g2

VARIABLE part
mcvars == <<part, rlvars, evvars, rlsvars, condition>>

Symmetry == Permutations({r1, r2}) \cup Permutations({j1, j2}) \cup Permutations({g1, g2})

\* A pack with a kind that is read late and one that is read last.
MCPackKinds == <<"pipeline", "output">>

MCGroups == [d \in Defs |-> {g1, g2}]
MCGrace  == [d \in Defs |-> 2]

\* The fields are a and b; "x" is no number.
MCNumbers == ("1" :> 1) @@ ("2" :> 2)
MCAccepts == [contains |-> ("1" :> {"1"}) @@ ("x" :> {"x"}), regex |-> ("1" :> {"1", "2"}),
              cidr |-> ("1" :> {"2"})]
MCCoerced == ("int" :> ("1" :> "1" @@ "2" :> "2")) @@ ("bool" :> ("1" :> "true"))
MCExtracts == [parse_kv |-> ("x" :> [a |-> "1", b |-> "2"]), grok |-> ("1" :> [b |-> "x"])]
MCLookupRows == "t" :> ("1" :> "2")

Call(name, args) == [name |-> name, args |-> args]
Rule(when, then) == [when |-> when, then |-> then]
Has(f)   == <<"has", "(", f, ")">>
Eq(f, v) == <<"eq", "(", f, ",", v, ")">>
Pipe(stages, rules) == [enabled |-> TRUE, stages |-> stages, rules |-> rules]
If(f, type, v, neg) == [field |-> f, type |-> type, value |-> v, negate |-> neg]
Stream(id, comb, rules) == [id |-> id, combinator |-> comb, rules |-> rules]

\* The second configuration has a rule that does not compile.
MCConfigs == <<
  [streams |-> <<Stream("s0", "and", <<>>),
                 Stream("s1", "and", <<If("a", "presence", "", FALSE), If("b", "gt", "1", TRUE)>>),
                 Stream("s2", "or", <<If("a", "exact", "x", FALSE), If("b", "regex", "1", FALSE)>>)>>,
   pipelines |-> <<Pipe(<<>>, <<Rule(Has("source"), <<Call("rename", <<"source", "a">>)>>),
                                Rule(Eq("body", "x"), <<Call("parse_kv", <<"body">>),
                                                        Call("lookup", <<"t", "a", "a">>)>>)>>),
                   Pipe(<<"s1", "s2">>, <<Rule(<<"gt", "(", "b", ",", "1", ")">>,
                                               <<Call("drop", <<>>), Call("remove", <<"a">>)>>)>>)>>],
  [streams |-> <<Stream("s3", "or", <<If("a", "regex", "(", TRUE)>>),
                 Stream("s2", "and", <<If("a", "lt", "x", TRUE), If("body", "presence", "", FALSE)>>)>>,
   pipelines |-> <<Pipe(<<>>, <<Rule(<<"has", "(">>, <<>>)>>)>>],
  [streams |-> <<Stream("s1", "or", <<If("a", "contains", "1", FALSE), If("a", "cidr", "1", FALSE)>>)>>,
   pipelines |-> <<[Pipe(<<>>, <<Rule(<<>>, <<Call("drop", <<>>)>>)>>) EXCEPT !.enabled = FALSE],
                   Pipe(<<"_all">>, <<Rule(<<"!">> \o Has("b"), <<Call("grok", <<"a", "p">>),
                                                                  Call("coerce", <<"a", "bool">>)>>),
                                      Rule(Eq("b", "2"), <<Call("route", <<"s2">>)>>),
                                      Rule(Eq("b", "x"), <<Call("set", <<"stream", "s1">>)>>)>>),
                   Pipe(<<"default">>, <<Rule(<<>>, <<Call("remove", <<"b">>)>>)>>)>>] >>

FieldSets == {<<>>} \cup {"a" :> v : v \in {"1", "x"}} \cup
             {("a" :> v) @@ ("b" :> w) : v \in {"1", "x"}, w \in {"1", "2"}}
MCArrivals == {m \in [message : {"1", "x"}, source : {"", "2"}, stream : {""},
                       input_id : {"in"}, fields : FieldSets] :
                 m.source = "" \/ m.fields = <<>>}

\* All short conditions over the connectives, and calls that are right but for a token.
Sentences(S, n) == UNION {[1..k -> S] : k \in 1..n}
NearCalls == {<<f, p, "a">> \o rest : f \in {"has", "eq", "gt", "true"}, p \in {"(", ","},
                rest \in Sentences({",", ")", "1"}, 4)}
MCConditions == Sentences({"true", "&&", "||", "!", "(", ")"}, 4) \cup
                Sentences({"true", "||", "!", "(", ")"}, 5) \cup
                Sentences({"true", "&&", "||"}, 5) \cup NearCalls \cup
                {<<"!">> \o c \o <<"||", "true", "&&", "false">> : c \in NearCalls}

-----------------------------------------------------------------------------
FrozenEvents == clock = 0 /\ cronDue = TRUE /\ enabled = {} /\ engines = 0 /\
                lastFired = [d \in Defs |-> Never] /\ job = [j \in Jobs |-> NoJob] /\ fired = <<>>

MCInit ==
  /\ part \in Parts
  /\ IF part = "events" THEN EventInit ELSE FrozenEvents
  /\ RulesInit
  /\ IF part = "conditions" THEN condition \in MCConditions ELSE condition = <<>>

\* Bounds of the rules: streams and pipelines are written, twice, or a third time when a
\* pack was imported; no client goes away and no process ends; nothing is looked at once
\* the message is through.
BesideReloads ==
  /\ stage \notin {"done", "dropped"} /\ boots' = 0
  /\ \A r \in Requesters : request'[r].todo # <<"lookup">> /\ request'[r].todo # <<"output">>
  /\ writes' = 3 => entities'["output"] # Nothing
  /\ \A r \in Requesters : request'[r] = NoRequest => request[r].pc \in {"idle", "rules", "outputs"}

MCNext ==
  \/ part = "reload" /\ ReloadNext /\ UNCHANGED <<part, evvars, rlsvars, condition>>
  \/ part = "events" /\ EventNext /\ UNCHANGED <<part, rlvars, rlsvars, condition>>
  \/ part = "rules" /\ RulesNext /\ BesideReloads /\ UNCHANGED <<part, evvars, condition>>

MCSpec == MCInit /\ [][MCNext]_mcvars

TypeOK ==
  CASE part = "reload" -> ReloadTypeOK
    [] part = "events" -> EventTypeOK
    [] part = "rules"  -> RulesTypeOK
    [] OTHER           -> ConditionTypeOK

=============================================================================
