-------------------------------- MODULE Rules --------------------------------
(***************************************************************************)
(* Pipelines and streams: the actions of internal/pipeline/dsl, the engine    *)
(* that runs rules before and after routing (internal/pipeline/pipeline.go)    *)
(* and the router (internal/stream), for one message that is processed beside *)
(* the reloads of module Reload.  Patterns, lookups and extractions are        *)
(* tables; conditions are those of module ConditionLanguage.                *)
(***************************************************************************)
EXTENDS Message, Reload

CONSTANTS
  CondCompiles(_),  \* compileCondition succeeds on a condition,
  CondHolds(_, _),  \* and what it returns holds of a message
  Coerced,     \* by type and text: the text of the converted value
  Extracts,    \* by action and text: the fields it extracts
  LookupRows,  \* by table and key: the value found
  Configs,     \* by number: the streams, or the pipelines, that a write leaves stored
  Arrivals     \* the messages

\* What is configured is lists.
IsList(s) == s \in Seq({s[i] : i \in DOMAIN s})

ASSUME RulesAssumption ==
  /\ IsList(Configs) /\ Len(Configs) = MaxWrites
  /\ \A c \in DOMAIN Configs :
       /\ IsList(Configs[c].streams)
       /\ \A n \in DOMAIN Configs[c].streams : IsList(Configs[c].streams[n].rules)

VARIABLES
  message,  \* the message
  stage,    \* what Process does next with it
  routed    \* the message when it was routed, and the write its streams come from

rlsvars == <<message, stage, routed>>

-----------------------------------------------------------------------------
(* What rules do.                                                           *)

Arity == [set |-> 2, rename |-> 2, remove |-> 1, coerce |-> 2, parse_json |-> 1,
          parse_kv |-> 1, parse_csv |-> 2, grok |-> 2, regex_extract |-> 2,
          lookup |-> 3, geoip |-> 1, route |-> 1, drop |-> 0]

\* buildAction's closures, drop aside.  The other actions need the text of a field.
Act(m, name, args) ==
  LET key == args[IF name = "lookup" THEN 2 ELSE 1]
      v   == CHOOSE t \in StringField(m, key) : TRUE
  IN CASE name = "set"    -> SetAny(m, args[1], args[2])
       [] name = "route"  -> SetAny(m, "stream", args[1])
       [] name = "remove" -> RemoveField(m, args[1])
       [] StringField(m, key) = {} -> m
       [] name = "rename" -> RemoveField(SetAny(m, args[2], v), key)
       [] name = "coerce" ->
            IF args[2] \in DOMAIN Coerced /\ v \in DOMAIN Coerced[args[2]]
            THEN SetFields(m, key :> Coerced[args[2]][v]) ELSE m
       [] name = "lookup" ->
            IF v \in DOMAIN LookupRows[args[1]]
            THEN SetFields(m, args[3] :> LookupRows[args[1]][v]) ELSE m
       [] OTHER ->
            IF v \in DOMAIN Extracts[name] THEN SetFields(m, Extracts[name][v]) ELSE m

\* CompileRule succeeds.
Compiles(rule) ==
  /\ CondCompiles(rule.when)
  /\ \A i \in DOMAIN rule.then :
       rule.then[i].name \in DOMAIN Arity /\ Len(rule.then[i].args) = Arity[rule.then[i].name]

\* The loops of Rule.Apply and of Process, on [m, dropped].
Perform(acc, action) ==
  IF acc.dropped THEN acc
  ELSE IF action.name = "drop" THEN [acc EXCEPT !.dropped = TRUE]
  ELSE [acc EXCEPT !.m = Act(@, action.name, action.args)]

ApplyRule(acc, rule) ==
  IF acc.dropped \/ ~CondHolds(rule.when, acc.m) THEN acc
  ELSE FoldLeft(Perform, acc, rule.then)

Applied(rules, m) == FoldLeft(ApplyRule, [m |-> m, dropped |-> FALSE], rules)

-----------------------------------------------------------------------------
(* Streams and pipelines.                                                   *)

\* The types of a stream's rule: any other is never met.
RuleTest == [presence |-> "has", exact |-> "eq", contains |-> "contains",
             regex |-> "regex", gt |-> "gt", lt |-> "lt"]

\* compiledRule.evaluate.
Evaluates(r, m) ==
  LET met == /\ r.type \in DOMAIN RuleTest
             /\ r.type \in {"gt", "lt"} => r.value \in DOMAIN Numbers
             /\ Tests(m, RuleTest[r.type], r.field, r.value)
  IN met # r.negate

\* Compile: a stream with a bad pattern is skipped.
CompilesStream(s) ==
  \A i \in DOMAIN s.rules :
    s.rules[i].type = "regex" => s.rules[i].value \in DOMAIN Accepts["regex"]

Matches_NoRules(s, m) ==             \* mutant: without the test for no rules
  IF s.combinator = "or" THEN \E i \in DOMAIN s.rules : Evaluates(s.rules[i], m)
  ELSE \A i \in DOMAIN s.rules : Evaluates(s.rules[i], m)

Matches(s, m) ==
  /\ s.rules # <<>>
  /\ IF s.combinator = "or" THEN \E i \in DOMAIN s.rules : Evaluates(s.rules[i], m)
     ELSE \A i \in DOMAIN s.rules : Evaluates(s.rules[i], m)

\* The loop of Route, from each stream on; at the end it is the default stream.
FirstMatch(streams, m) ==
  LET id[n \in 1..(Len(streams) + 1)] ==
        IF n > Len(streams) THEN "default"
        ELSE IF CompilesStream(streams[n]) /\ Matches(streams[n], m) THEN streams[n].id
        ELSE id[n + 1]
  IN id

Route(streams, m) ==
  IF m.stream # "" THEN m ELSE [m EXCEPT !.stream = FirstMatch(streams, m)[1]]

\* SetPipelines: the rules of a stage; a stage that is named twice runs twice.
StageRules(pipelines, at) ==
  LET stages(p) == IF p.stages = <<>> THEN <<"_all">> ELSE p.stages
      of(p) == FlattenSeq([i \in DOMAIN stages(p) |->
                             IF stages(p)[i] = at THEN p.rules ELSE <<>>])
  IN FlattenSeq([n \in DOMAIN pipelines |->
                   IF pipelines[n].enabled THEN of(pipelines[n]) ELSE <<>>])

\* What Router.streams, Engine.pre and Engine.byStream are made of.
StreamsOf(c)   == IF c = Nothing THEN <<>> ELSE Configs[c].streams
PipelinesOf(c) == IF c = Nothing THEN <<>> ELSE Configs[c].pipelines

CompileAll(pipelines) ==
  \A n \in DOMAIN pipelines : pipelines[n].enabled =>
    \A i \in DOMAIN pipelines[n].rules : Compiles(pipelines[n].rules[i])

-----------------------------------------------------------------------------
(* Process, beside the reloads.                                             *)

NotRouted == [m |-> CHOOSE m \in Arrivals : TRUE, by |-> Nothing]

RulesTypeOK ==
  /\ ReloadTypeOK
  /\ stage \in {"pre", "route", "stream", "done", "dropped"}
  /\ DOMAIN message = Columns \cup {"fields"}
  /\ DOMAIN routed = {"m", "by"} /\ routed.by \in Revision

RulesInit ==
  /\ ReloadInit
  /\ stage = "pre" /\ message = NotRouted.m /\ routed = NotRouted

\* SetPipelines fails as a whole when a rule of an enabled pipeline does not compile.
Reloading ==
  /\ ReloadNext
  /\ broken' = ~CompileAll(PipelinesOf(entities'["pipeline"]))
  /\ UNCHANGED rlsvars

\* e.pre is read under the lock and run after it,
RunPre ==
  /\ stage = "pre"
  /\ \E arrived \in Arrivals :
       LET after == Applied(StageRules(PipelinesOf(live["rules"]), "_all"), arrived) IN
         message' = after.m /\ stage' = IF after.dropped THEN "dropped" ELSE "route"
  /\ UNCHANGED <<rlvars, routed>>

\* r.streams is read under its own lock, which orders it with no change of the rules,
RouteIt ==
  /\ stage = "route"
  /\ message' = Route(StreamsOf(live["router"]), message) /\ stage' = "stream"
  /\ routed' = [m |-> message, by |-> live["router"]]
  /\ UNCHANGED rlvars

\* and e.byStream again under the first.
RunStream ==
  /\ stage = "stream"
  /\ LET after == Applied(StageRules(PipelinesOf(live["rules"]), message.stream), message) IN
       message' = after.m /\ stage' = IF after.dropped THEN "dropped" ELSE "done"
  /\ UNCHANGED <<rlvars, routed>>

RulesNext == Reloading \/ RunPre \/ RouteIt \/ RunStream

RulesSpec == RulesInit /\ [][RulesNext]_<<rlvars, rlsvars>>

-----------------------------------------------------------------------------
(* Properties.                                                              *)

\* A message that is past routing is in the stream its pipelines chose, or else in the
\* first one that compiles, has rules, and whose rules all hold (or one, for "or"), or
\* else in the default stream: by one set of streams that was stored together, however
\* reloads replace them meanwhile (stream.go:35-51, pipeline.go:111-135).
RoutedByTheRules ==
  stage = "stream" =>
    LET streams == StreamsOf(routed.by)
        fits == {n \in DOMAIN streams :
                   /\ CompilesStream(streams[n])
                   /\ \E i \in DOMAIN streams[n].rules :
                        /\ Evaluates(streams[n].rules[i], routed.m)
                        /\ \/ streams[n].combinator = "or"
                           \/ \A k \in DOMAIN streams[n].rules :
                                Evaluates(streams[n].rules[k], routed.m)}
    IN IF routed.m.stream # "" THEN message = routed.m
       ELSE message = [routed.m EXCEPT
              !.stream = IF fits = {} THEN "default"
                         ELSE streams[CHOOSE n \in fits : \A k \in fits : n <= k].id]

=============================================================================
