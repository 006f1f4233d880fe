------------------------------- MODULE Events -------------------------------
(***************************************************************************)
(* The event engine (internal/event/engine.go): cron starts an evaluation of  *)
(* all definitions every thirty seconds, also while an earlier one still      *)
(* queries or notifies.  What a query finds is a choice; a send may take any   *)
(* time and fail.                                                           *)
(***************************************************************************)
EXTENDS Integers, Sequences, SequencesExt

CONSTANTS
  Defs,      \* event definitions
  Groups,    \* for each definition the rows its query can find: one without GroupBy
  Grace,     \* Definition.GraceSeconds, in rounds of cron
  Jobs,      \* evaluations that may be under way at the same time
  MaxClock,  \* bound: rounds
  MaxFired,  \* bound: events
  MaxEngines \* bound: restarts

ASSUME EventsAssumption ==
  /\ Grace \in [Defs -> Nat] /\ DOMAIN Groups = Defs
  /\ {MaxClock, MaxFired, MaxEngines} \subseteq Nat

VARIABLES
  clock,
  cronDue,    \* cron has not yet started this round's evaluation
  enabled,    \* the enabled definitions in the metadata store
  lastFired,  \* Engine.lastFired; Never where there is no entry
  job,        \* the evaluations
  fired,      \* the events, in the order of InsertEvent
  engines     \* restarts

evvars == <<clock, cronDue, enabled, lastFired, job, fired, engines>>

Never  == -1
AllGroups == UNION {Groups[d] : d \in Defs}

\* todo: definitions read and not yet evaluated; def: the one being evaluated; rows:
\* what its query found and did not yet fire; seen, checkedAt: when its throttle was
\* looked at.
NoJob == [pc |-> "idle", todo |-> {}, def |-> {}, rows |-> {}, row |-> {}, mark |-> 0,
          seen |-> 0, checkedAt |-> 0]

NextDef(a) == [NoJob EXCEPT !.pc = "next", !.todo = a.todo]

EventTypeOK ==
  /\ clock \in 0..MaxClock /\ cronDue \in BOOLEAN /\ enabled \subseteq Defs
  /\ lastFired \in [Defs -> {Never} \cup 0..MaxClock]
  /\ job \in [Jobs -> [pc : {"idle", "next", "query", "fire", "insert", "send"},
                       todo : SUBSET Defs, def : SUBSET Defs, rows : SUBSET AllGroups,
                       row : SUBSET AllGroups, mark : 0..MaxClock, seen : 0..MaxFired,
                       checkedAt : 0..MaxClock]]
  /\ Len(fired) <= MaxFired
  /\ Range(fired) \subseteq [def : Defs, at : 0..MaxClock, seen : 0..MaxFired,
                             checkedAt : 0..MaxClock, engine : 0..MaxEngines]
  /\ engines \in 0..MaxEngines

EventInit ==
  /\ clock = 0 /\ cronDue = TRUE /\ enabled \in SUBSET Defs /\ engines = 0
  /\ lastFired = [d \in Defs |-> Never]
  /\ job = [j \in Jobs |-> NoJob] /\ fired = <<>>

-----------------------------------------------------------------------------
(* The environment.                                                         *)

Round ==
  /\ clock < MaxClock /\ clock' = clock + 1 /\ cronDue' = TRUE
  /\ UNCHANGED <<enabled, lastFired, job, fired, engines>>

\* A definition is switched on or off.
Switch(d) ==
  /\ enabled' = IF d \in enabled THEN enabled \ {d} ELSE enabled \cup {d}
  /\ UNCHANGED <<clock, cronDue, lastFired, job, fired, engines>>

\* lastFired is not persisted.
NewEngine ==
  /\ engines < MaxEngines /\ engines' = engines + 1
  /\ lastFired' = [d \in Defs |-> Never]
  /\ job' = [j \in Jobs |-> NoJob]
  /\ UNCHANGED <<clock, cronDue, enabled, fired>>

-----------------------------------------------------------------------------
(* EvaluateAll.                                                             *)

\* cron starts a goroutine; the definitions are read once.
EvaluateAll(j) ==
  /\ cronDue /\ job[j].pc = "idle"
  /\ cronDue' = FALSE
  /\ job' = [job EXCEPT ![j] = [NoJob EXCEPT !.pc = "next", !.todo = enabled]]
  /\ UNCHANGED <<clock, enabled, lastFired, fired, engines>>

Throttled(d) == Grace[d] > 0 /\ lastFired[d] # Never /\ clock - lastFired[d] < Grace[d]

Evaluate(j) ==
  /\ job[j].pc = "next"
  /\ \E d \in job[j].todo :
       LET rest == job[j].todo \ {d} IN
       job' = [job EXCEPT ![j] =
         IF Throttled(d) THEN [@ EXCEPT !.todo = rest]
         ELSE [@ EXCEPT !.todo = rest, !.def = {d}, !.pc = "query",
                        !.seen = Len(fired), !.checkedAt = clock]]
  /\ UNCHANGED <<clock, cronDue, enabled, lastFired, fired, engines>>

EvaluatedAll(j) ==
  /\ job[j].pc = "next" /\ job[j].todo = {}
  /\ job' = [job EXCEPT ![j] = NoJob]
  /\ UNCHANGED <<clock, cronDue, enabled, lastFired, fired, engines>>

\* evalFilter and evalAggregation: the rows beyond the threshold.  (A query that fails
\* finds none.)
Finds(j) ==
  /\ job[j].pc = "query"
  /\ \E d \in job[j].def : \E rows \in SUBSET Groups[d] :
       job' = [job EXCEPT ![j] = IF rows = {} THEN NextDef(@)
                                 ELSE [@ EXCEPT !.rows = rows, !.pc = "fire"]]
  /\ UNCHANGED <<clock, cronDue, enabled, lastFired, fired, engines>>

MarkFired_Once(d) ==                 \* mutant: if _, ok := lastFired[id]; !ok { ... }
  lastFired' = [lastFired EXCEPT ![d] = IF @ = Never THEN clock ELSE @]

MarkFired_EndOfGrace(d) ==           \* mutant: the end of the grace is recorded
  lastFired' = [lastFired EXCEPT ![d] = clock + Grace[d]]

MarkFired(d) == lastFired' = [lastFired EXCEPT ![d] = clock]

Fire(j) ==
  /\ job[j].pc = "fire" /\ Len(fired) < MaxFired
  /\ \E d \in job[j].def, row \in job[j].rows :
       /\ MarkFired(d)
       /\ job' = [job EXCEPT ![j].pc = "insert", ![j].rows = @ \ {row}, ![j].row = {row},
                             ![j].mark = clock]
  /\ UNCHANGED <<clock, cronDue, enabled, fired, engines>>

\* InsertEvent; a failure is only logged.
Inserts(j) ==
  /\ job[j].pc = "insert" /\ Len(fired) < MaxFired
  /\ \E d \in job[j].def :
       \/ fired' = Append(fired, [def |-> d, at |-> job[j].mark, engine |-> engines,
                                  seen |-> job[j].seen, checkedAt |-> job[j].checkedAt])
       \/ UNCHANGED fired
  /\ job' = [job EXCEPT ![j].pc = "send", ![j].row = {}, ![j].mark = 0]
  /\ UNCHANGED <<clock, cronDue, enabled, lastFired, engines>>

\* dispatch: whether a channel exists and takes the message changes nothing here.
Dispatches(j) ==
  /\ job[j].pc = "send"
  /\ job' = [job EXCEPT ![j] = IF @.rows = {} THEN NextDef(@) ELSE [@ EXCEPT !.pc = "fire"]]
  /\ UNCHANGED <<clock, cronDue, enabled, lastFired, fired, engines>>

EventNext ==
  \/ Round \/ NewEngine \/ \E d \in Defs : Switch(d)
  \/ \E j \in Jobs : \/ EvaluateAll(j) \/ Evaluate(j) \/ EvaluatedAll(j) \/ Finds(j)
                     \/ Fire(j) \/ Inserts(j) \/ Dispatches(j)

EventSpec == EventInit /\ [][EventNext]_evvars

-----------------------------------------------------------------------------
(* Properties.                                                              *)

\* In one life of the process an evaluation that looks at the throttle after an event
\* was recorded fires again only when the grace period since that event is over; only
\* evaluations that were both past the look may come closer (engine.go:120-123,
\* 187-207).
GraceKept ==
  \A i, k \in DOMAIN fired :
    /\ fired[i].def = fired[k].def /\ fired[i].engine = fired[k].engine
    /\ i <= fired[k].seen
    => fired[k].checkedAt - fired[i].at >= Grace[fired[k].def]

=============================================================================
