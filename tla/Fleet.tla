-------------------------------- MODULE Fleet --------------------------------
(***************************************************************************)
(* An agent and the server's fleet API (internal/agentfleet/agent.go,          *)
(* internal/api/agents.go, internal/meta/agents.go): enrolment with a secret   *)
(* that every registration rotates, heartbeats, and the configuration that      *)
(* heartbeats fetch.  Requests and answers may be lost, the agent may give up     *)
(* on a request the server still works on, and either side restarts.            *)
(***************************************************************************)
EXTENDS Integers

CONSTANTS
  Paths,       \* the files that a configuration may name
  LocalPaths,  \* those of the agent's command line
  MaxEdits,    \* bound: changes made by administrators
  MaxLost,     \* bound: calls that fail
  MaxRestarts  \* bound: restarts of the agent

ASSUME FleetAssumption ==
  LocalPaths \subseteq Paths /\ {MaxEdits, MaxLost, MaxRestarts} \subseteq Nat

VARIABLES
  row,       \* the agent's row in the metadata store
  issued,    \* secrets generated
  late,      \* registrations the server has not handled and nobody waits for
  agent,     \* the agent's process
  disk,      \* the agent-secret file; 0 when there is none
  tailing,   \* Agent.tailing: the files a goroutine was started for
  present,   \* files that exist on the agent's host
  edits, lost, restarts

flvars == <<row, issued, late, agent, disk, tailing, present, edits, lost, restarts>>

NoRow   == [there |-> FALSE, secret |-> 0, files |-> {}]
NoAgent == [pc |-> "down", secret |-> 0, new |-> 0, files |-> {}, first |-> FALSE]

FleetTypeOK ==
  /\ row.there \in BOOLEAN /\ row.secret \in 0..issued /\ row.files \subseteq Paths
  /\ late \in 0..(MaxLost + MaxRestarts) /\ disk \in 0..issued
  /\ agent \in [pc : {"down", "register", "upserted", "answered", "wait", "fetch"},
                secret : 0..issued, new : 0..issued, files : SUBSET Paths, first : BOOLEAN]
  /\ tailing \subseteq Paths /\ present \subseteq Paths
  /\ edits \in 0..MaxEdits /\ lost \in 0..MaxLost /\ restarts \in 0..MaxRestarts

FleetInit ==
  /\ row = NoRow /\ issued = 0 /\ late = 0 /\ agent = NoAgent /\ disk = 0
  /\ tailing = {} /\ present = {}
  /\ edits = 0 /\ lost = 0 /\ restarts = 0

-----------------------------------------------------------------------------
(* The server.                                                              *)

\* UpsertAgent: a row that is there keeps its configuration and gets a new secret.
Upsert(secret) ==
  row' = [there |-> TRUE, secret |-> secret, files |-> row.files]

\* authAgent.
Authentic == row.there /\ row.secret # 0 /\ row.secret = agent.secret

\* handleAgentRegister: the token is right.  First the row is written,
Enroll ==
  /\ agent.pc = "register"
  /\ issued' = issued + 1 /\ Upsert(issued')
  /\ agent' = [agent EXCEPT !.pc = "upserted", !.new = issued']
  /\ UNCHANGED <<late, disk, tailing, present, edits, lost, restarts>>

\* then it is read: if it was deleted in between, the configuration is empty.
Answer ==
  /\ agent.pc = "upserted"
  /\ agent' = [agent EXCEPT !.pc = "answered", !.files = row.files]
  /\ UNCHANGED <<row, issued, late, disk, tailing, present, edits, lost, restarts>>

\* A registration the agent gave up on is handled after all.
EnrollLate ==
  /\ late > 0 /\ late' = late - 1
  /\ issued' = issued + 1 /\ Upsert(issued')
  /\ UNCHANGED <<agent, disk, tailing, present, edits, lost, restarts>>

\* handleUpdateAgent and handleDeleteAgent.
Configure ==
  /\ edits < MaxEdits /\ edits' = edits + 1 /\ row.there
  /\ \E files \in SUBSET Paths : row' = [row EXCEPT !.files = files]
  /\ UNCHANGED <<issued, late, agent, disk, tailing, present, lost, restarts>>

Delete ==
  /\ edits < MaxEdits /\ edits' = edits + 1 /\ row.there
  /\ row' = NoRow
  /\ UNCHANGED <<issued, late, agent, disk, tailing, present, lost, restarts>>

-----------------------------------------------------------------------------
(* The agent.                                                               *)

\* Run, with loadSecret.
Start ==
  /\ agent.pc = "down"
  /\ agent' = [NoAgent EXCEPT !.pc = "register", !.secret = disk, !.first = TRUE]
  /\ UNCHANGED <<row, issued, late, disk, tailing, present, edits, lost, restarts>>

\* startGlob: files that exist are marked, once and for all; the goroutine that is
\* started for one ends at once when the file cannot be opened.
Marked(files) == tailing' = tailing \cup (files \cap present)

\* After the first registration, whatever came of it, the local files follow.
Local == IF agent.first THEN LocalPaths ELSE {}
Waits == [NoAgent EXCEPT !.pc = "wait", !.secret = agent.secret]

\* register returns, and persistSecret may fail.
Registered ==
  /\ agent.pc = "answered"
  /\ agent' = [Waits EXCEPT !.secret = agent.new]
  /\ \/ disk' = agent.new /\ UNCHANGED lost
     \/ lost < MaxLost /\ lost' = lost + 1 /\ UNCHANGED disk
  /\ Marked(agent.files \cup Local)
  /\ UNCHANGED <<row, issued, late, present, edits, restarts>>

\* register fails: the request, the server or the answer.  The server may still get
\* the request.
RegisterFails ==
  /\ agent.pc \in {"register", "upserted", "answered"}
  /\ lost < MaxLost /\ lost' = lost + 1
  /\ agent' = Waits
  /\ late' \in {late} \cup (IF agent.pc = "register" THEN {late + 1} ELSE {})
  /\ Marked(Local)
  /\ UNCHANGED <<row, issued, disk, present, edits, restarts>>

\* heartbeat, on a tick: any failure makes it register.
AfterBeat_Waits(ok) ==               \* mutant: a heartbeat that fails is only logged
  IF ok THEN "fetch" ELSE "wait"

AfterBeat(ok) == IF ok THEN "fetch" ELSE "register"

Beat ==
  /\ agent.pc = "wait"
  /\ agent' = [agent EXCEPT !.pc = AfterBeat(Authentic)]
  /\ UNCHANGED <<row, issued, late, disk, tailing, present, edits, lost, restarts>>

BeatFails ==
  /\ agent.pc = "wait" /\ lost < MaxLost /\ lost' = lost + 1
  /\ agent' = [agent EXCEPT !.pc = AfterBeat(FALSE)]
  /\ UNCHANGED <<row, issued, late, disk, tailing, present, edits, restarts>>

\* fetchConfig and applyConfig: an error leaves all as it is; nothing is ever stopped.
Fetch ==
  /\ agent.pc = "fetch" /\ agent' = Waits
  /\ IF Authentic THEN Marked(row.files) ELSE UNCHANGED tailing
  /\ UNCHANGED <<row, issued, late, disk, present, edits, lost, restarts>>

FetchFails ==
  /\ agent.pc = "fetch" /\ agent' = Waits
  /\ lost < MaxLost /\ lost' = lost + 1
  /\ UNCHANGED <<row, issued, late, disk, tailing, present, edits, restarts>>

Restart ==
  /\ agent.pc # "down" /\ restarts < MaxRestarts /\ restarts' = restarts + 1
  /\ agent' = NoAgent /\ tailing' = {}
  /\ late' \in {late} \cup (IF agent.pc = "register" THEN {late + 1} ELSE {})
  /\ UNCHANGED <<row, issued, disk, present, edits, lost>>

Appears(p) ==
  /\ p \notin present /\ present' = present \cup {p}
  /\ UNCHANGED <<row, issued, late, agent, disk, tailing, edits, lost, restarts>>

-----------------------------------------------------------------------------
\* The steps of one round, of which one is possible at a time.
Round == Start \/ Enroll \/ Answer \/ Registered \/ Beat \/ Fetch

FleetNext ==
  \/ Round \/ EnrollLate \/ Configure \/ Delete
  \/ RegisterFails \/ BeatFails \/ FetchFails \/ Restart
  \/ \E p \in Paths : Appears(p)

-----------------------------------------------------------------------------
(* Properties.                                                              *)

\* Once calls stop failing and nobody edits, the agent is enrolled with the secret the
\* server has, for good, and every file of its configuration that exists was
\* taken up: whatever registrations were lost, repeated or
\* handled late, and though the row was deleted or the secret file is stale
\* (agent.go:156-172, agents.go:65-77).
AgentConverges ==
  <>[](agent.pc # "down" =>
         /\ row.there /\ agent.secret = row.secret
         /\ row.files \cap present \subseteq tailing)

=============================================================================
