------------------------------- MODULE Reload -------------------------------
(***************************************************************************)
(* Configuration while the server runs: requests write entities to the       *)
(* metadata store (internal/api/config.go, contentpack.go, meta/entity.go)    *)
(* and then call App.Reload (internal/app/app.go), which reads one kind of    *)
(* entity after the other and installs each where it is used.  Requests run   *)
(* at the same time and nothing orders their reloads.                        *)
(*                                                                          *)
(* The entities of a kind are the number of the write that made them what     *)
(* they are, or Nothing when there are none.                                *)
(***************************************************************************)
EXTENDS Integers, Sequences, SequencesExt

CONSTANTS
  Requesters,  \* requests that may be under way at the same time
  PackKinds,   \* the kinds of the content packs that are imported, in order
  MaxWrites,   \* bound: writes to the metadata store
  MaxBoots     \* bound: restarts of the process

EntityKind == {"stream", "lookup", "pipeline", "output"}

ASSUME ReloadAssumption ==
  MaxWrites \in Nat /\ MaxBoots \in Nat /\ PackKinds \in Seq(EntityKind) \ {<<>>}

VARIABLES
  entities,  \* the metadata store
  broken,    \* the stored pipelines do not all compile
  live,      \* what is installed, by the place it is installed in
  request,   \* the requests
  writes, boots,
  settled,   \* the last reload ran to its end, without an error and on its own
  since      \* what was stored when that last was so, and all that was stored later

rlvars == <<entities, broken, live, request, writes, boots, settled, since>>

Nothing  == 0
Revision == 0..MaxWrites
Kind     == [router |-> "stream", policies |-> "stream", tables |-> "lookup",
             rules |-> "pipeline", outputs |-> "output"]

\* Reload's steps: a kind is read, then installed in one place or two.
Steps == <<"stream", "router", "policies", "lookup", "tables", "pipeline", "rules",
           "output", "outputs", "idle">>
StepAfter(s) == Steps[1 + CHOOSE i \in DOMAIN Steps : Steps[i] = s]

NoRequest == [pc |-> "idle", todo |-> <<>>, pack |-> FALSE, read |-> Nothing,
              bad |-> FALSE, alone |-> FALSE, ok |-> TRUE]

ReloadTypeOK ==
  /\ entities \in [EntityKind -> Revision] /\ broken \in BOOLEAN
  /\ live \in [DOMAIN Kind -> Revision]
  /\ request \in [Requesters -> [pc : Range(Steps) \cup {"write"},
                                 todo : {<<>>} \cup {<<k>> : k \in EntityKind} \cup
                                        {SubSeq(PackKinds, i, Len(PackKinds))
                                         : i \in DOMAIN PackKinds},
                                 pack : BOOLEAN, read : Revision, bad : BOOLEAN,
                                 alone : BOOLEAN, ok : BOOLEAN]]
  /\ writes \in Revision /\ boots \in 0..MaxBoots /\ settled \in BOOLEAN
  /\ since \in [EntityKind -> SUBSET Revision]

ReloadInit ==
  /\ entities = [k \in EntityKind |-> Nothing] /\ broken = FALSE
  /\ live = [p \in DOMAIN Kind |-> Nothing]
  /\ request = [r \in Requesters |-> NoRequest]
  /\ writes = 0 /\ boots = 0 /\ settled = TRUE
  /\ since = [k \in EntityKind |-> {Nothing}]

Idle(r) == request[r].pc = "idle"

Stored == [k \in EntityKind |-> {entities[k]}]

-----------------------------------------------------------------------------
(* Writing.                                                                 *)

\* A request to put or delete one entity, or to import a pack, which is not validated.
Begin(r) ==
  /\ Idle(r) /\ writes < MaxWrites
  /\ \E kinds \in {<<k>> : k \in EntityKind} \cup {PackKinds} :
       request' = [q \in Requesters |->
         IF q = r THEN [NoRequest EXCEPT !.pc = "write", !.todo = kinds,
                          !.pack = kinds = PackKinds,
                          !.alone = \A p \in Requesters \ {r} : Idle(p)]
         ELSE [request[q] EXCEPT !.alone = FALSE]]
  /\ UNCHANGED <<entities, broken, live, writes, boots, settled, since>>

\* PutEntity or DeleteEntity.  Only an import stores pipelines that do not compile;
\* they do until the last of them is replaced or deleted.
Write(r) ==
  /\ request[r].pc = "write" /\ writes < MaxWrites
  /\ writes' = writes + 1 /\ settled' = FALSE
  /\ LET k == Head(request[r].todo) IN
       /\ \E revision \in {writes', Nothing}, bad \in BOOLEAN :
            /\ entities' = [entities EXCEPT ![k] = revision]
            /\ request[r].pack => revision # Nothing
            /\ bad => k = "pipeline" /\ revision # Nothing /\ (broken \/ request[r].pack)
            /\ broken' = IF k = "pipeline" THEN bad ELSE broken
            /\ since' = [since EXCEPT ![k] = @ \cup {revision}]
       /\ request' = [request EXCEPT
            ![r].todo = Tail(@), ![r].pc = IF Len(request[r].todo) = 1 THEN "stream" ELSE @]
  /\ UNCHANGED <<live, boots>>

\* The request's context ends, or the store fails: what was written stays, what was
\* not yet read is not installed, and the error goes nowhere.
GivesUp(r) ==
  /\ request[r].pc \in EntityKind \cup {"write"}
  /\ request' = [request EXCEPT ![r] = NoRequest]
  /\ settled' = FALSE
  /\ UNCHANGED <<entities, broken, live, writes, boots, since>>

-----------------------------------------------------------------------------
(* Reload.                                                                  *)

\* ListEntities.
Lists(r) ==
  /\ request[r].pc \in EntityKind
  /\ request' = [request EXCEPT ![r].pc = StepAfter(@), ![r].bad = broken,
                                ![r].read = entities[request[r].pc]]
  /\ UNCHANGED <<entities, broken, live, writes, boots, settled, since>>

\* SetStreams, setPolicies, SetPipelines and SetOutputs replace all there is; a table
\* is loaded for each lookup, and none is ever taken away.
Installed_Some(p, revision) ==       \* mutant: an empty list is not installed
  IF revision = Nothing THEN live[p] ELSE revision

Installed(p, revision) ==
  IF p = "tables" /\ revision = Nothing THEN live[p] ELSE revision

Install(r) ==
  LET place == request[r].pc
      next  == StepAfter(place)
  IN /\ place \in DOMAIN Kind /\ ~(place = "rules" /\ request[r].bad)
     /\ live' = [live EXCEPT ![place] = Installed(place, request[r].read)]
     /\ request' = [request EXCEPT ![r] = IF next = "idle" THEN NoRequest
                                          ELSE [@ EXCEPT !.pc = next]]
     /\ settled' = IF next = "idle" THEN request[r].alone /\ request[r].ok ELSE settled
     /\ since' = IF next = "idle" /\ settled' THEN Stored ELSE since
     /\ UNCHANGED <<entities, broken, writes, boots>>

\* A table's source cannot be read: the old one stays, and Reload goes on.
LoadFails(r) ==
  /\ request[r].pc = "tables" /\ request[r].read # Nothing
  /\ request' = [request EXCEPT ![r].pc = StepAfter(@), ![r].ok = FALSE]
  /\ UNCHANGED <<entities, broken, live, writes, boots, settled, since>>

\* A pipeline does not compile: Reload ends before the outputs.
CompileFails(r) ==
  /\ request[r].pc = "rules" /\ request[r].bad
  /\ request' = [request EXCEPT ![r] = NoRequest] /\ settled' = FALSE
  /\ UNCHANGED <<entities, broken, live, writes, boots, since>>

\* The process ends and New reloads what is stored, with nothing installed.
Reboot ==
  /\ boots < MaxBoots /\ boots' = boots + 1
  /\ request' = [r \in Requesters |-> NoRequest]
  /\ \E loads \in BOOLEAN :
       /\ settled' = (loads /\ ~broken)
       /\ live' = [p \in DOMAIN Kind |->
                     IF \/ p = "tables" /\ ~loads
                        \/ p \in {"rules", "outputs"} /\ broken
                     THEN Nothing ELSE entities[Kind[p]]]
       /\ since' = [k \in EntityKind |->
                      {entities[k]} \cup {live'[p] : p \in {q \in DOMAIN Kind : Kind[q] = k}}]
  /\ UNCHANGED <<entities, broken, writes>>

ReloadNext ==
  \/ \E r \in Requesters :
       Begin(r) \/ Write(r) \/ GivesUp(r) \/ Lists(r) \/ Install(r) \/ LoadFails(r) \/
       CompileFails(r)
  \/ Reboot

ReloadSpec == ReloadInit /\ [][ReloadNext]_rlvars

-----------------------------------------------------------------------------
(* Properties.                                                              *)

\* When no request is under way and the last reload ran on its own, to its end and
\* without errors, every place has what is stored, whatever was left stale before:
\* by reloads that overlapped, that their client cut off, or that met pipelines
\* that do not compile.  Only tables without a lookup may linger.
QuietIsCurrent ==
  (\A r \in Requesters : Idle(r)) /\ settled =>
    \A p \in DOMAIN Kind :
      live[p] = entities[Kind[p]] \/ (p = "tables" /\ entities["lookup"] = Nothing)

\* From then on nothing brings back what had been replaced by then: whatever reloads
\* overlap, fail or are cut off, every place has something that was stored at that
\* moment or later.  (It may well have gone out of date since, and two places may
\* have it from different moments.)
NothingReturns ==
  \A p \in DOMAIN Kind :
    live[p] \in since[Kind[p]] \/ (p = "tables" /\ Nothing \in since["lookup"])

\* Reloads that no lock keeps apart (app.go:187-271, config.go:154-160): what one that
\* runs alone installs is what is stored, and is never undone by others that overlap.
ReloadsConverge == QuietIsCurrent /\ NothingReturns

=============================================================================
