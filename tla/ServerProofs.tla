---------------------------- MODULE ServerProofs ----------------------------
(***************************************************************************)
(* Proofs about modules Reload, Events and Rules: what is installed is what   *)
(* is stored whenever the last reload ran on its own, and never again what    *)
(* was replaced by then; the grace period holds between an event and every    *)
(* evaluation that looks at the throttle after it, for any number of requests *)
(* and evaluations, in any order; and a message is in the stream that the     *)
(* rules choose.                                                            *)
(***************************************************************************)
EXTENDS Reload, Events, Rules, FoldLemmas, SequenceTheorems, TLAPS

(* Reload.                                                                  *)

Pcs == {"stream", "router", "policies", "lookup", "tables", "pipeline", "rules",
        "output", "outputs", "idle", "write"}

ReloadShape ==
  /\ entities \in [EntityKind -> Revision] /\ live \in [DOMAIN Kind -> Revision]
  /\ request \in [Requesters -> [pc : Pcs, todo : Seq(EntityKind), pack : BOOLEAN,
                                 read : Revision, bad : BOOLEAN, alone : BOOLEAN,
                                 ok : BOOLEAN]]
  /\ writes \in Revision /\ settled \in BOOLEAN /\ broken \in BOOLEAN
  /\ \A r \in Requesters : request[r].pc = "write" => request[r].todo # <<>>

Current(p) == live[p] = entities[Kind[p]] \/ (p = "tables" /\ entities["lookup"] = Nothing)

\* The places a reload has been through when it is at s.
Done(s) ==
  {p \in DOMAIN Kind :
     \/ p = "router" /\ s \in {"policies", "lookup", "tables", "pipeline", "rules",
                               "output", "outputs"}
     \/ p = "policies" /\ s \in {"lookup", "tables", "pipeline", "rules", "output",
                                 "outputs"}
     \/ p = "tables" /\ s \in {"pipeline", "rules", "output", "outputs"}
     \/ p = "rules" /\ s \in {"output", "outputs"}}

\* A request that is on its own has nobody beside it, and while it meets no error all
\* that it has installed is what is stored, and so is what it has read.
AloneIsAlone ==
  \A r, q \in Requesters : request[r].alone /\ q # r => Idle(q)

OwnWork(r) ==
  request[r].alone /\ request[r].ok =>
    /\ \A p \in Done(request[r].pc) : Current(p)
    /\ request[r].pc \in DOMAIN Kind => request[r].read = entities[Kind[request[r].pc]]

\* From a reload that settles things to the next write no reload runs and every place is
\* current.
SettledIsCurrent ==
  settled => /\ \A p \in DOMAIN Kind : Current(p)
             /\ \A r \in Requesters : request[r].pc \in {"idle", "write"}

ReloadInv ==
  ReloadShape /\ AloneIsAlone /\ (\A r \in Requesters : OwnWork(r)) /\ SettledIsCurrent

LEMMA KindIs ==
  /\ DOMAIN Kind = {"router", "policies", "tables", "rules", "outputs"}
  /\ Kind["router"] = "stream" /\ Kind["policies"] = "stream" /\ Kind["tables"] = "lookup"
  /\ Kind["rules"] = "pipeline" /\ Kind["outputs"] = "output"
BY DEF Kind

\* The order of Reload.
LEMMA StepsAre ==
  /\ StepAfter("stream") = "router" /\ StepAfter("router") = "policies"
  /\ StepAfter("policies") = "lookup" /\ StepAfter("lookup") = "tables"
  /\ StepAfter("tables") = "pipeline" /\ StepAfter("pipeline") = "rules"
  /\ StepAfter("rules") = "output" /\ StepAfter("output") = "outputs"
  /\ StepAfter("outputs") = "idle"
<1>1. /\ DOMAIN Steps = 1..10 /\ Steps[1] = "stream" /\ Steps[2] = "router"
      /\ Steps[3] = "policies" /\ Steps[4] = "lookup" /\ Steps[5] = "tables"
      /\ Steps[6] = "pipeline" /\ Steps[7] = "rules" /\ Steps[8] = "output"
      /\ Steps[9] = "outputs" /\ Steps[10] = "idle"
  BY DEF Steps
<1>2. \A i, j \in 1..10 : Steps[i] = Steps[j] => i = j
  BY <1>1
<1>3. \A i \in 1..9 : StepAfter(Steps[i]) = Steps[i + 1]
  <2> SUFFICES ASSUME NEW i \in 1..9 PROVE StepAfter(Steps[i]) = Steps[i + 1]
    OBVIOUS
  <2>1. \A j \in DOMAIN Steps : Steps[j] = Steps[i] <=> j = i
    BY <1>1, <1>2
  <2> DEFINE at == CHOOSE j \in DOMAIN Steps : Steps[j] = Steps[i]
  <2>2. StepAfter(Steps[i]) = Steps[1 + at]
    BY DEF StepAfter
  <2>3. at = i
    BY <1>1, <2>1
  <2> HIDE DEF at
  <2>4. 1 + at = i + 1
    BY <2>3
  <2>5. QED
    BY <2>2, <2>4
<1>4. QED
  BY <1>1, <1>3

LEMMA ReloadStarts == ReloadInit => ReloadInv
<1> SUFFICES ASSUME ReloadInit PROVE ReloadInv
  OBVIOUS
<1>1. ReloadShape
  <2>1. Nothing \in Revision
    BY ReloadAssumption DEF Nothing, Revision
  <2>2. NoRequest \in [pc : Pcs, todo : Seq(EntityKind), pack : BOOLEAN, read : Revision,
                       bad : BOOLEAN, alone : BOOLEAN, ok : BOOLEAN]
        /\ NoRequest.pc = "idle"
    BY <2>1 DEF NoRequest, Pcs
  <2>3. /\ entities \in [EntityKind -> Revision] /\ live \in [DOMAIN Kind -> Revision]
        /\ writes \in Revision
    BY <2>1 DEF ReloadInit, Nothing
  <2>4. QED
    BY <2>2, <2>3 DEF ReloadInit, ReloadShape
<1>2. \A r \in Requesters : request[r].pc = "idle" /\ ~request[r].alone
  BY DEF ReloadInit, NoRequest
<1>3. \A p \in DOMAIN Kind : Current(p)
  BY KindIs DEF ReloadInit, Current, EntityKind
<1>4. QED
  BY <1>1, <1>2, <1>3 DEF ReloadInv, AloneIsAlone, OwnWork, SettledIsCurrent

LEMMA TailOfSeq ==
  ASSUME NEW S, NEW s \in Seq(S), s # <<>>
  PROVE  Tail(s) \in Seq(S) /\ (Len(s) # 1 => Tail(s) # <<>>)
<1>1. Tail(s) \in Seq(S) /\ Len(Tail(s)) = Len(s) - 1 /\ Len(s) \in Nat
  BY HeadTailProperties, LenProperties
<1>2. Tail(s) = <<>> => Len(Tail(s)) = 0
  BY <1>1, EmptySeq, Zenon
<1>3. QED
  BY <1>1, <1>2

LEMMA BeginStep ==
  ASSUME ReloadInv, NEW r \in Requesters, Begin(r)
  PROVE  ReloadInv'
<1>1. PICK kinds \in {<<k>> : k \in EntityKind} \cup {PackKinds} :
        request' = [q \in Requesters |->
          IF q = r THEN [NoRequest EXCEPT !.pc = "write", !.todo = kinds,
                           !.pack = kinds = PackKinds,
                           !.alone = \A p \in Requesters \ {r} : Idle(p)]
          ELSE [request[q] EXCEPT !.alone = FALSE]]
  BY DEF Begin
<1>2. Idle(r) /\ UNCHANGED <<entities, live, writes, settled, broken>>
  BY DEF Begin
<1>3. kinds \in Seq(EntityKind) /\ kinds # <<>>
  <2>1. CASE kinds = PackKinds
    BY <2>1, ReloadAssumption
  <2>2. CASE kinds \in {<<k>> : k \in EntityKind}
    <3>1. PICK k \in EntityKind : kinds = <<k>>
      BY <2>2
    <3>2. QED
      BY <3>1
  <2>3. QED
    BY <2>1, <2>2
<1> DEFINE pk == kinds = PackKinds
           al == \A p \in Requesters \ {r} : Idle(p)
<1>b. pk \in BOOLEAN /\ al \in BOOLEAN
  OBVIOUS
<1>4. /\ request'[r] = [pc |-> "write", todo |-> kinds, pack |-> pk, read |-> 0,
                        bad |-> FALSE, alone |-> al, ok |-> TRUE]
      /\ request'[r].pc = "write" /\ request'[r].todo = kinds
      /\ request'[r].alone => al
  BY <1>1 DEF NoRequest, Nothing
<1>5. \A q \in Requesters \ {r} :
        /\ request'[q].pc = request[q].pc /\ request'[q].todo = request[q].todo
        /\ request'[q].alone = FALSE
        /\ request'[q] = [request[q] EXCEPT !.alone = FALSE]
  BY <1>1 DEF ReloadInv, ReloadShape
<1>6. ReloadShape'
  <2>1. ASSUME NEW q \in Requesters
        PROVE  request'[q] \in [pc : Pcs, todo : Seq(EntityKind), pack : BOOLEAN,
                                read : Revision, bad : BOOLEAN, alone : BOOLEAN,
                                ok : BOOLEAN]
    <3>1. CASE q = r
      <4>1. "write" \in Pcs /\ 0 \in Revision
        BY ReloadAssumption DEF Pcs, Revision
      <4> HIDE DEF pk, al
      <4>2. \A x, y \in BOOLEAN :
              [pc |-> "write", todo |-> kinds, pack |-> x, read |-> 0, bad |-> FALSE,
               alone |-> y, ok |-> TRUE]
              \in [pc : Pcs, todo : Seq(EntityKind), pack : BOOLEAN, read : Revision,
                  bad : BOOLEAN, alone : BOOLEAN, ok : BOOLEAN]
        BY <1>3, <4>1
      <4>3. request'[r] = [pc |-> "write", todo |-> kinds, pack |-> pk, read |-> 0,
                           bad |-> FALSE, alone |-> al, ok |-> TRUE]
        BY <1>4
      <4>4. [pc |-> "write", todo |-> kinds, pack |-> pk, read |-> 0, bad |-> FALSE,
             alone |-> al, ok |-> TRUE]
            \in [pc : Pcs, todo : Seq(EntityKind), pack : BOOLEAN, read : Revision,
                bad : BOOLEAN, alone : BOOLEAN, ok : BOOLEAN]
        BY <1>b, <4>2, Zenon
      <4>5. QED
        BY <3>1, <4>3, <4>4, Zenon
    <3>2. CASE q # r
      <4>1. request[q] \in [pc : Pcs, todo : Seq(EntityKind), pack : BOOLEAN,
                            read : Revision, bad : BOOLEAN, alone : BOOLEAN,
                            ok : BOOLEAN]
        BY DEF ReloadInv, ReloadShape
      <4>2. request'[q] = [request[q] EXCEPT !.alone = FALSE]
        BY <1>5, <3>2
      <4>3. QED
        BY <4>1, <4>2
    <3>3. QED
      BY <3>1, <3>2
  <2>2. request' = [q \in Requesters |-> request'[q]]
    BY <1>1
  <2>3. \A q \in Requesters : request'[q].pc = "write" => request'[q].todo # <<>>
    BY <1>3, <1>4, <1>5 DEF ReloadInv, ReloadShape
  <2>4. QED
    BY <1>2, <2>1, <2>2, <2>3 DEF ReloadInv, ReloadShape
<1>7. AloneIsAlone'
  <2> SUFFICES ASSUME NEW p \in Requesters, NEW q \in Requesters, request'[p].alone, q # p
               PROVE  request'[q].pc = "idle"
    BY DEF AloneIsAlone, Idle
  <2>1. p = r
    BY <1>5
  <2>2. request[q].pc = "idle"
    BY <1>4, <2>1 DEF Idle
  <2>3. QED
    BY <1>5, <2>1, <2>2
<1>8. \A q \in Requesters : OwnWork(q)'
  BY <1>4, <1>5, KindIs DEF OwnWork, Done
<1>9. SettledIsCurrent'
  <2>1. \A p \in DOMAIN Kind : Current(p)' <=> Current(p)
    BY <1>2 DEF Current
  <2>2. \A q \in Requesters : request'[q].pc = request[q].pc \/ request'[q].pc = "write"
    BY <1>4, <1>5
  <2>3. QED
    BY <1>2, <2>1, <2>2 DEF ReloadInv, SettledIsCurrent
<1>10. QED
  BY <1>6, <1>7, <1>8, <1>9, SMTT(30) DEF ReloadInv

\* A request that ends leaves the others what they had: none of them was on its own.
LEMMA LeaveStep ==
  ASSUME ReloadInv, NEW r \in Requesters, ~Idle(r),
         request' = [request EXCEPT ![r] = NoRequest],
         live' \in [DOMAIN Kind -> Revision], UNCHANGED <<entities, broken, writes>>,
         settled' \in BOOLEAN, SettledIsCurrent'
  PROVE  ReloadInv'
<1>1. request'[r] = NoRequest /\ \A q \in Requesters \ {r} : request'[q] = request[q]
  BY DEF ReloadInv, ReloadShape
<1>2. NoRequest \in [pc : Pcs, todo : Seq(EntityKind), pack : BOOLEAN, read : Revision,
                     bad : BOOLEAN, alone : BOOLEAN, ok : BOOLEAN]
  BY ReloadAssumption DEF NoRequest, Pcs, Revision, Nothing
<1>3. ReloadShape'
  BY <1>1, <1>2 DEF ReloadInv, ReloadShape, NoRequest
<1>4. \A q \in Requesters \ {r} : ~request[q].alone
  BY DEF ReloadInv, AloneIsAlone
<1>5. \A q \in Requesters : ~request'[q].alone
  BY <1>1, <1>4 DEF NoRequest
<1>6. QED
  BY <1>3, <1>5 DEF ReloadInv, AloneIsAlone, OwnWork

\* A step of a reload under way: nothing is settled, so only this request's promise is
\* left to show, and that what it leaves behind is current if it settles things.
LEMMA WorkStep ==
  ASSUME ReloadInv, NEW r \in Requesters, ~Idle(r),
         NEW a \in [pc : Pcs \ {"idle"}, todo : Seq(EntityKind), pack : BOOLEAN,
                    read : Revision, bad : BOOLEAN, alone : BOOLEAN, ok : BOOLEAN],
         request' = [request EXCEPT ![r] = a], a.alone = request[r].alone,
         a.pc = "write" => a.todo # <<>>,
         entities' \in [EntityKind -> Revision], live' \in [DOMAIN Kind -> Revision],
         writes' \in Revision, broken' \in BOOLEAN, settled' = FALSE, OwnWork(r)'
  PROVE  ReloadInv'
<1>1. request'[r] = a /\ \A q \in Requesters \ {r} : request'[q] = request[q]
  BY DEF ReloadInv, ReloadShape
<1>2. \A q \in Requesters \ {r} : ~request[q].alone
  BY DEF ReloadInv, AloneIsAlone
<1>3. \A q \in Requesters \ {r} : OwnWork(q)'
  BY <1>1, <1>2 DEF OwnWork
<1>4. ReloadShape'
  BY <1>1 DEF ReloadInv, ReloadShape
<1>5. AloneIsAlone'
  BY <1>1, <1>2 DEF ReloadInv, AloneIsAlone, Idle
<1>6. QED
  BY <1>3, <1>4, <1>5 DEF ReloadInv, SettledIsCurrent

LEMMA WriteStep ==
  ASSUME ReloadInv, NEW r \in Requesters, Write(r)
  PROVE  ReloadInv'
<1> DEFINE a == [request[r] EXCEPT !.todo = Tail(request[r].todo),
                   !.pc = IF Len(request[r].todo) = 1 THEN "stream" ELSE request[r].pc]
<1>1. /\ request[r].pc = "write" /\ writes < MaxWrites /\ writes' = writes + 1
      /\ settled' = FALSE /\ live' = live
      /\ \E revision \in {writes', Nothing} :
           entities' = [entities EXCEPT ![Head(request[r].todo)] = revision]
  BY DEF Write
<1>2. request' = [request EXCEPT ![r] = a]
  BY DEF Write, ReloadInv, ReloadShape
<1>3. /\ request[r] \in [pc : Pcs, todo : Seq(EntityKind), pack : BOOLEAN, read : Revision,
                         bad : BOOLEAN, alone : BOOLEAN, ok : BOOLEAN]
      /\ request[r].todo # <<>>
  BY <1>1 DEF ReloadInv, ReloadShape
<1>4. /\ Tail(request[r].todo) \in Seq(EntityKind)
      /\ Len(request[r].todo) # 1 => Tail(request[r].todo) # <<>>
  BY <1>3, TailOfSeq
<1>5. /\ a \in [pc : Pcs \ {"idle"}, todo : Seq(EntityKind), pack : BOOLEAN,
                read : Revision, bad : BOOLEAN, alone : BOOLEAN, ok : BOOLEAN]
      /\ a.alone = request[r].alone /\ a.pc \in {"write", "stream"}
      /\ a.pc = "write" => a.todo # <<>>
  BY <1>1, <1>3, <1>4 DEF Pcs
<1>6. writes' \in Revision /\ Nothing \in Revision
  BY <1>1, ReloadAssumption DEF ReloadInv, ReloadShape, Revision, Nothing
<1>7. /\ entities' \in [EntityKind -> Revision] /\ live' \in [DOMAIN Kind -> Revision]
      /\ broken' \in BOOLEAN
  BY <1>1, <1>6 DEF ReloadInv, ReloadShape, Write
<1>8. request'[r] = a
  BY <1>2 DEF ReloadInv, ReloadShape
<1> HIDE DEF a
<1>9. OwnWork(r)'
  BY <1>5, <1>8, KindIs DEF OwnWork, Done
<1>10. ~Idle(r)
  BY <1>1 DEF Idle
<1>11. QED
  BY <1>1, <1>2, <1>5, <1>6, <1>7, <1>9, <1>10, WorkStep

LEMMA ListsStep ==
  ASSUME ReloadInv, NEW r \in Requesters, Lists(r)
  PROVE  ReloadInv'
<1> DEFINE k == request[r].pc
           a == [request[r] EXCEPT !.pc = StepAfter(k), !.bad = broken,
                   !.read = entities[k]]
<1>1. k \in EntityKind /\ UNCHANGED <<entities, live, writes, settled, broken>>
  BY DEF Lists
<1>2. request' = [request EXCEPT ![r] = a]
  BY DEF Lists, ReloadInv, ReloadShape
<1>3. /\ request[r] \in [pc : Pcs, todo : Seq(EntityKind), pack : BOOLEAN, read : Revision,
                         bad : BOOLEAN, alone : BOOLEAN, ok : BOOLEAN]
      /\ broken \in BOOLEAN /\ entities[k] \in Revision
  BY <1>1 DEF ReloadInv, ReloadShape
<1>4. /\ StepAfter(k) \in DOMAIN Kind /\ Kind[StepAfter(k)] = k /\ ~Idle(r)
      /\ StepAfter(k) \in Pcs \ {"idle", "write"} /\ Done(StepAfter(k)) = Done(k)
  BY <1>1, StepsAre, KindIs DEF EntityKind, Pcs, Done, Idle
<1>5. settled = FALSE
  BY <1>1 DEF ReloadInv, ReloadShape, SettledIsCurrent, EntityKind
<1>6. /\ a \in [pc : Pcs \ {"idle"}, todo : Seq(EntityKind), pack : BOOLEAN,
                read : Revision, bad : BOOLEAN, alone : BOOLEAN, ok : BOOLEAN]
      /\ a.alone = request[r].alone /\ a.ok = request[r].ok /\ a.pc = StepAfter(k)
      /\ a.read = entities[k] /\ a.pc # "write"
  BY <1>3, <1>4
<1>7. request'[r] = a
  BY <1>2 DEF ReloadInv, ReloadShape
<1>8. OwnWork(r)'
  <2>1. OwnWork(r)
    BY DEF ReloadInv
  <2> HIDE DEF a
  <2>2. QED
    BY <1>1, <1>4, <1>6, <1>7, <2>1 DEF OwnWork, Current
<1>9. /\ entities' \in [EntityKind -> Revision] /\ live' \in [DOMAIN Kind -> Revision]
      /\ writes' \in Revision /\ broken' \in BOOLEAN
  BY <1>1 DEF ReloadInv, ReloadShape
<1> HIDE DEF a, k
<1>10. QED
  BY <1>1, <1>2, <1>4, <1>5, <1>6, <1>8, <1>9, WorkStep

\* A table whose source cannot be read: the request has met an error.
LEMMA LoadFailsStep ==
  ASSUME ReloadInv, NEW r \in Requesters, LoadFails(r)
  PROVE  ReloadInv'
<1> DEFINE a == [request[r] EXCEPT !.pc = StepAfter("tables"), !.ok = FALSE]
<1>1. request[r].pc = "tables" /\ UNCHANGED <<entities, live, writes, settled, broken>>
  BY DEF LoadFails
<1>2. request' = [request EXCEPT ![r] = a]
  BY <1>1 DEF LoadFails, ReloadInv, ReloadShape
<1>3. request[r] \in [pc : Pcs, todo : Seq(EntityKind), pack : BOOLEAN, read : Revision,
                      bad : BOOLEAN, alone : BOOLEAN, ok : BOOLEAN]
  BY DEF ReloadInv, ReloadShape
<1>4. /\ a \in [pc : Pcs \ {"idle"}, todo : Seq(EntityKind), pack : BOOLEAN,
                read : Revision, bad : BOOLEAN, alone : BOOLEAN, ok : BOOLEAN]
      /\ a.alone = request[r].alone /\ a.ok = FALSE /\ a.pc # "write"
  BY <1>3, StepsAre DEF Pcs
<1>5. settled = FALSE /\ ~Idle(r)
  BY <1>1 DEF ReloadInv, ReloadShape, SettledIsCurrent, Idle
<1>6. request'[r] = a
  BY <1>2 DEF ReloadInv, ReloadShape
<1>7. /\ entities' \in [EntityKind -> Revision] /\ live' \in [DOMAIN Kind -> Revision]
      /\ writes' \in Revision /\ broken' \in BOOLEAN
  BY <1>1 DEF ReloadInv, ReloadShape
<1> HIDE DEF a
<1>8. OwnWork(r)'
  BY <1>4, <1>6 DEF OwnWork
<1>9. QED
  BY <1>1, <1>2, <1>4, <1>5, <1>7, <1>8, WorkStep

LEMMA InstallStep ==
  ASSUME ReloadInv, NEW r \in Requesters, Install(r)
  PROVE  ReloadInv'
<1> DEFINE p == request[r].pc
           a == [request[r] EXCEPT !.pc = StepAfter(p)]
<1>1. /\ p \in DOMAIN Kind /\ UNCHANGED <<entities, broken, writes>>
      /\ live' = [live EXCEPT ![p] = Installed(p, request[r].read)]
      /\ request' = [request EXCEPT ![r] = IF StepAfter(p) = "idle" THEN NoRequest ELSE a]
      /\ settled' = IF StepAfter(p) = "idle" THEN request[r].alone /\ request[r].ok
                    ELSE settled
  <2>1. p \in DOMAIN Kind /\ UNCHANGED <<entities, broken, writes>>
    BY DEF Install
  <2>2. live' = [live EXCEPT ![p] = Installed(p, request[r].read)]
    BY DEF Install
  <2>3. request' = [request EXCEPT ![r] = IF StepAfter(p) = "idle" THEN NoRequest ELSE a]
    BY DEF Install
  <2>4. settled' = IF StepAfter(p) = "idle" THEN request[r].alone /\ request[r].ok
                   ELSE settled
    BY Zenon DEF Install
  <2>5. QED
    BY <2>1, <2>2, <2>3, <2>4
<1>2. /\ request[r] \in [pc : Pcs, todo : Seq(EntityKind), pack : BOOLEAN, read : Revision,
                         bad : BOOLEAN, alone : BOOLEAN, ok : BOOLEAN]
      /\ ~Idle(r) /\ p \notin {"idle", "write"} /\ OwnWork(r)
  BY <1>1, KindIs DEF ReloadInv, ReloadShape, Idle
<1>3. settled = FALSE
  BY <1>2 DEF ReloadInv, ReloadShape, SettledIsCurrent
<1>4. /\ live' \in [DOMAIN Kind -> Revision]
      /\ \A q \in DOMAIN Kind \ {p} : live'[q] = live[q]
      /\ live'[p] = Installed(p, request[r].read)
  BY <1>1, <1>2 DEF ReloadInv, ReloadShape, Installed
<1>5. request[r].alone /\ request[r].ok => \A q \in Done(p) \cup {p} : Current(q)'
  <2> SUFFICES ASSUME request[r].alone, request[r].ok, NEW q \in Done(p) \cup {p}
               PROVE  Current(q)'
    OBVIOUS
  <2>1. request[r].read = entities[Kind[p]] /\ (q # p => Current(q))
    BY <1>1, <1>2 DEF OwnWork
  <2>2. CASE q = p
    <3>1. Kind["tables"] = "lookup"
      BY KindIs
    <3>2. QED
      BY <1>1, <1>4, <2>1, <2>2, <3>1 DEF Current, Installed
  <2>3. CASE q # p
    <3>1. q \in DOMAIN Kind
      BY <2>3 DEF Done
    <3>2. QED
      BY <1>1, <1>4, <2>1, <2>3, <3>1 DEF Current
  <2>4. QED
    BY <2>2, <2>3
<1>6. CASE p = "outputs"
  <2>1. /\ request' = [request EXCEPT ![r] = NoRequest]
        /\ settled' = (request[r].alone /\ request[r].ok)
    BY <1>1, <1>6, StepsAre
  <2>2. Done(p) \cup {p} = DOMAIN Kind
    BY <1>6, KindIs DEF Done
  <2>3. SettledIsCurrent'
    <3> SUFFICES ASSUME settled' PROVE SettledIsCurrent'
      BY DEF SettledIsCurrent
    <3>1. request[r].alone /\ request[r].ok
      BY <2>1
    <3>2. \A q \in DOMAIN Kind : Current(q)'
      BY <1>5, <2>2, <3>1
    <3>3. \A q \in Requesters : request'[q].pc = "idle"
      BY <2>1, <3>1 DEF ReloadInv, ReloadShape, AloneIsAlone, Idle, NoRequest
    <3>4. QED
      BY <3>2, <3>3 DEF SettledIsCurrent
  <2>4. settled' \in BOOLEAN
    BY <1>2, <2>1
  <2>5. QED
    BY <1>1, <1>2, <1>4, <2>1, <2>3, <2>4, LeaveStep
<1>7. CASE p # "outputs"
  <2>1. /\ StepAfter(p) \in Pcs \ {"idle", "write"}
        /\ Done(StepAfter(p)) \subseteq Done(p) \cup {p}
        /\ StepAfter(p) \in DOMAIN Kind => Kind[StepAfter(p)] = Kind[p]
    BY <1>1, <1>7, StepsAre, KindIs DEF Pcs, Done
  <2>2. request' = [request EXCEPT ![r] = a] /\ settled' = FALSE
    BY <1>1, <1>3, <2>1
  <2>3. /\ a \in [pc : Pcs \ {"idle"}, todo : Seq(EntityKind), pack : BOOLEAN,
                  read : Revision, bad : BOOLEAN, alone : BOOLEAN, ok : BOOLEAN]
        /\ a.alone = request[r].alone /\ a.ok = request[r].ok /\ a.pc = StepAfter(p)
        /\ a.read = request[r].read /\ a.pc # "write"
    BY <1>2, <2>1
  <2>4. request'[r] = a
    BY <2>2 DEF ReloadInv, ReloadShape
  <2>5. /\ entities' \in [EntityKind -> Revision] /\ writes' \in Revision
        /\ broken' \in BOOLEAN
    BY <1>1 DEF ReloadInv, ReloadShape
  <2> HIDE DEF a
  <2>6. OwnWork(r)'
    BY <1>1, <1>2, <1>5, <2>1, <2>3, <2>4 DEF OwnWork
  <2>7. QED
    BY <1>2, <1>4, <2>2, <2>3, <2>5, <2>6, WorkStep
<1>8. QED
  BY <1>6, <1>7

LEMMA RebootStep ==
  ASSUME ReloadInv, Reboot
  PROVE  ReloadInv'
<1>1. PICK loads \in BOOLEAN :
        /\ settled' = (loads /\ ~broken)
        /\ live' = [p \in DOMAIN Kind |->
                     IF \/ p = "tables" /\ ~loads
                        \/ p \in {"rules", "outputs"} /\ broken
                     THEN Nothing ELSE entities[Kind[p]]]
  BY DEF Reboot
<1>2. UNCHANGED <<entities, broken, writes>> /\ request' = [r \in Requesters |-> NoRequest]
  BY DEF Reboot
<1>3. \A p \in DOMAIN Kind : Kind[p] \in EntityKind
  BY KindIs DEF EntityKind
<1>4. Nothing \in Revision
  BY ReloadAssumption DEF Nothing, Revision
<1>5. live' \in [DOMAIN Kind -> Revision] /\ settled' \in BOOLEAN
  BY <1>1, <1>3, <1>4 DEF ReloadInv, ReloadShape
<1>6. NoRequest \in [pc : Pcs, todo : Seq(EntityKind), pack : BOOLEAN, read : Revision,
                     bad : BOOLEAN, alone : BOOLEAN, ok : BOOLEAN]
      /\ NoRequest.pc = "idle" /\ ~NoRequest.alone
  BY <1>4 DEF NoRequest, Pcs
<1>7. ReloadShape'
  BY <1>2, <1>5, <1>6 DEF ReloadInv, ReloadShape
<1>8. SettledIsCurrent'
  <2>1. settled' => \A p \in DOMAIN Kind : live'[p] = entities[Kind[p]]
    BY <1>1
  <2>2. QED
    BY <1>2, <1>6, <2>1 DEF SettledIsCurrent, Current
<1>9. AloneIsAlone' /\ \A r \in Requesters : OwnWork(r)'
  BY <1>2, <1>6 DEF AloneIsAlone, OwnWork
<1>10. QED
  BY <1>7, <1>8, <1>9 DEF ReloadInv

LEMMA ReloadStep ==
  ASSUME ReloadInv, [ReloadNext]_rlvars
  PROVE  ReloadInv'
<1>1. ASSUME NEW r \in Requesters, GivesUp(r) \/ CompileFails(r) PROVE ReloadInv'
  <2>1. /\ ~Idle(r) /\ settled' = FALSE /\ UNCHANGED <<entities, broken, live, writes>>
        /\ request' = [request EXCEPT ![r] = NoRequest]
    BY <1>1 DEF GivesUp, CompileFails, Idle, EntityKind
  <2>2. live' \in [DOMAIN Kind -> Revision] /\ SettledIsCurrent'
    BY <2>1 DEF ReloadInv, ReloadShape, SettledIsCurrent
  <2>3. QED
    BY <2>1, <2>2, LeaveStep
<1>2. CASE UNCHANGED rlvars
  BY <1>2 DEF rlvars, ReloadInv, ReloadShape, AloneIsAlone, OwnWork, SettledIsCurrent, Current, Idle
<1>3. QED
  BY <1>1, <1>2, BeginStep, WriteStep, ListsStep, InstallStep, LoadFailsStep, RebootStep
     DEF ReloadNext

\* Everything in the metadata store was stored since things last were settled, and so was
\* what a reload has read, for no reload was under way then.
SinceInv ==
  /\ since \in [EntityKind -> SUBSET Revision]
  /\ \A k \in EntityKind : entities[k] \in since[k]
  /\ \A r \in Requesters :
       request[r].pc \in DOMAIN Kind => request[r].read \in since[Kind[request[r].pc]]
  /\ NothingReturns

LEMMA KindsAre == \A p \in DOMAIN Kind : Kind[p] \in EntityKind
  BY KindIs DEF EntityKind

LEMMA SinceStarts == ReloadInit => SinceInv
<1> SUFFICES ASSUME ReloadInit PROVE SinceInv
  OBVIOUS
<1>1. Nothing \in Revision
  BY ReloadAssumption DEF Nothing, Revision
<1>2. \A k \in EntityKind : since[k] = {Nothing} /\ entities[k] = Nothing
  BY DEF ReloadInit
<1>3. since \in [EntityKind -> SUBSET Revision]
  BY <1>1 DEF ReloadInit
<1>4. \A r \in Requesters : request[r].pc \notin DOMAIN Kind
  BY KindIs DEF ReloadInit, NoRequest
<1>5. \A p \in DOMAIN Kind : live[p] = Nothing
  BY DEF ReloadInit
<1>6. QED
  BY <1>2, <1>3, <1>4, <1>5, KindsAre DEF SinceInv, NothingReturns

\* Steps that store and install nothing, and after which no request is about to install
\* what it was not about to install before.
LEMMA SinceFrame ==
  ASSUME SinceInv, UNCHANGED <<entities, live, since>>,
         \A r \in Requesters :
           request'[r].pc \in DOMAIN Kind =>
             \/ request[r].pc \in DOMAIN Kind /\ Kind[request'[r].pc] = Kind[request[r].pc]
                  /\ request'[r].read = request[r].read
             \/ request'[r].read = entities[Kind[request'[r].pc]]
  PROVE  SinceInv'
<1>1. NothingReturns'
  BY DEF SinceInv, NothingReturns
<1>2. ASSUME NEW r \in Requesters, request'[r].pc \in DOMAIN Kind
      PROVE  request'[r].read \in since[Kind[request'[r].pc]]
  BY <1>2, KindsAre DEF SinceInv
<1>3. QED
  BY <1>1, <1>2 DEF SinceInv

LEMMA SinceStep ==
  ASSUME ReloadInv, SinceInv, [ReloadNext]_rlvars
  PROVE  SinceInv'
<1>k. \A p \in DOMAIN Kind : p \notin {"idle", "write"} /\ p \notin EntityKind
  BY KindIs DEF EntityKind
<1>f. request \in [Requesters -> [pc : Pcs, todo : Seq(EntityKind), pack : BOOLEAN,
                                 read : Revision, bad : BOOLEAN, alone : BOOLEAN,
                                 ok : BOOLEAN]]
  BY DEF ReloadInv, ReloadShape
<1>1. ASSUME NEW r \in Requesters, Begin(r) PROVE SinceInv'
  <2>1. PICK kinds :
          request' = [q \in Requesters |->
            IF q = r THEN [NoRequest EXCEPT !.pc = "write", !.todo = kinds,
                             !.pack = kinds = PackKinds,
                             !.alone = \A p \in Requesters \ {r} : Idle(p)]
            ELSE [request[q] EXCEPT !.alone = FALSE]]
    BY <1>1 DEF Begin
  <2>2. request'[r].pc = "write"
    BY <2>1 DEF NoRequest
  <2>3. \A q \in Requesters \ {r} :
          request'[q].pc = request[q].pc /\ request'[q].read = request[q].read
    BY <1>f, <2>1
  <2>4. UNCHANGED <<entities, live, since>>
    BY <1>1 DEF Begin
  <2>5. QED
    BY <1>k, <2>2, <2>3, <2>4, SinceFrame, SMTT(30)
<1>2. ASSUME NEW r \in Requesters, Write(r) PROVE SinceInv'
  <2>k. PICK k : k = Head(request[r].todo)
    OBVIOUS
  <2>1. PICK revision \in {writes', Nothing} :
          /\ entities' = [entities EXCEPT ![k] = revision]
          /\ since' = [since EXCEPT ![k] = since[k] \cup {revision}]
    BY <1>2, <2>k, Zenon DEF Write
  <2>2. k \in EntityKind
    <3>1. request[r].todo \in Seq(EntityKind) /\ request[r].todo # <<>>
      BY <1>2, <1>f DEF Write, ReloadInv, ReloadShape
    <3>2. QED
      BY <2>k, <3>1, HeadTailProperties
  <2>3. writes' \in Revision /\ Nothing \in Revision
    BY <1>2, ReloadAssumption DEF Write, ReloadInv, ReloadShape, Revision, Nothing
  <2>4. /\ since' \in [EntityKind -> SUBSET Revision]
        /\ \A j \in EntityKind : since[j] \subseteq since'[j]
    BY <2>1, <2>2, <2>3 DEF SinceInv
  <2>5. \A j \in EntityKind : entities'[j] \in since'[j]
    BY <2>1, <2>2 DEF SinceInv, ReloadInv, ReloadShape
  <2>6. /\ \A q \in Requesters \ {r} : request'[q] = request[q]
        /\ request'[r].pc \in {"write", "stream"}
    BY <1>2, <1>f DEF Write
  <2>7. \A q \in Requesters :
          request'[q].pc \in DOMAIN Kind => request'[q].read \in since'[Kind[request'[q].pc]]
    <3> SUFFICES ASSUME NEW q \in Requesters, request'[q].pc \in DOMAIN Kind
                 PROVE  request'[q].read \in since'[Kind[request'[q].pc]]
      OBVIOUS
    <3>1. request'[q] = request[q]
      BY <1>k, <2>6 DEF EntityKind
    <3>2. QED
      BY <2>4, <3>1, KindsAre DEF SinceInv
  <2>8. NothingReturns'
    <3>1. live' = live /\ "lookup" \in EntityKind
      BY <1>2 DEF Write, EntityKind
    <3>2. QED
      BY <2>4, <3>1, KindsAre DEF SinceInv, NothingReturns
  <2>9. QED
    BY <2>4, <2>5, <2>7, <2>8 DEF SinceInv
<1>3. ASSUME NEW r \in Requesters, GivesUp(r) \/ CompileFails(r) PROVE SinceInv'
  <2>1. UNCHANGED <<entities, live, since>> /\ request' = [request EXCEPT ![r] = NoRequest]
    BY <1>3 DEF GivesUp, CompileFails
  <2>2. request'[r].pc = "idle" /\ \A q \in Requesters \ {r} : request'[q] = request[q]
    BY <1>f, <2>1 DEF NoRequest
  <2>3. QED
    BY <1>k, <2>1, <2>2, SinceFrame
<1>4. ASSUME NEW r \in Requesters, Lists(r) PROVE SinceInv'
  <2>1. PICK k \in EntityKind : k = request[r].pc
    BY <1>4 DEF Lists
  <2>2. /\ request'[r].pc = StepAfter(k) /\ request'[r].read = entities[k]
        /\ \A q \in Requesters \ {r} : request'[q] = request[q]
        /\ UNCHANGED <<entities, live, since>>
    BY <1>4, <1>f, <2>1 DEF Lists
  <2>3. Kind[StepAfter(k)] = k
    BY <2>1, StepsAre, KindIs DEF EntityKind
  <2>4. QED
    BY <2>2, <2>3, SinceFrame
<1>5. ASSUME NEW r \in Requesters, LoadFails(r) PROVE SinceInv'
  <2>1. /\ request'[r].pc = "pipeline" /\ UNCHANGED <<entities, live, since>>
        /\ \A q \in Requesters \ {r} : request'[q] = request[q]
    BY <1>5, <1>f, StepsAre DEF LoadFails
  <2>2. QED
    BY <1>k, <2>1, SinceFrame DEF EntityKind
<1>6. ASSUME NEW r \in Requesters, Install(r) PROVE SinceInv'
  <2>p. PICK p \in DOMAIN Kind : p = request[r].pc
    BY <1>6 DEF Install
  <2>1. PICK s, read : p = request[r].pc /\ s = StepAfter(p) /\ read = request[r].read
    BY <2>p
  <2>2. /\ live' = [live EXCEPT ![p] = Installed(p, read)] /\ entities' = entities
        /\ request' = [request EXCEPT ![r] = IF s = "idle" THEN NoRequest
                                             ELSE [request[r] EXCEPT !.pc = s]]
    BY <1>6, <2>1 DEF Install
  <2>3. since' = IF s = "idle" /\ settled' THEN Stored ELSE since
    BY <1>6, <2>1, Zenon DEF Install
  <2>4. read \in since[Kind[p]]
    BY <2>1 DEF SinceInv
  <2>5. CASE s = "idle" /\ settled'
    <3>1. ReloadInv'
      BY <1>6, InstallStep
    <3>2. \A q \in DOMAIN Kind : Current(q)'
      BY <2>5, <3>1 DEF ReloadInv, SettledIsCurrent
    <3>3. since' = [k \in EntityKind |-> {entities[k]}]
      BY <2>3, <2>5 DEF Stored
    <3>4. \A k \in EntityKind : since'[k] = {entities'[k]} /\ entities[k] \in Revision
      BY <2>2, <3>3 DEF ReloadInv, ReloadShape
    <3>5. since' \in [EntityKind -> SUBSET Revision]
      BY <3>3, <3>4
    <3>6. \A q \in Requesters : request'[q].pc \notin DOMAIN Kind
      BY <1>k, <2>5, <3>1 DEF ReloadInv, SettledIsCurrent
    <3>7. NothingReturns'
      BY <3>2, <3>4, KindsAre, KindIs DEF NothingReturns, Current
    <3>8. QED
      BY <3>4, <3>5, <3>6, <3>7 DEF SinceInv
  <2>6. CASE ~(s = "idle" /\ settled')
    <3>1. since' = since
      BY <2>3, <2>6
    <3>2. /\ \A q \in DOMAIN Kind \ {p} : live'[q] = live[q]
          /\ live'[p] = Installed(p, read)
      BY <2>2 DEF ReloadInv, ReloadShape
    <3>3. NothingReturns'
      BY <2>4, <3>1, <3>2, KindIs DEF SinceInv, NothingReturns, Installed
    <3>4. /\ \A q \in Requesters \ {r} : request'[q] = request[q]
          /\ s = "idle" => request'[r].pc = "idle"
          /\ s # "idle" => request'[r].pc = s /\ request'[r].read = read
      BY <1>f, <2>1, <2>2 DEF NoRequest
    <3>5. s \in DOMAIN Kind => Kind[s] = Kind[p]
      BY <2>1, StepsAre, KindIs
    <3>6. \A q \in Requesters :
            request'[q].pc \in DOMAIN Kind => request'[q].read \in since[Kind[request'[q].pc]]
      BY <1>k, <2>4, <3>4, <3>5 DEF SinceInv
    <3>7. QED
      BY <2>2, <3>1, <3>3, <3>6 DEF SinceInv
  <2>7. QED
    BY <2>5, <2>6
<1>7. CASE Reboot
  <2>1. /\ entities' = entities /\ live' \in [DOMAIN Kind -> Revision]
        /\ since' = [k \in EntityKind |->
                       {entities[k]} \cup {live'[p] : p \in {q \in DOMAIN Kind : Kind[q] = k}}]
        /\ \A r \in Requesters : request'[r].pc = "idle"
    <3>1. ReloadInv'
      BY <1>7, RebootStep
    <3>2. QED
      BY <1>7, <3>1 DEF Reboot, ReloadInv, ReloadShape, NoRequest
  <2>2. \A k \in EntityKind :
          since'[k] = {entities[k]} \cup {live'[p] : p \in {q \in DOMAIN Kind : Kind[q] = k}}
    BY <2>1
  <2>3. \A k \in EntityKind : since'[k] \in SUBSET Revision /\ entities[k] \in since'[k]
    BY <2>1, <2>2 DEF ReloadInv, ReloadShape
  <2>4. since' \in [EntityKind -> SUBSET Revision]
    BY <2>1, <2>3
  <2>5. NothingReturns'
    BY <2>2, KindsAre DEF NothingReturns
  <2>6. QED
    BY <1>k, <2>1, <2>3, <2>4, <2>5 DEF SinceInv
<1>8. CASE UNCHANGED rlvars
  BY <1>8 DEF rlvars, SinceInv, NothingReturns
<1>9. QED
  BY <1>1, <1>2, <1>3, <1>4, <1>5, <1>6, <1>7, <1>8 DEF ReloadNext

LEMMA ConvergeInv == ReloadInv /\ SinceInv => ReloadsConverge
  BY DEF ReloadInv, SettledIsCurrent, Current, QuietIsCurrent, SinceInv, ReloadsConverge

\* However requests, their reloads, failures and restarts interleave: when all is quiet
\* after a reload that nothing disturbed, every part of the server works with what is
\* stored, and from then on never again with what had been replaced by then, whatever
\* reloads overlap, fail or are cut off later (app.go:187-271, config.go:154-160).
THEOREM QuietConverges == ReloadSpec => []ReloadsConverge
<1>1. ReloadInit => ReloadInv /\ SinceInv
  BY ReloadStarts, SinceStarts
<1>2. ReloadInv /\ SinceInv /\ [ReloadNext]_rlvars => (ReloadInv /\ SinceInv)'
  BY ReloadStep, SinceStep
<1>3. QED
  BY <1>1, <1>2, ConvergeInv, PTL DEF ReloadSpec

-----------------------------------------------------------------------------
(* Events.                                                                  *)

Job ==
  [pc : {"idle", "next", "query", "fire", "insert", "send"},
   todo : SUBSET Defs, def : SUBSET Defs, rows : SUBSET AllGroups,
   row : SUBSET AllGroups, mark : Nat, seen : Nat, checkedAt : Nat]

Event == [def : Defs, at : Nat, engine : Nat, seen : Nat, checkedAt : Nat]

EventShape ==
  /\ clock \in Nat /\ engines \in Nat /\ enabled \subseteq Defs
  /\ lastFired \in [Defs -> Int] /\ \A d \in Defs : lastFired[d] <= clock
  /\ job \in [Jobs -> Job] /\ fired \in Seq(Event)

\* lastFired is never behind an event of this life, nor behind one about to be inserted.
EventsMarked ==
  \A i \in 1..Len(fired) :
    /\ fired[i].engine <= engines /\ fired[i].seen <= Len(fired)
    /\ fired[i].engine = engines => fired[i].at <= lastFired[fired[i].def]

\* An evaluation past the throttle is out of the grace of all that it saw.
JobOK(a) ==
  /\ a.seen <= Len(fired) /\ \A c, d \in a.def : c = d
  /\ \A d \in a.def :
       /\ a.pc = "insert" => a.mark <= lastFired[d]
       /\ \A i \in 1..a.seen :
            fired[i].def = d /\ fired[i].engine = engines =>
              a.checkedAt - fired[i].at >= Grace[d]

GraceBetween(e, f, n) ==
  e.def = f.def /\ e.engine = f.engine /\ n <= f.seen => f.checkedAt - e.at >= Grace[f.def]

EventInv ==
  /\ EventShape /\ EventsMarked /\ \A j \in Jobs : JobOK(job[j])
  /\ \A i, k \in 1..Len(fired) : GraceBetween(fired[i], fired[k], i)

LEMMA NoJobIs == NoJob \in Job /\ NoJob.seen = 0 /\ NoJob.def = {}
BY DEF NoJob, Job

LEMMA EventStarts == EventInit => EventInv
<1> SUFFICES ASSUME EventInit PROVE EventInv
  OBVIOUS
<1>1. fired = <<>> /\ Len(fired) = 0 /\ fired \in Seq(Event)
  BY EmptySeq DEF EventInit
<1>2. EventShape
  BY <1>1, NoJobIs DEF EventInit, EventShape, Never
<1>3. \A j \in Jobs : job[j] = NoJob
  BY DEF EventInit
<1>4. \A j \in Jobs : JobOK(job[j])
  BY <1>1, <1>3, NoJobIs DEF JobOK
<1>5. QED
  BY <1>1, <1>2, <1>4 DEF EventInv, EventsMarked

\* A step of one evaluation that records no event.
LEMMA JobStep ==
  ASSUME EventInv, NEW j \in Jobs, NEW a \in Job, job' = [job EXCEPT ![j] = a],
         UNCHANGED <<clock, fired, engines>>, enabled' \subseteq Defs,
         lastFired' \in [Defs -> Int],
         \A d \in Defs : lastFired[d] <= lastFired'[d] /\ lastFired'[d] <= clock,
         JobOK(a)'
  PROVE  EventInv'
<1>1. EventShape'
  BY DEF EventInv, EventShape
<1>2. Len(fired) \in Nat /\ \A i \in 1..Len(fired) : fired[i] \in Event
  BY ElementOfSeq, LenProperties DEF EventInv, EventShape
<1>3. EventsMarked'
  <2> SUFFICES ASSUME NEW i \in 1..Len(fired), fired[i].engine = engines
               PROVE  fired[i].at <= lastFired'[fired[i].def]
    BY DEF EventInv, EventsMarked
  <2>1. fired[i].at <= lastFired[fired[i].def] /\ fired[i].def \in Defs /\ fired[i].at \in Nat
    BY <1>2 DEF EventInv, EventsMarked, Event
  <2>2. lastFired[fired[i].def] \in Int /\ lastFired'[fired[i].def] \in Int
    BY <2>1 DEF EventInv, EventShape
  <2>3. QED
    BY <2>1, <2>2
<1>4. ASSUME NEW k \in Jobs PROVE JobOK(job[k])'
  <2>1. CASE k = j
    BY <2>1 DEF EventInv, EventShape
  <2>2. CASE k # j
    <3>1. job'[k] = job[k] /\ JobOK(job[k]) /\ job[k] \in Job
      BY <2>2 DEF EventInv, EventShape
    <3>2. ASSUME NEW d \in job[k].def, job[k].pc = "insert"
          PROVE  job[k].mark <= lastFired'[d]
      <4>1. d \in Defs /\ job[k].mark \in Nat /\ job[k].mark <= lastFired[d]
        BY <3>1, <3>2 DEF Job, JobOK
      <4>2. lastFired[d] \in Int /\ lastFired'[d] \in Int
        BY <4>1 DEF EventInv, EventShape
      <4>3. QED
        BY <4>1, <4>2
    <3>3. QED
      BY <3>1, <3>2 DEF JobOK
  <2>3. QED
    BY <2>1, <2>2
<1>5. QED
  BY <1>1, <1>3, <1>4 DEF EventInv, GraceBetween

LEMMA EvaluateStep ==
  ASSUME EventInv, NEW j \in Jobs, Evaluate(j)
  PROVE  EventInv'
<1>1. PICK d \in job[j].todo :
        job' = [job EXCEPT ![j] =
          IF Throttled(d) THEN [job[j] EXCEPT !.todo = job[j].todo \ {d}]
          ELSE [job[j] EXCEPT !.todo = job[j].todo \ {d}, !.def = {d}, !.pc = "query",
                              !.seen = Len(fired), !.checkedAt = clock]]
  BY DEF Evaluate
<1>2. UNCHANGED <<clock, enabled, lastFired, fired, engines>> /\ job[j].pc = "next"
  BY DEF Evaluate
<1>3. job[j] \in Job /\ JobOK(job[j]) /\ d \in Defs /\ Len(fired) \in Nat /\ clock \in Nat
  BY LenProperties DEF EventInv, EventShape, Job
<1>4. \A k \in Defs : lastFired[k] <= lastFired[k] /\ lastFired[k] <= clock
  BY DEF EventInv, EventShape
<1>5. CASE Throttled(d)
  <2>0. PICK a \in Job : a = [job[j] EXCEPT !.todo = job[j].todo \ {d}]
    BY <1>3 DEF Job
  <2>1. /\ a.pc = "next" /\ a.seen = job[j].seen /\ a.def = job[j].def
        /\ a.checkedAt = job[j].checkedAt
    BY <1>2, <1>3, <2>0 DEF Job
  <2>2. job' = [job EXCEPT ![j] = a]
    BY <1>1, <1>5, <2>0
  <2>3. JobOK(a)'
    BY <1>2, <1>3, <2>1 DEF JobOK
  <2>4. QED
    BY <1>2, <1>4, <2>1, <2>2, <2>3, JobStep DEF EventInv, EventShape
<1>6. CASE ~Throttled(d)
  <2>0. PICK a \in Job :
          a = [job[j] EXCEPT !.todo = job[j].todo \ {d}, !.def = {d}, !.pc = "query",
                             !.seen = Len(fired), !.checkedAt = clock]
    BY <1>3 DEF Job
  <2>1. a.pc = "query" /\ a.seen = Len(fired) /\ a.def = {d} /\ a.checkedAt = clock
    BY <1>2, <1>3, <2>0 DEF Job
  <2>2. job' = [job EXCEPT ![j] = a]
    BY <1>1, <1>6, <2>0
  <2>3. ASSUME NEW i \in 1..Len(fired), fired[i].def = d, fired[i].engine = engines
        PROVE  clock - fired[i].at >= Grace[d]
    <3>1. fired[i].at <= lastFired[d] /\ fired[i] \in Event
      BY <2>3, ElementOfSeq DEF EventInv, EventShape, EventsMarked
    <3>2. fired[i].at \in Nat /\ lastFired[d] \in Int /\ Grace[d] \in Nat
      BY <1>3, <3>1, EventsAssumption DEF EventInv, EventShape, Event
    <3>3. lastFired[d] # Never /\ lastFired[d] <= clock
      BY <1>3, <1>4, <3>1, <3>2 DEF Never
    <3>4. Grace[d] = 0 \/ clock - lastFired[d] >= Grace[d]
      BY <1>3, <1>6, <3>2, <3>3 DEF Throttled
    <3>5. QED
      BY <1>3, <3>1, <3>2, <3>3, <3>4
  <2>4. JobOK(a)'
    BY <1>2, <1>3, <2>1, <2>3 DEF JobOK
  <2>5. QED
    BY <1>2, <1>4, <2>1, <2>2, <2>4, JobStep DEF EventInv, EventShape
<1>7. QED
  BY <1>5, <1>6

\* An evaluation that goes on with what it has looked at, or ends.
LEMMA GoesOnStep ==
  ASSUME EventInv, NEW j \in Jobs, UNCHANGED <<clock, enabled, lastFired, fired, engines>>,
         NEW a \in Job, job' = [job EXCEPT ![j] = a],
         a.def = {} \/ a.def = job[j].def, a.checkedAt = job[j].checkedAt \/ a.def = {},
         a.seen = job[j].seen \/ a.seen = 0, a.pc # "insert"
  PROVE  EventInv'
<1>1. job[j] \in Job /\ JobOK(job[j]) /\ Len(fired) \in Nat
  BY LenProperties DEF EventInv, EventShape
<1>2. 1..a.seen \subseteq 1..job[j].seen /\ a.seen <= Len(fired)
  BY <1>1 DEF JobOK, Job
<1>3. JobOK(a)'
  BY <1>1, <1>2 DEF JobOK
<1>4. \A k \in Defs : lastFired[k] <= lastFired[k] /\ lastFired[k] <= clock
  BY DEF EventInv, EventShape
<1>5. enabled' \subseteq Defs /\ lastFired' \in [Defs -> Int]
  BY DEF EventInv, EventShape
<1>6. QED
  BY <1>3, <1>4, <1>5, JobStep, Zenon

LEMMA FireStep ==
  ASSUME EventInv, NEW j \in Jobs, Fire(j)
  PROVE  EventInv'
<1>1. PICK d \in job[j].def, row \in job[j].rows :
        /\ lastFired' = [lastFired EXCEPT ![d] = clock]
        /\ job' = [job EXCEPT ![j] = [job[j] EXCEPT !.pc = "insert",
                     !.rows = job[j].rows \ {row}, !.row = {row}, !.mark = clock]]
  BY ZenonT(40) DEF Fire, MarkFired, EventInv, EventShape
<1>2. /\ UNCHANGED <<clock, enabled, fired, engines>>
      /\ job[j] \in Job /\ JobOK(job[j]) /\ clock \in Nat /\ d \in Defs
      /\ row \in AllGroups
  BY DEF Fire, EventInv, EventShape, Job
<1>3. PICK a \in Job : a = [job[j] EXCEPT !.pc = "insert", !.rows = job[j].rows \ {row},
                                         !.row = {row}, !.mark = clock]
  BY <1>2 DEF Job
<1>4. /\ a.seen = job[j].seen /\ a.checkedAt = job[j].checkedAt /\ a.def = job[j].def
      /\ a.mark = clock
  BY <1>2, <1>3 DEF Job
<1>5. /\ lastFired' \in [Defs -> Int] /\ lastFired'[d] = clock
      /\ \A k \in Defs : lastFired[k] <= lastFired'[k] /\ lastFired'[k] <= clock
  <2>1. \A k \in Defs : lastFired[k] \in Int /\ lastFired[k] <= clock
    BY DEF EventInv, EventShape
  <2>2. QED
    BY <1>1, <1>2, <2>1 DEF EventInv, EventShape
<1>6. job[j].def = {d}
  BY <1>1, <1>2 DEF JobOK
<1>7. JobOK(a)'
  BY <1>2, <1>4, <1>5, <1>6 DEF JobOK
<1>8. job' = [job EXCEPT ![j] = a] /\ enabled' \subseteq Defs
  BY <1>1, <1>2, <1>3 DEF EventInv, EventShape
<1>9. QED
  BY <1>2, <1>5, <1>7, <1>8, JobStep

\* The event that is inserted is in the grace of no event that its evaluation had seen.
LEMMA InsertStep ==
  ASSUME EventInv, NEW j \in Jobs, Inserts(j), NEW d \in job[j].def,
         fired' = Append(fired, [def |-> d, at |-> job[j].mark, engine |-> engines,
                                 seen |-> job[j].seen, checkedAt |-> job[j].checkedAt])
  PROVE  EventInv'
<1> DEFINE n == Len(fired)
<1>1. /\ job[j].pc = "insert" /\ UNCHANGED <<clock, enabled, lastFired, engines>>
      /\ job' = [job EXCEPT ![j] = [job[j] EXCEPT !.pc = "send", !.row = {}, !.mark = 0]]
  BY DEF Inserts, EventInv, EventShape
<1>2. job[j] \in Job /\ JobOK(job[j]) /\ n \in Nat /\ d \in Defs /\ engines \in Nat
  BY LenProperties DEF EventInv, EventShape, Job
<1>3. PICK e \in Event :
        e = [def |-> d, at |-> job[j].mark, engine |-> engines, seen |-> job[j].seen,
             checkedAt |-> job[j].checkedAt]
  BY <1>2 DEF Job, Event
<1>4. /\ fired' \in Seq(Event) /\ Len(fired') = n + 1 /\ fired'[n + 1] = e
      /\ \A i \in 1..n : fired'[i] = fired[i]
  BY <1>3, AppendProperties DEF EventInv, EventShape
<1>5. PICK a \in Job : a = [job[j] EXCEPT !.pc = "send", !.row = {}, !.mark = 0]
  BY <1>2 DEF Job
<1>6. /\ a.pc = "send" /\ a.seen = job[j].seen /\ a.checkedAt = job[j].checkedAt
      /\ a.def = job[j].def
  BY <1>2, <1>5 DEF Job
<1>7. job'[j] = a /\ \A k \in Jobs \ {j} : job'[k] = job[k]
  BY <1>1, <1>5 DEF EventInv, EventShape
<1>8. EventShape'
  BY <1>1, <1>4, <1>5 DEF EventInv, EventShape
<1>9. \A i \in 1..(n + 1) : i = n + 1 \/ i \in 1..n
  BY <1>2
<1>10. /\ e.seen <= n /\ e.engine = engines /\ e.def = d /\ e.at <= lastFired[d]
       /\ e.checkedAt = job[j].checkedAt /\ e.seen = job[j].seen
  BY <1>1, <1>2, <1>3 DEF JobOK
<1>11. EventsMarked'
  <2> SUFFICES ASSUME NEW i \in 1..(n + 1)
               PROVE  /\ fired'[i].engine <= engines /\ fired'[i].seen <= n + 1
                      /\ fired'[i].engine = engines =>
                           fired'[i].at <= lastFired[fired'[i].def]
    BY <1>1, <1>4 DEF EventsMarked
  <2>1. CASE i = n + 1
    <3>1. e.seen \in Nat
      BY DEF Event
    <3>2. QED
      BY <1>2, <1>4, <1>10, <2>1, <3>1
  <2>2. CASE i \in 1..n
    <3>1. fired[i] \in Event /\ fired[i].seen <= n
      BY <2>2, ElementOfSeq DEF EventInv, EventShape, EventsMarked
    <3>2. fired[i].seen \in Nat
      BY <3>1 DEF Event
    <3>3. QED
      BY <1>2, <1>4, <2>2, <3>1, <3>2 DEF EventInv, EventsMarked
  <2>3. QED
    BY <1>9, <2>1, <2>2
<1>12. ASSUME NEW k \in Jobs PROVE JobOK(job[k])'
  <2>1. PICK b \in Job :
          /\ JobOK(b) /\ job'[k].def = b.def /\ job'[k].seen = b.seen
          /\ job'[k].checkedAt = b.checkedAt
          /\ job'[k].pc = "insert" => job'[k].pc = b.pc /\ job'[k].mark = b.mark
    <3>1. CASE k = j
      BY <1>2, <1>6, <1>7, <3>1
    <3>2. CASE k # j
      BY <1>7, <3>2 DEF EventInv, EventShape
    <3>3. QED
      BY <3>1, <3>2
  <2>2. b.seen \in Nat /\ b.seen <= n
    BY <2>1 DEF JobOK, Job
  <2>3. \A i \in 1..b.seen : fired'[i] = fired[i]
    BY <1>2, <1>4, <2>2
  <2>4. b.seen <= n + 1
    BY <1>2, <2>2
  <2>5. ASSUME NEW c \in b.def
        PROVE  /\ job'[k].pc = "insert" => job'[k].mark <= lastFired'[c]
               /\ \A i \in 1..b.seen :
                    fired'[i].def = c /\ fired'[i].engine = engines' =>
                      b.checkedAt - fired'[i].at >= Grace[c]
    <3>1. job'[k].pc = "insert" => job'[k].mark <= lastFired'[c]
      BY <1>1, <2>1 DEF JobOK
    <3>2. ASSUME NEW i \in 1..b.seen, fired'[i].def = c, fired'[i].engine = engines'
          PROVE  b.checkedAt - fired'[i].at >= Grace[c]
      BY <1>1, <2>1, <2>3, <3>2 DEF JobOK
    <3>3. QED
      BY <3>1, <3>2
  <2>6. Len(fired') = n + 1 /\ \A c, d1 \in b.def : c = d1
    BY <1>4, <2>1 DEF JobOK
  <2> HIDE DEF n
  <2>7. QED
    BY <2>1, <2>4, <2>5, <2>6 DEF JobOK
<1>13. ASSUME NEW i \in 1..(n + 1), NEW k \in 1..(n + 1)
       PROVE  GraceBetween(fired'[i], fired'[k], i)
  <2>1. fired'[k].seen <= n /\ fired'[k].seen \in Nat
    <3>1. CASE k = n + 1
      BY <1>4, <1>10, <3>1 DEF Event
    <3>2. CASE k \in 1..n
      <4>1. fired[k] \in Event /\ fired[k].seen <= n
        BY <3>2, ElementOfSeq DEF EventInv, EventShape, EventsMarked
      <4>2. QED
        BY <1>4, <3>2, <4>1 DEF Event
    <3>3. QED
      BY <1>9, <3>1, <3>2
  <2>2. CASE i = n + 1
    BY <1>2, <2>1, <2>2 DEF GraceBetween
  <2>3. CASE i \in 1..n /\ k \in 1..n
    BY <1>4, <2>3 DEF EventInv
  <2>4. CASE i \in 1..n /\ k = n + 1
    <3> SUFFICES ASSUME fired[i].def = d, fired[i].engine = engines, i <= job[j].seen
                 PROVE  job[j].checkedAt - fired[i].at >= Grace[d]
      BY <1>4, <1>10, <2>4 DEF GraceBetween
    <3>1. i \in 1..job[j].seen
      BY <1>2, <2>4 DEF Job
    <3>2. QED
      BY <1>2, <3>1 DEF JobOK
  <2>5. QED
    BY <1>9, <2>2, <2>3, <2>4
<1>14. QED
  BY <1>4, <1>8, <1>11, <1>12, <1>13 DEF EventInv

LEMMA EventStep ==
  ASSUME EventInv, [EventNext]_evvars
  PROVE  EventInv'
<1>1. CASE Round
  <2>1. clock' = clock + 1 /\ UNCHANGED <<enabled, lastFired, job, fired, engines>>
    BY <1>1 DEF Round
  <2>2. EventShape'
    BY <2>1 DEF EventInv, EventShape
  <2>3. QED
    BY <2>1, <2>2 DEF EventInv, EventsMarked, JobOK, GraceBetween
<1>2. ASSUME NEW d \in Defs, Switch(d) PROVE EventInv'
  <2>1. UNCHANGED <<clock, lastFired, job, fired, engines>> /\ enabled' \subseteq Defs
    BY <1>2 DEF Switch, EventInv, EventShape
  <2>2. QED
    BY <2>1 DEF EventInv, EventShape, EventsMarked, JobOK, GraceBetween
<1>3. CASE NewEngine
  <2>1. /\ engines' = engines + 1 /\ UNCHANGED <<clock, enabled, fired>>
        /\ lastFired' = [d \in Defs |-> -1] /\ job' = [j \in Jobs |-> NoJob]
    BY <1>3 DEF NewEngine, Never
  <2>2. EventShape'
    BY <2>1, NoJobIs DEF EventInv, EventShape
  <2>3. \A i \in 1..Len(fired) : fired[i] \in Event /\ fired[i].engine <= engines
    BY ElementOfSeq DEF EventInv, EventShape, EventsMarked
  <2>4. EventsMarked'
    <3>1. \A i \in 1..Len(fired) : fired[i].engine \in Nat /\ fired[i].engine <= engines
      BY <2>3 DEF Event
    <3>2. \A i \in 1..Len(fired) : fired[i].engine < engines'
      BY <2>1, <3>1 DEF EventInv, EventShape
    <3>3. QED
      BY <2>1, <3>1, <3>2 DEF EventInv, EventShape, EventsMarked
  <2>5. \A j \in Jobs : JobOK(job[j])'
    <3>1. Len(fired) \in Nat
      BY LenProperties DEF EventInv, EventShape
    <3>2. QED
      BY <2>1, <3>1, NoJobIs DEF JobOK
  <2>6. QED
    BY <2>1, <2>2, <2>4, <2>5 DEF EventInv, GraceBetween
<1>4. ASSUME NEW j \in Jobs, EvaluateAll(j) \/ EvaluatedAll(j) \/ Finds(j) \/ Dispatches(j)
      PROVE  EventInv'
  <2>1. UNCHANGED <<clock, enabled, lastFired, fired, engines>>
    BY <1>4 DEF EvaluateAll, EvaluatedAll, Finds, Dispatches
  <2>2. job[j] \in Job /\ enabled \subseteq Defs
    BY DEF EventInv, EventShape
  <2>3. CASE EvaluateAll(j)
    <3>1. PICK a \in Job : a = [NoJob EXCEPT !.pc = "next", !.todo = enabled]
      BY <2>2, NoJobIs DEF Job
    <3>2. job' = [job EXCEPT ![j] = a] /\ a.def = {} /\ a.seen = 0 /\ a.pc # "insert"
      BY <2>3, <3>1 DEF EvaluateAll, NoJob
    <3>3. QED
      BY <2>1, <3>2, GoesOnStep
  <2>4. CASE EvaluatedAll(j)
    <3>1. job' = [job EXCEPT ![j] = NoJob]
      BY <2>4 DEF EvaluatedAll
    <3>2. NoJob \in Job /\ NoJob.def = {} /\ NoJob.seen = 0 /\ NoJob.pc # "insert"
      BY NoJobIs DEF NoJob
    <3>3. QED
      BY <2>1, <3>1, <3>2, GoesOnStep
  <2>5. ASSUME job' = [job EXCEPT ![j] = NextDef(job[j])] PROVE EventInv'
    <3>1. PICK a \in Job : a = NextDef(job[j])
      BY <2>2, NoJobIs DEF Job, NextDef
    <3>2. a.def = {} /\ a.seen = 0 /\ a.pc = "next"
      BY <3>1, NoJobIs DEF NextDef, NoJob
    <3>3. QED
      BY <2>1, <2>5, <3>1, <3>2, GoesOnStep
  <2>6. CASE Finds(j)
    <3>1. PICK d \in job[j].def : \E rows \in SUBSET Groups[d] :
            job' = [job EXCEPT ![j] = IF rows = {} THEN NextDef(job[j])
                                      ELSE [job[j] EXCEPT !.rows = rows, !.pc = "fire"]]
      BY <2>6 DEF Finds
    <3>2. PICK rows \in SUBSET Groups[d] :
            job' = [job EXCEPT ![j] = IF rows = {} THEN NextDef(job[j])
                                      ELSE [job[j] EXCEPT !.rows = rows, !.pc = "fire"]]
      BY <3>1
    <3>3. CASE rows = {}
      BY <2>5, <3>2, <3>3
    <3>4. CASE rows # {}
      <4>1. rows \in SUBSET AllGroups
        BY <2>2 DEF Job, AllGroups
      <4>2. PICK a \in Job : a = [job[j] EXCEPT !.rows = rows, !.pc = "fire"]
        BY <2>2, <4>1 DEF Job
      <4>3. /\ a.def = job[j].def /\ a.seen = job[j].seen /\ a.pc = "fire"
            /\ a.checkedAt = job[j].checkedAt
        BY <2>2, <4>2 DEF Job
      <4>4. job' = [job EXCEPT ![j] = a]
        BY <3>2, <3>4, <4>2
      <4>5. QED
        BY <2>1, <4>3, <4>4, GoesOnStep
    <3>5. QED
      BY <3>3, <3>4
  <2>7. CASE Dispatches(j)
    <3>1. job' = [job EXCEPT ![j] = IF job[j].rows = {} THEN NextDef(job[j])
                                    ELSE [job[j] EXCEPT !.pc = "fire"]]
      BY <2>7 DEF Dispatches
    <3>2. CASE job[j].rows = {}
      BY <2>5, <3>1, <3>2
    <3>3. CASE job[j].rows # {}
      <4>1. PICK a \in Job : a = [job[j] EXCEPT !.pc = "fire"]
        BY <2>2 DEF Job
      <4>2. /\ a.def = job[j].def /\ a.seen = job[j].seen /\ a.pc = "fire"
            /\ a.checkedAt = job[j].checkedAt
        BY <2>2, <4>1 DEF Job
      <4>3. job' = [job EXCEPT ![j] = a]
        BY <3>1, <3>3, <4>1
      <4>4. QED
        BY <2>1, <4>2, <4>3, GoesOnStep
    <3>4. QED
      BY <3>2, <3>3
  <2>8. QED
    BY <1>4, <2>3, <2>4, <2>6, <2>7
<1>5. ASSUME NEW j \in Jobs, Inserts(j) PROVE EventInv'
  <2>1. PICK d \in job[j].def :
          \/ fired' = Append(fired, [def |-> d, at |-> job[j].mark, engine |-> engines,
                                     seen |-> job[j].seen, checkedAt |-> job[j].checkedAt])
          \/ fired' = fired
    BY <1>5 DEF Inserts
  <2>2. CASE fired' = fired
    <3>1. /\ UNCHANGED <<clock, enabled, lastFired, fired, engines>>
          /\ job' = [job EXCEPT ![j] = [job[j] EXCEPT !.pc = "send", !.row = {}, !.mark = 0]]
      BY <1>5, <2>2 DEF Inserts, EventInv, EventShape
    <3>2. job[j] \in Job
      BY DEF EventInv, EventShape
    <3>3. PICK a \in Job : a = [job[j] EXCEPT !.pc = "send", !.row = {}, !.mark = 0]
      BY <3>2 DEF Job
    <3>4. /\ a.def = job[j].def /\ a.seen = job[j].seen /\ a.pc = "send"
          /\ a.checkedAt = job[j].checkedAt
      BY <3>2, <3>3 DEF Job
    <3>5. QED
      BY <3>1, <3>3, <3>4, GoesOnStep
  <2>3. QED
    BY <1>5, <2>1, <2>2, InsertStep
<1>6. CASE UNCHANGED evvars
  BY <1>6 DEF evvars, EventInv, EventShape, EventsMarked, JobOK, GraceBetween
<1>7. QED
  BY <1>1, <1>2, <1>3, <1>4, <1>5, <1>6, EvaluateStep, FireStep DEF EventNext

\* Whatever evaluations overlap, however long queries and sends take and however often the
\* process restarts, an evaluation fires only outside the grace of every event of its life
\* that was recorded when it looked (engine.go:120-123, 187-207).
THEOREM GraceHolds == EventSpec => []GraceKept
<1>1. EventInv => GraceKept
  <2>1. EventInv => DOMAIN fired = 1..Len(fired)
    BY LenProperties DEF EventInv, EventShape
  <2>2. QED
    BY <2>1 DEF EventInv, GraceBetween, GraceKept
<1>2. EventInv /\ [EventNext]_evvars => EventInv'
  BY EventStep
<1>3. QED
  BY EventStarts, <1>1, <1>2, PTL DEF EventSpec

-----------------------------------------------------------------------------
(* Rules: routing.                                                          *)

Fits(streams, m) ==
  {n \in DOMAIN streams : CompilesStream(streams[n]) /\ Matches(streams[n], m)}

Least(S) == CHOOSE n \in S : \A k \in S : n <= k

IdOf(streams, S) == IF S = {} THEN "default" ELSE streams[Least(S)].id

\* What the loop gives from stream n on.
FromOn(streams, m, n) == IdOf(streams, {k \in Fits(streams, m) : k >= n})

LEMMA ListIs ==
  ASSUME NEW s, IsList(s)
  PROVE  /\ Len(s) \in Nat /\ DOMAIN s = 1..Len(s)
         /\ s # <<>> <=> DOMAIN s # {}
<1>1. PICK S : s \in Seq(S)
  BY DEF IsList
<1>2. Len(s) \in Nat /\ DOMAIN s = 1..Len(s)
  BY <1>1
<1>3. s = <<>> <=> Len(s) = 0
  BY <1>1, EmptySeq
<1>4. QED
  BY <1>2, <1>3

LEMMA LeastIs ==
  ASSUME NEW S, NEW n \in S, n \in Int, S \subseteq Int, \A k \in S : n <= k
  PROVE  Least(S) = n
<1>1. Least(S) \in S /\ \A k \in S : Least(S) <= k
  BY DEF Least
<1>2. PICK x \in Int : x = Least(S)
  BY <1>1
<1>3. x <= n /\ n <= x
  BY <1>1, <1>2
<1>4. x = n
  BY <1>3
<1>5. QED
  BY <1>2, <1>4

\* One turn of the loop.
LEMMA LoopStep ==
  ASSUME NEW streams, IsList(streams), NEW m, NEW n \in 1..(Len(streams) + 1)
  PROVE  FromOn(streams, m, n) =
           IF n > Len(streams) THEN "default"
           ELSE IF CompilesStream(streams[n]) /\ Matches(streams[n], m) THEN streams[n].id
           ELSE FromOn(streams, m, n + 1)
<1>1. PICK l \in Nat : l = Len(streams) /\ DOMAIN streams = 1..l
  BY ListIs
<1>2. PICK F : F = Fits(streams, m)
  OBVIOUS
<1>3. \A k \in F : k \in 1..l
  BY <1>1, <1>2 DEF Fits
<1>4. PICK P : P = {k \in F : k >= n}
  OBVIOUS
<1>4a. n \in 1..(l + 1)
  BY <1>1
<1>5. FromOn(streams, m, n) = IdOf(streams, P)
  BY <1>2, <1>4 DEF FromOn
<1>6. CASE n > l
  <2>1. P = {}
    BY <1>3, <1>4, <1>4a, <1>6
  <2>2. QED
    BY <1>1, <1>5, <1>6, <2>1 DEF IdOf
<1>7. CASE n \in F
  <2>1. n \in P /\ n \in Int /\ P \subseteq Int /\ \A k \in P : n <= k
    <3>1. n \in Int /\ n >= n
      BY <1>4a
    <3>2. \A k \in P : k \in Int /\ n <= k
      BY <1>3, <1>4, <1>4a
    <3>3. n \in P
      BY <1>4, <1>7, <3>1
    <3>4. QED
      BY <3>1, <3>2, <3>3
  <2>2. Least(P) = n
    BY <2>1, LeastIs
  <2>3. CompilesStream(streams[n]) /\ Matches(streams[n], m) /\ ~(n > l)
    BY <1>2, <1>3, <1>7 DEF Fits
  <2>4. QED
    BY <1>1, <1>5, <2>1, <2>2, <2>3 DEF IdOf
<1>8. CASE n \notin F /\ ~(n > l)
  <2>1. P = {k \in F : k >= n + 1}
    BY <1>3, <1>4, <1>4a, <1>8
  <2>2. FromOn(streams, m, n + 1) = IdOf(streams, P)
    BY <1>2, <2>1 DEF FromOn
  <2>3. ~(CompilesStream(streams[n]) /\ Matches(streams[n], m))
    BY <1>1, <1>2, <1>8 DEF Fits
  <2>4. QED
    BY <1>1, <1>5, <1>8, <2>2, <2>3
<1>9. QED
  BY <1>6, <1>7, <1>8

\* f gives for each place what one turn of the loop makes of the next.
Loops(f, streams, m) ==
  f = [n \in 1..(Len(streams) + 1) |->
         IF n > Len(streams) THEN "default"
         ELSE IF CompilesStream(streams[n]) /\ Matches(streams[n], m) THEN streams[n].id
         ELSE f[n + 1]]

LEMMA FirstMatchLoops ==
  ASSUME NEW streams, IsList(streams), NEW m
  PROVE  Loops(FirstMatch(streams, m), streams, m)
<1>1. PICK l \in Nat : l = Len(streams) /\ DOMAIN streams = 1..l
  BY ListIs
<1>2. PICK h : h = [n \in 1..(l + 1) |-> FromOn(streams, m, n)]
  OBVIOUS
<1>3. ASSUME NEW n \in 1..(l + 1)
      PROVE  h[n] = IF n > l THEN "default"
                    ELSE IF CompilesStream(streams[n]) /\ Matches(streams[n], m)
                    THEN streams[n].id ELSE h[n + 1]
  <2>1. ~(n > l) => n + 1 \in 1..(l + 1)
    BY <1>3
  <2>2. ~(n > l) => h[n + 1] = FromOn(streams, m, n + 1)
    BY <1>2, <2>1
  <2>3. h[n] = FromOn(streams, m, n)
    BY <1>2
  <2>4. QED
    BY <1>1, <2>2, <2>3, LoopStep
<1>4. Loops(h, streams, m)
  BY <1>1, <1>2, <1>3 DEF Loops
<1>5. QED
  BY <1>4 DEF Loops, FirstMatch

LEMMA FirstMatchIs ==
  ASSUME NEW streams, IsList(streams), NEW m
  PROVE  FirstMatch(streams, m)[1] = IdOf(streams, Fits(streams, m))
<1>1. PICK l \in Nat : l = Len(streams) /\ DOMAIN streams = 1..l
  BY ListIs
<1>2. PICK f : f = FirstMatch(streams, m)
  OBVIOUS
<1>3. \A n \in 1..(l + 1) :
        f[n] = IF n > l THEN "default"
               ELSE IF CompilesStream(streams[n]) /\ Matches(streams[n], m)
               THEN streams[n].id ELSE f[n + 1]
  BY <1>1, <1>2, FirstMatchLoops DEF Loops
<1>4. PICK B : B = {k \in 0..l : f[(l + 1) - k] = FromOn(streams, m, (l + 1) - k)}
  OBVIOUS
<1>5. 0 \in B
  <2>1. l + 1 \in 1..(l + 1) /\ l + 1 > l
    OBVIOUS
  <2>2. f[l + 1] = "default" /\ FromOn(streams, m, l + 1) = "default"
    BY <1>1, <1>3, <2>1, LoopStep
  <2>3. QED
    BY <1>4, <2>2
<1>6. ASSUME NEW k \in 0..(l - 1), k \in B
      PROVE  k + 1 \in B
  <2>1. PICK n \in 1..l : n = (l + 1) - (k + 1) /\ n + 1 = (l + 1) - k
    OBVIOUS
  <2>2. f[n + 1] = FromOn(streams, m, n + 1)
    BY <1>4, <1>6, <2>1
  <2>3. n \in 1..(l + 1) /\ ~(n > l)
    OBVIOUS
  <2>4. f[n] = FromOn(streams, m, n)
    BY <1>1, <1>3, <2>2, <2>3, LoopStep
  <2>5. QED
    BY <1>4, <2>1, <2>4
<1>7. 0..l \subseteq B
  BY <1>5, <1>6, UpTo
<1>8. f[1] = FromOn(streams, m, 1)
  <2>1. l \in B /\ (l + 1) - l = 1
    BY <1>7
  <2>2. QED
    BY <1>4, <2>1
<1>9. {k \in Fits(streams, m) : k >= 1} = Fits(streams, m)
  BY <1>1 DEF Fits
<1>10. QED
  BY <1>2, <1>8, <1>9 DEF FromOn

LEMMA EmptyIsList == IsList(<<>>)
  BY DEF IsList

LEMMA StreamsAreLists ==
  ASSUME NEW c \in Revision
  PROVE  /\ IsList(StreamsOf(c))
         /\ \A n \in DOMAIN StreamsOf(c) : IsList(StreamsOf(c)[n].rules)
<1>1. CASE c = Nothing
  <2>1. StreamsOf(c) = <<>> /\ DOMAIN StreamsOf(c) = {}
    BY <1>1 DEF StreamsOf
  <2>2. QED
    BY <2>1, EmptyIsList
<1>2. CASE c # Nothing
  <2>1. c \in DOMAIN Configs
    BY <1>2, RulesAssumption, ReloadAssumption, ListIs DEF Revision, Nothing
  <2>2. QED
    BY <1>2, <2>1, RulesAssumption DEF StreamsOf
<1>3. QED
  BY <1>1, <1>2

\* What it is to fit, in the words of the property.
LEMMA FitsIs ==
  ASSUME NEW streams, NEW m, \A n \in DOMAIN streams : IsList(streams[n].rules)
  PROVE  Fits(streams, m) =
           {n \in DOMAIN streams :
              /\ CompilesStream(streams[n])
              /\ \E i \in DOMAIN streams[n].rules :
                   /\ Evaluates(streams[n].rules[i], m)
                   /\ \/ streams[n].combinator = "or"
                      \/ \A k \in DOMAIN streams[n].rules : Evaluates(streams[n].rules[k], m)}
<1>1. ASSUME NEW n \in DOMAIN streams
      PROVE  Matches(streams[n], m) <=>
               \E i \in DOMAIN streams[n].rules :
                 /\ Evaluates(streams[n].rules[i], m)
                 /\ \/ streams[n].combinator = "or"
                    \/ \A k \in DOMAIN streams[n].rules : Evaluates(streams[n].rules[k], m)
  <2>1. PICK s : s = streams[n] /\ (s.rules # <<>> <=> DOMAIN s.rules # {})
    BY ListIs
  <2>2. Matches(s, m) <=>
          \E i \in DOMAIN s.rules :
            /\ Evaluates(s.rules[i], m)
            /\ \/ s.combinator = "or"
               \/ \A k \in DOMAIN s.rules : Evaluates(s.rules[k], m)
    BY <2>1 DEF Matches
  <2>3. QED
    BY <2>1, <2>2
<1>2. QED
  BY <1>1 DEF Fits

\* What Route has done to a message that is past it, and by which streams.
RouteInv ==
  /\ ReloadInv
  /\ routed.by \in Revision
  /\ stage = "stream" => message = Route(StreamsOf(routed.by), routed.m)

LEMMA RouteInvInit == RulesInit => RouteInv
<1> SUFFICES ASSUME RulesInit
             PROVE  RouteInv
  OBVIOUS
<1>1. ReloadInv
  BY ReloadStarts DEF RulesInit
<1>2. stage = "pre" /\ routed.by = Nothing
  BY DEF RulesInit, NotRouted
<1>3. Nothing \in Revision
  BY ReloadAssumption DEF Nothing, Revision
<1>4. QED
  BY <1>1, <1>2, <1>3 DEF RouteInv

LEMMA RouteInvStep == RouteInv /\ [RulesNext]_<<rlvars, rlsvars>> => RouteInv'
<1> SUFFICES ASSUME RouteInv, [RulesNext]_<<rlvars, rlsvars>>
             PROVE  RouteInv'
  OBVIOUS
<1>1. ReloadInv'
  <2>1. [ReloadNext]_rlvars
    BY DEF RulesNext, Reloading, RunPre, RouteIt, RunStream
  <2>2. QED
    BY <2>1, ReloadStep DEF RouteInv
<1>2. CASE Reloading
  BY <1>1, <1>2 DEF Reloading, RouteInv, rlsvars
<1>3. CASE RunPre
  <2>1. stage' # "stream" /\ routed' = routed
    BY <1>3 DEF RunPre
  <2>2. QED
    BY <1>1, <2>1 DEF RouteInv
<1>4. CASE RouteIt
  <2>1. PICK by \in Revision : by = live["router"]
    BY KindIs DEF RouteInv, ReloadInv, ReloadShape
  <2>2. message' = Route(StreamsOf(by), message) /\ routed' = [m |-> message, by |-> by]
    BY <1>4, <2>1 DEF RouteIt
  <2>3. QED
    BY <1>1, <2>1, <2>2 DEF RouteInv
<1>5. CASE RunStream
  <2>1. stage' # "stream" /\ routed' = routed
    BY <1>5 DEF RunStream
  <2>2. QED
    BY <1>1, <2>1 DEF RouteInv
<1>6. CASE UNCHANGED <<rlvars, rlsvars>>
  BY <1>1, <1>6 DEF RouteInv, rlsvars
<1>7. QED
  BY <1>2, <1>3, <1>4, <1>5, <1>6 DEF RulesNext

LEMMA RouteInvRules == RouteInv => RoutedByTheRules
<1> SUFFICES ASSUME RouteInv, stage = "stream"
             PROVE  RoutedByTheRules
  BY DEF RoutedByTheRules
<1> DEFINE streams == StreamsOf(routed.by)
           fits == {n \in DOMAIN streams :
                      /\ CompilesStream(streams[n])
                      /\ \E i \in DOMAIN streams[n].rules :
                           /\ Evaluates(streams[n].rules[i], routed.m)
                           /\ \/ streams[n].combinator = "or"
                              \/ \A k \in DOMAIN streams[n].rules :
                                   Evaluates(streams[n].rules[k], routed.m)}
<1>1. IsList(streams) /\ \A n \in DOMAIN streams : IsList(streams[n].rules)
  BY StreamsAreLists DEF RouteInv
<1>2. fits = Fits(streams, routed.m)
  BY <1>1, FitsIs
<1>3. message = Route(streams, routed.m)
  BY DEF RouteInv
<1>4. FirstMatch(streams, routed.m)[1] = IdOf(streams, fits)
  BY <1>1, <1>2, FirstMatchIs
<1>5. IdOf(streams, fits) =
        IF fits = {} THEN "default"
        ELSE streams[CHOOSE n \in fits : \A k \in fits : n <= k].id
  BY DEF IdOf, Least
<1>6. IF routed.m.stream # "" THEN message = routed.m
      ELSE message = [routed.m EXCEPT
             !.stream = IF fits = {} THEN "default"
                        ELSE streams[CHOOSE n \in fits : \A k \in fits : n <= k].id]
  <2> HIDE DEF fits
  <2>1. QED
    BY <1>3, <1>4, <1>5 DEF Route
<1>7. QED
  BY <1>6, ZenonT(40) DEF RoutedByTheRules

\* Whatever is configured, and however reloads that overlap replace streams and rules
\* while a message is on its way, the message goes to the first stream whose rules say
\* so, of one set of streams (stream.go:35-51, pipeline.go:111-135, app.go:187-271).
THEOREM RoutingIsRight == RulesSpec => []RoutedByTheRules
<1>1. RulesInit => RouteInv
  BY RouteInvInit
<1>2. RouteInv /\ [RulesNext]_<<rlvars, rlsvars>> => RouteInv'
  BY RouteInvStep
<1>3. RouteInv => RoutedByTheRules
  BY RouteInvRules
<1>4. QED
  BY <1>1, <1>2, <1>3, PTL DEF RulesSpec

=============================================================================
