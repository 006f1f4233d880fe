--------------------------- MODULE PartitionsProofs ---------------------------
(***************************************************************************)
(* Proofs about module Partitions: retention takes what a policy lets go of  *)
(* and nothing else, for any policies, number of sweeps and messages, and    *)
(* whatever sweeps, writers, late messages and restarts overlap.             *)
(***************************************************************************)
EXTENDS Partitions, FiniteSetTheorems, WellFoundedInduction, TLAPS

GoneDay(d, t) == GlobalDays > 0 /\ d < CutoffDay(t)

PolicyExpired(m, t) == HasPolicy(m.kind.stream) /\ m.kind.ts < StreamCut(m.kind.stream, t)

Day(m) == DayOf(m.kind.ts)

Writer == [pc : {"idle", "begin", "commit"}, msg : SUBSET Message, h : Handle]
Sweep  ==
  [pc : {"idle", "close", "remove", "policy", "open", "fts", "rows", "done"},
   at : Int, todo : SUBSET PartDays, streams : SUBSET Streams,
   stream : SUBSET Streams, h : Handle, due : SUBSET Message, failed : BOOLEAN]

Shape ==
  /\ now \in Nat /\ exists \subseteq PartDays /\ dbs \in [PartDays -> Handle]
  /\ table = [d \in PartDays |-> table[d]] /\ fts = [d \in PartDays |-> fts[d]]
  /\ writer \in Writer /\ sweep \in [Sweepers -> Sweep] /\ kept \subseteq Message

\* The rows of a day are messages of that day that were stored, in a file that is there.
RowsInPlace ==
  \A d \in PartDays : \A r \in table[d] : r.msg \in kept /\ Day(r.msg) = d /\ d \in exists

\* The next message to be stored is a new one, and the only one on its way.
NextIsNew ==
  /\ IsFiniteSet(kept) /\ \A m \in kept : m.id <= Cardinality(kept)
  /\ \A m, n \in writer.msg : m.id = Cardinality(kept) + 1 /\ m = n

\* A handle is on the file of its day, or on one that a sweep has removed, of a day that
\* the store no longer keeps.
HandlesOnFiles ==
  \A d \in PartDays :
    /\ dbs[d].linked => d \in exists
    /\ dbs[d].open /\ ~dbs[d].linked => d \notin exists /\ GoneDay(d, now)

WriterOnFile ==
  \A m \in writer.msg : IF writer.h.linked THEN Day(m) \in exists ELSE GoneDay(Day(m), now)

\* A due message that is still stored is in what the sweep has before it.
Stored(m) == \E r \in table[Day(m)] : r.msg = m

Pending(a, m) ==
  \/ a.pc \in {"close", "remove"} /\ Day(m) \in a.todo
  \/ PolicyExpired(m, a.at) /\ m.kind.stream \in a.streams
  \/ /\ PolicyExpired(m, a.at) /\ m.kind.stream \in a.stream
     /\ a.pc \in {"open", "fts", "rows"} /\ Day(m) \in a.todo

SweepOK(a) ==
  /\ a.at <= now /\ a.due \subseteq kept
  /\ a.pc \in {"close", "remove", "open", "fts", "rows"} => a.todo # {}
  /\ a.pc \in {"close", "remove"} => \A d \in a.todo : GoneDay(d, a.at)
  /\ a.pc \in {"fts", "rows"} /\ a.h.open => a.h = dbs[Earliest(a.todo)]
  /\ \A s \in a.streams \cup a.stream : HasPolicy(s)
  /\ a.pc = "done" => a.streams = {}
  /\ ~a.failed => \A m \in a.due : Stored(m) => Pending(a, m)

PartInv ==
  /\ Shape /\ RowsInPlace /\ NextIsNew /\ HandlesOnFiles /\ WriterOnFile
  /\ (\A w \in Sweepers : SweepOK(sweep[w])) /\ KeptUntilExpiry

-----------------------------------------------------------------------------
\* Days do not go back.
LEMMA DayOfMonotone ==
  ASSUME NEW a \in Int, NEW b \in Int, a <= b
  PROVE  DayOf(a) \in Int /\ DayOf(b) \in Int /\ DayOf(a) <= DayOf(b)
<1>1. DayLen \in Nat /\ DayLen > 0
  BY PartitionsAssumption
<1>2. DayOf(a) \in Int /\ DayOf(b) \in Int
  BY <1>1 DEF DayOf
<1>3. a \div DayLen <= b \div DayLen
  BY <1>1
<1>4. QED
  BY <1>2, <1>3 DEF DayOf

LEMMA KindTypes ==
  /\ \A k \in Kinds : k.ts \in Nat /\ k.stream \in Streams /\ DayOf(k.ts) \in PartDays
  /\ PartDays \subseteq Nat
<1>1. \A k \in Kinds : k.ts \in Nat /\ k.stream \in Streams /\ DayOf(k.ts) \in PartDays
  BY PartitionsAssumption DEF PartDays
<1>2. \A t \in Nat : DayOf(t) \in Nat
  BY PartitionsAssumption DEF DayOf
<1>3. QED
  BY <1>1, <1>2 DEF PartDays

LEMMA EarliestIs ==
  ASSUME NEW D, D \subseteq PartDays, D # {}
  PROVE  Earliest(D) \in D
<1>1. D \subseteq Nat
  BY KindTypes
<1>2. PICK x \in D : \A y \in D : ~(<<y, x>> \in OpToRel(<, Nat))
  BY <1>1, NatLessThanWellFounded, WFMin, Zenon
<1>3. \A y \in D : x <= y
  <2> SUFFICES ASSUME NEW y \in D PROVE x <= y
    OBVIOUS
  <2>1. x \in Nat /\ y \in Nat
    BY <1>1
  <2>2. ~(y < x)
    BY <1>2, <2>1 DEF OpToRel
  <2>3. QED
    BY <2>1, <2>2
<1>4. QED
  BY <1>3 DEF Earliest

\* What is let go of at one time is let go of later.
LEMMA ExpiredStays ==
  ASSUME NEW m \in Message, NEW t \in Int, NEW u \in Int, t <= u, ExpiredAt(m, t)
  PROVE  ExpiredAt(m, u)
<1>1. DayLen \in Nat /\ GlobalDays \in Nat /\ StreamDays \in [Streams -> Nat]
  BY PartitionsAssumption
<1>2. m.kind \in Kinds /\ m.kind.stream \in Streams /\ m.kind.ts \in Nat
  BY KindTypes DEF Message
<1>3. CutoffDay(t) \in Int /\ CutoffDay(u) \in Int /\ CutoffDay(t) <= CutoffDay(u)
  <2>1. GlobalDays * DayLen \in Int
    BY <1>1
  <2>2. t - GlobalDays * DayLen \in Int /\ u - GlobalDays * DayLen \in Int
        /\ t - GlobalDays * DayLen <= u - GlobalDays * DayLen
    BY <2>1
  <2>3. QED
    BY <2>2, DayOfMonotone DEF CutoffDay
<1>4. ASSUME NEW s \in Streams
      PROVE  StreamCut(s, t) \in Int /\ StreamCut(s, u) \in Int
             /\ StreamCut(s, t) <= StreamCut(s, u)
  <2>1. StreamDays[s] * DayLen \in Int
    BY <1>1
  <2>2. QED
    BY <2>1 DEF StreamCut
<1>5. DayOf(m.kind.ts) \in Int
  BY <1>2, DayOfMonotone
<1>6. DayOf(m.kind.ts) < CutoffDay(t) => DayOf(m.kind.ts) < CutoffDay(u)
  BY <1>3, <1>5
<1>7. m.kind.ts < StreamCut(m.kind.stream, t) => m.kind.ts < StreamCut(m.kind.stream, u)
  BY <1>2, <1>4
<1>8. QED
  BY <1>6, <1>7 DEF ExpiredAt

LEMMA GoneStays ==
  ASSUME NEW d \in PartDays, NEW t \in Int, NEW u \in Int, t <= u, GoneDay(d, t)
  PROVE  GoneDay(d, u)
<1>1. GlobalDays * DayLen \in Int
  BY PartitionsAssumption
<1>2. t - GlobalDays * DayLen \in Int /\ u - GlobalDays * DayLen \in Int
      /\ t - GlobalDays * DayLen <= u - GlobalDays * DayLen
  BY <1>1
<1>3. CutoffDay(t) \in Int /\ CutoffDay(u) \in Int /\ CutoffDay(t) <= CutoffDay(u)
  BY <1>2, DayOfMonotone DEF CutoffDay
<1>4. d \in Int
  BY KindTypes
<1>5. QED
  BY <1>3, <1>4 DEF GoneDay

\* The two ways to expire.
LEMMA ExpiredIs ==
  ASSUME NEW m, NEW t
  PROVE  ExpiredAt(m, t) <=> GoneDay(Day(m), t) \/ PolicyExpired(m, t)
BY DEF ExpiredAt, GoneDay, PolicyExpired, Day

LEMMA MessageDay == \A m \in Message : Day(m) \in PartDays
BY KindTypes DEF Message, Day

LEMMA IdleIs == NoHandle \in Handle /\ NoWork \in Writer /\ IdleSweep \in Sweep
BY DEF NoHandle, Handle, NoWork, Writer, IdleSweep, Sweep

LEMMA PartStarts == PartInit => PartInv
<1> SUFFICES ASSUME PartInit PROVE PartInv
  OBVIOUS
<1>1. Shape
  BY IdleIs, PartitionsAssumption DEF PartInit, Shape
<1>2. RowsInPlace /\ HandlesOnFiles
  BY DEF PartInit, RowsInPlace, HandlesOnFiles, NoHandle
<1>3. NextIsNew /\ WriterOnFile
  BY FS_EmptySet DEF PartInit, NextIsNew, WriterOnFile, NoWork
<1>4. \A w \in Sweepers : SweepOK(sweep[w])
  <2>1. now \in Nat
    BY PartitionsAssumption DEF PartInit
  <2>2. QED
    BY <2>1 DEF PartInit, SweepOK, IdleSweep
<1>5. KeptUntilExpiry
  BY DEF PartInit, KeptUntilExpiry
<1>6. QED
  BY <1>1, <1>2, <1>3, <1>4, <1>5 DEF PartInv

-----------------------------------------------------------------------------
\* What a sweep had before it is before it still when rows go, new ones come, the clock
\* moves, and its handle is what the store has for the day.
AllButHandle(a, b) ==
  /\ a.pc = b.pc /\ a.at = b.at /\ a.todo = b.todo /\ a.streams = b.streams
  /\ a.stream = b.stream /\ a.due = b.due /\ a.failed = b.failed

SameWork(w) == AllButHandle(sweep'[w], sweep[w])

RowsGo == \A d \in PartDays : \A r \in table'[d] : r \in table[d] \/ r.msg \notin kept

HandleKept(w) ==
  sweep[w].pc \in {"fts", "rows"} /\ sweep'[w].h.open =>
    sweep'[w].h = dbs'[Earliest(sweep[w].todo)]

LEMMA SweepKept ==
  ASSUME PartInv, NEW w \in Sweepers, SameWork(w), HandleKept(w), RowsGo,
         now' \in Nat, now <= now', kept \subseteq kept'
  PROVE  SweepOK(sweep[w])'
<1>1. SweepOK(sweep[w]) /\ sweep[w] \in Sweep /\ now \in Int
  BY DEF PartInv, Shape
<1>2. sweep[w].at \in Int /\ sweep[w].at <= now'
  BY <1>1 DEF SweepOK, Sweep
<1>3. ASSUME NEW m \in sweep[w].due, Stored(m)' PROVE Stored(m)
  <2>1. m \in kept /\ Day(m) \in PartDays
    BY <1>1, MessageDay DEF SweepOK, PartInv, Shape
  <2>2. QED
    BY <1>3, <2>1 DEF Stored, RowsGo
<1>4. ASSUME ~sweep'[w].failed, NEW m \in sweep'[w].due, Stored(m)'
      PROVE  Pending(sweep[w], m)'
  <2>1. Pending(sweep[w], m)
    BY <1>1, <1>3, <1>4 DEF SameWork, AllButHandle, SweepOK
  <2>2. QED
    BY <2>1 DEF Pending, SameWork, AllButHandle
<1>5. QED
  BY <1>1, <1>2, <1>4 DEF SweepOK, SameWork, AllButHandle, HandleKept

\* A step of one sweep that opens and closes nothing.
LEMMA SweepStep ==
  ASSUME PartInv, NEW w \in Sweepers, NEW b \in Sweep, sweep' = [sweep EXCEPT ![w] = b],
         UNCHANGED <<now, exists, dbs, writer, kept>>,
         table' = [d \in PartDays |-> table'[d]], fts' = [d \in PartDays |-> fts'[d]],
         \A d \in PartDays : table'[d] \subseteq table[d],
         SweepOK(b)', KeptUntilExpiry'
  PROVE  PartInv'
<1>1. sweep'[w] = b /\ \A v \in Sweepers \ {w} : sweep'[v] = sweep[v]
  BY DEF PartInv, Shape
<1>2. Shape' /\ RowsInPlace'
  BY DEF PartInv, Shape, RowsInPlace
<1>3. NextIsNew' /\ HandlesOnFiles' /\ WriterOnFile'
  BY DEF PartInv, NextIsNew, HandlesOnFiles, WriterOnFile
<1>4. ASSUME NEW v \in Sweepers PROVE SweepOK(sweep[v])'
  <2>1. CASE v = w
    BY <1>1, <2>1
  <2>2. CASE v # w
    <3>1. SameWork(v) /\ RowsGo
      BY <1>1, <2>2 DEF SameWork, AllButHandle, RowsGo
    <3>2. HandleKept(v)
      BY <1>1, <2>2 DEF HandleKept, PartInv, SweepOK
    <3>3. now' \in Nat /\ now <= now' /\ kept \subseteq kept'
      BY DEF PartInv, Shape
    <3>4. QED
      BY <3>1, <3>2, <3>3, SweepKept
  <2>3. QED
    BY <2>1, <2>2
<1>5. QED
  BY <1>2, <1>3, <1>4 DEF PartInv

LEMMA BeginsStep ==
  ASSUME PartInv, NEW w \in Sweepers, SweepBegins(w)
  PROVE  PartInv'
<1> DEFINE due == {m \in Reachable : ExpiredAt(m, now)}
           pc  == IF OldDays(now) = {} THEN "policy" ELSE "close"
<1>1. /\ sweep' = [sweep EXCEPT ![w] =
           [IdleSweep EXCEPT !.pc = pc, !.at = now, !.todo = OldDays(now),
              !.streams = {s \in Streams : HasPolicy(s)}, !.due = due]]
      /\ UNCHANGED <<now, exists, dbs, table, fts, writer, kept>>
  BY DEF SweepBegins
<1>2. \A m \in Reachable : m \in kept /\ m \in Message /\ Day(m) \in exists
  BY DEF Reachable, PartInv, Shape, RowsInPlace
<1>3. OldDays(now) \subseteq PartDays /\ now \in Int
  BY DEF OldDays, PartInv, Shape
<1>4. PICK b \in Sweep :
        b = [IdleSweep EXCEPT !.pc = pc, !.at = now, !.todo = OldDays(now),
               !.streams = {s \in Streams : HasPolicy(s)}, !.due = due]
  BY <1>2, <1>3, IdleIs DEF Sweep
<1>5. /\ b.pc = pc /\ b.at = now /\ b.todo = OldDays(now) /\ b.due = due
      /\ b.streams = {s \in Streams : HasPolicy(s)} /\ b.stream = {}
  BY <1>4 DEF IdleSweep
<1>6. \A m \in due : Pending(b, m)
  <2> SUFFICES ASSUME NEW m \in due PROVE Pending(b, m)
    OBVIOUS
  <2>1. m \in Message /\ Day(m) \in exists /\ m.kind.stream \in Streams
    BY <1>2, KindTypes DEF Message
  <2>2. GoneDay(Day(m), now) \/ PolicyExpired(m, now)
    BY ExpiredIs
  <2>3. CASE GoneDay(Day(m), now)
    BY <1>5, <2>1, <2>3 DEF Pending, GoneDay, OldDays
  <2>4. CASE PolicyExpired(m, now)
    BY <1>5, <2>1, <2>4 DEF Pending, PolicyExpired
  <2>5. QED
    BY <2>2, <2>3, <2>4
<1> HIDE DEF due, pc
<1>7. b.pc \in {"policy", "close"} /\ (b.pc = "close" => b.todo # {})
  BY <1>5 DEF pc
<1>8. due \subseteq kept
  BY <1>2 DEF due
<1>9. \A d \in b.todo : GoneDay(d, b.at)
  BY <1>5 DEF OldDays, GoneDay
<1>10. SweepOK(b)
  BY <1>3, <1>5, <1>6, <1>7, <1>8, <1>9 DEF SweepOK
<1>11. SweepOK(b)'
  BY <1>1, <1>10 DEF SweepOK, Stored
<1>12. KeptUntilExpiry'
  BY <1>1 DEF PartInv, KeptUntilExpiry
<1>13. QED
  BY <1>1, <1>4, <1>11, <1>12, SweepStep DEF PartInv, Shape

\* The next stream, or none.
LEMMA PruneBeginsStep ==
  ASSUME PartInv, NEW w \in Sweepers, PruneBegins(w)
  PROVE  PartInv'
<1>1. PICK s \in sweep[w].streams :
        sweep' = [sweep EXCEPT ![w].streams = @ \ {s}, ![w].stream = {s},
                    ![w].todo = exists, ![w].pc = IF exists = {} THEN "policy" ELSE "open"]
  BY DEF PruneBegins
<1>2. sweep[w].pc = "policy" /\ UNCHANGED <<now, exists, dbs, table, fts, writer, kept>>
  BY DEF PruneBegins
<1>3. sweep[w] \in Sweep /\ SweepOK(sweep[w]) /\ s \in Streams /\ exists \subseteq PartDays
  BY DEF PartInv, Shape, Sweep
<1>4. PICK b \in Sweep :
        b = [sweep[w] EXCEPT !.streams = sweep[w].streams \ {s}, !.stream = {s},
               !.todo = exists, !.pc = IF exists = {} THEN "policy" ELSE "open"]
  BY <1>3 DEF Sweep
<1>5. /\ b.streams = sweep[w].streams \ {s} /\ b.stream = {s} /\ b.todo = exists
      /\ b.pc = IF exists = {} THEN "policy" ELSE "open"
      /\ b.at = sweep[w].at /\ b.due = sweep[w].due /\ b.failed = sweep[w].failed
  BY <1>3, <1>4 DEF Sweep
<1>6. sweep' = [sweep EXCEPT ![w] = b]
  BY <1>1, <1>4 DEF PartInv, Shape
<1>7. ASSUME ~b.failed, NEW m \in b.due, Stored(m) PROVE Pending(b, m)
  <2>1. PolicyExpired(m, b.at) /\ m.kind.stream \in sweep[w].streams
    BY <1>2, <1>3, <1>5, <1>7 DEF SweepOK, Pending
  <2>2. Day(m) \in exists
    <3>1. Day(m) \in PartDays
      BY <1>3, <1>5, MessageDay DEF Sweep
    <3>2. QED
      BY <1>7, <3>1 DEF Stored, PartInv, RowsInPlace
  <2>3. QED
    BY <1>5, <2>1, <2>2 DEF Pending
<1>8. SweepOK(b)
  BY <1>3, <1>5, <1>7 DEF SweepOK
<1>9. SweepOK(b)'
  BY <1>2, <1>8 DEF SweepOK, Stored
<1>10. KeptUntilExpiry'
  BY <1>2 DEF PartInv, KeptUntilExpiry
<1>11. QED
  BY <1>2, <1>6, <1>9, <1>10, SweepStep DEF PartInv, Shape

\* The sweep is through with its streams, or with one of them early.
LEMMA EndsStep ==
  ASSUME PartInv, NEW w \in Sweepers, SweepEnds(w) \/ PruneFails(w)
  PROVE  PartInv'
<1>1. UNCHANGED <<now, exists, dbs, table, fts, writer, kept>>
  BY DEF SweepEnds, PruneFails
<1>2. sweep[w] \in Sweep /\ SweepOK(sweep[w])
  BY DEF PartInv, Shape
<1>3. KeptUntilExpiry'
  BY <1>1 DEF PartInv, KeptUntilExpiry
<1>4. CASE SweepEnds(w)
  <2>1. PICK b \in Sweep : b = [sweep[w] EXCEPT !.pc = "done", !.todo = {}, !.stream = {}]
    BY <1>2 DEF Sweep
  <2>2. sweep' = [sweep EXCEPT ![w] = b] /\ sweep[w].pc = "policy" /\ sweep[w].streams = {}
    BY <1>4, <2>1 DEF SweepEnds, PartInv, Shape
  <2>3. /\ b.pc = "done" /\ b.streams = {} /\ b.stream = {} /\ b.todo = {}
        /\ b.at = sweep[w].at /\ b.due = sweep[w].due /\ b.failed = sweep[w].failed
    BY <1>2, <2>1, <2>2 DEF Sweep
  <2>4. SweepOK(b)
    BY <1>2, <2>2, <2>3 DEF SweepOK, Pending
  <2>5. SweepOK(b)'
    BY <1>1, <2>4 DEF SweepOK, Stored
  <2>6. QED
    BY <1>1, <1>3, <2>2, <2>5, SweepStep DEF PartInv, Shape
<1>5. CASE PruneFails(w)
  <2>1. PICK b \in Sweep :
          b = [sweep[w] EXCEPT !.pc = "policy", !.failed = TRUE, !.h = NoHandle]
    BY <1>2, IdleIs DEF Sweep
  <2>2. sweep' = [sweep EXCEPT ![w] = b]
    BY <1>5, <2>1 DEF PruneFails, PartInv, Shape
  <2>3. /\ b.pc = "policy" /\ b.streams = sweep[w].streams /\ b.stream = sweep[w].stream
        /\ b.at = sweep[w].at /\ b.due = sweep[w].due /\ b.failed
    BY <1>2, <2>1 DEF Sweep
  <2>4. SweepOK(b)
    BY <1>2, <2>3 DEF SweepOK
  <2>5. SweepOK(b)'
    BY <1>1, <2>4 DEF SweepOK, Stored
  <2>6. QED
    BY <1>1, <1>3, <2>2, <2>5, SweepStep DEF PartInv, Shape
<1>6. QED
  BY <1>4, <1>5

\* What a stream's policy dooms has expired by now.
LEMMA DoomedExpired ==
  ASSUME PartInv, NEW w \in Sweepers, NEW d \in PartDays, NEW r \in Doomed(w, d)
  PROVE  r.msg \in Message /\ ExpiredAt(r.msg, now)
<1>1. r \in table[d] /\ r.msg \in Message
  BY DEF Doomed, PartInv, RowsInPlace, Shape
<1>2. sweep[w] \in Sweep /\ SweepOK(sweep[w]) /\ now \in Int
  BY DEF PartInv, Shape
<1>3. PolicyExpired(r.msg, sweep[w].at)
  BY <1>2 DEF Doomed, SweepOK, PolicyExpired
<1>4. sweep[w].at \in Int /\ sweep[w].at <= now
  BY <1>2 DEF Sweep, SweepOK
<1>5. QED
  BY <1>1, <1>2, <1>3, <1>4, ExpiredIs, ExpiredStays

LEMMA PruneIndexStep ==
  ASSUME PartInv, NEW w \in Sweepers, PruneIndex(w)
  PROVE  PartInv'
<1> DEFINE d == Earliest(sweep[w].todo)
<1>1. /\ sweep[w].pc = "fts" /\ UNCHANGED <<now, exists, dbs, table, writer, kept>>
      /\ fts' = [fts EXCEPT ![d] = fts[d] \ Doomed(w, d)]
  BY DEF PruneIndex, PartInv, Shape
<1>2. sweep[w] \in Sweep /\ SweepOK(sweep[w])
  BY DEF PartInv, Shape
<1>3. d \in PartDays
  BY <1>1, <1>2, EarliestIs DEF Sweep, SweepOK
<1>4. PICK b \in Sweep : b = [sweep[w] EXCEPT !.pc = "rows"]
  BY <1>2 DEF Sweep
<1>5. sweep' = [sweep EXCEPT ![w] = b]
  BY <1>4 DEF PruneIndex, PartInv, Shape
<1>6. /\ b.pc = "rows" /\ b.streams = sweep[w].streams /\ b.stream = sweep[w].stream
      /\ b.at = sweep[w].at /\ b.due = sweep[w].due /\ b.failed = sweep[w].failed
      /\ b.todo = sweep[w].todo /\ b.h = sweep[w].h
  BY <1>2, <1>4 DEF Sweep
<1>7. SweepOK(b)
  <2>1. ASSUME NEW m, Pending(sweep[w], m) PROVE Pending(b, m)
    BY <1>1, <1>6, <2>1 DEF Pending
  <2>2. QED
    BY <1>1, <1>2, <1>6, <2>1 DEF SweepOK
<1>8. SweepOK(b)'
  BY <1>1, <1>7 DEF SweepOK, Stored
<1>9. KeptUntilExpiry'
  <2> SUFFICES ASSUME NEW m \in kept, ~ExpiredAt(m, now)
               PROVE  \E r \in table[Day(m)] \cap fts'[Day(m)] : r.msg = m
    BY <1>1 DEF KeptUntilExpiry, Day
  <2>1. PICK r \in table[Day(m)] \cap fts[Day(m)] : r.msg = m
    BY DEF PartInv, KeptUntilExpiry, Day
  <2>2. Day(m) \in PartDays
    BY MessageDay DEF PartInv, Shape
  <2>3. r \notin Doomed(w, d)
    BY <1>3, <2>1, DoomedExpired
  <2>4. r \in fts'[Day(m)]
    BY <1>1, <2>1, <2>2, <2>3 DEF PartInv, Shape
  <2>5. QED
    BY <2>1, <2>4
<1>10. fts' = [e \in PartDays |-> fts'[e]] /\ table' = [e \in PartDays |-> table'[e]]
  BY <1>1 DEF PartInv, Shape
<1>11. QED
  BY <1>1, <1>5, <1>8, <1>9, <1>10, SweepStep

\* The rows of the day that the policy dooms go, if the handle is still on the file; if it
\* is not, there are none.
LEMMA PruneRowsStep ==
  ASSUME PartInv, NEW w \in Sweepers, PruneRows(w)
  PROVE  PartInv'
<1> DEFINE d    == Earliest(sweep[w].todo)
           rest == sweep[w].todo \ {d}
<1>1. /\ sweep[w].pc = "rows" /\ sweep[w].h.open
      /\ UNCHANGED <<now, exists, dbs, fts, writer, kept>>
      /\ table' = [table EXCEPT ![d] = table[d] \ Doomed(w, d)]
  BY DEF PruneRows, PartInv, Shape
<1>2. sweep[w] \in Sweep /\ SweepOK(sweep[w])
  BY DEF PartInv, Shape
<1>3. d \in PartDays /\ d \in sweep[w].todo
  BY <1>1, <1>2, EarliestIs DEF Sweep, SweepOK
<1>4. PICK b \in Sweep : b = [sweep[w] EXCEPT !.todo = rest, !.h = NoHandle,
                                             !.pc = IF rest = {} THEN "policy" ELSE "open"]
  BY <1>2, IdleIs DEF Sweep
<1>5. sweep' = [sweep EXCEPT ![w] = b]
  BY <1>4 DEF PruneRows, PartInv, Shape
<1>6. /\ b.pc = IF rest = {} THEN "policy" ELSE "open"
      /\ b.streams = sweep[w].streams /\ b.stream = sweep[w].stream
      /\ b.at = sweep[w].at /\ b.due = sweep[w].due /\ b.failed = sweep[w].failed
      /\ b.todo = rest
  BY <1>2, <1>4 DEF Sweep
<1>7. /\ \A e \in PartDays : table'[e] \subseteq table[e]
      /\ table'[d] = table[d] \ Doomed(w, d)
      /\ \A e \in PartDays \ {d} : table'[e] = table[e]
      /\ table' = [e \in PartDays |-> table'[e]] /\ fts' = [e \in PartDays |-> fts'[e]]
  BY <1>1, <1>3 DEF PartInv, Shape
<1>8. ASSUME ~b.failed, NEW m \in b.due, Stored(m)' PROVE Pending(b, m)
  <2>1. Day(m) \in PartDays
    BY <1>2, <1>6, MessageDay DEF Sweep
  <2>2. PICK r \in table'[Day(m)] : r.msg = m
    BY <1>8 DEF Stored
  <2>3. Stored(m) /\ r \in table[Day(m)]
    BY <1>7, <2>1, <2>2 DEF Stored
  <2>4. Pending(sweep[w], m)
    BY <1>2, <1>6, <1>8, <2>3 DEF SweepOK
  <2>5. CASE PolicyExpired(m, sweep[w].at) /\ m.kind.stream \in sweep[w].streams
    BY <1>6, <2>5 DEF Pending
  <2>6. CASE /\ PolicyExpired(m, sweep[w].at) /\ m.kind.stream \in sweep[w].stream
             /\ Day(m) \in sweep[w].todo
    <3>1. Day(m) # d
      <4>1. SUFFICES ASSUME Day(m) = d PROVE FALSE
        OBVIOUS
      <4>2. sweep[w].h = dbs[d]
        BY <1>1, <1>2 DEF SweepOK
      <4>3. d \in exists
        BY <2>3, <4>1, <1>3 DEF PartInv, RowsInPlace
      <4>4. sweep[w].h.linked
        BY <1>1, <1>3, <4>2, <4>3 DEF PartInv, HandlesOnFiles
      <4>5. r \in Doomed(w, d)
        BY <2>2, <2>3, <2>6, <4>1, <4>4 DEF Doomed, PolicyExpired
      <4>6. QED
        BY <1>7, <2>2, <4>1, <4>5
    <3>2. Day(m) \in rest /\ b.pc = "open"
      BY <1>6, <2>6, <3>1
    <3>3. QED
      BY <1>6, <2>6, <3>2 DEF Pending
  <2>7. QED
    BY <1>1, <2>4, <2>5, <2>6 DEF Pending
<1>9. SweepOK(b)'
  <2>1. b.at <= now /\ b.due \subseteq kept /\ \A s \in b.streams \cup b.stream : HasPolicy(s)
    BY <1>2, <1>6 DEF SweepOK
  <2>2. b.pc \in {"policy", "open"} /\ (b.pc = "open" => b.todo # {})
    BY <1>6
  <2>3. QED
    BY <1>1, <1>8, <2>1, <2>2 DEF SweepOK
<1>10. KeptUntilExpiry'
  <2> SUFFICES ASSUME NEW m \in kept, ~ExpiredAt(m, now)
               PROVE  \E r \in table'[Day(m)] \cap fts[Day(m)] : r.msg = m
    BY <1>1 DEF KeptUntilExpiry, Day
  <2>1. PICK r \in table[Day(m)] \cap fts[Day(m)] : r.msg = m
    BY DEF PartInv, KeptUntilExpiry, Day
  <2>2. Day(m) \in PartDays
    BY MessageDay DEF PartInv, Shape
  <2>3. r \notin Doomed(w, d)
    BY <1>3, <2>1, DoomedExpired
  <2>4. r \in table'[Day(m)]
    BY <1>7, <2>1, <2>2, <2>3
  <2>5. QED
    BY <2>1, <2>4
<1>11. QED
  BY <1>1, <1>5, <1>7, <1>9, <1>10, SweepStep

-----------------------------------------------------------------------------
\* Store.db gives the handle that others may hold, or opens the day's file.
LEMMA DBGives ==
  ASSUME PartInv, NEW d \in PartDays, NEW h \in Handle, DB(d, h),
         UNCHANGED <<now, table, kept>>
  PROVE  /\ exists' \subseteq PartDays /\ exists \subseteq exists'
         /\ dbs' \in [PartDays -> Handle] /\ HandlesOnFiles' /\ RowsInPlace'
         /\ dbs'[d] = h /\ h.open /\ IF h.linked THEN d \in exists' ELSE GoneDay(d, now)
         /\ \A e \in PartDays : dbs[e].open => dbs'[e] = dbs[e]
<1>1. CASE dbs[d].open
  <2>1. h = dbs[d] /\ dbs' = dbs /\ exists' = exists
    BY <1>1 DEF DB, PartInv, Shape
  <2>2. QED
    BY <1>1, <2>1 DEF PartInv, Shape, HandlesOnFiles, RowsInPlace
<1>2. CASE ~dbs[d].open
  <2>1. /\ h = [open |-> TRUE, linked |-> TRUE] /\ dbs' = [dbs EXCEPT ![d] = h]
        /\ exists' = exists \cup {d}
    BY <1>2 DEF DB
  <2>2. h.open /\ h.linked
    BY <2>1
  <2>3. /\ dbs'[d] = h /\ \A e \in PartDays \ {d} : dbs'[e] = dbs[e]
        /\ dbs' \in [PartDays -> Handle]
    BY <2>1 DEF PartInv, Shape
  <2>4. HandlesOnFiles'
    BY <2>1, <2>2, <2>3 DEF PartInv, HandlesOnFiles
  <2>5. RowsInPlace'
    BY <2>1 DEF PartInv, RowsInPlace
  <2>6. QED
    BY <1>2, <2>1, <2>2, <2>3, <2>4, <2>5 DEF PartInv, Shape
<1>3. QED
  BY <1>1, <1>2

LEMMA StoreBeginsStep ==
  ASSUME PartInv, StoreBegins
  PROVE  PartInv'
<1>1. PICK k \in Kinds, h \in Handle :
        /\ DB(DayOf(k.ts), h)
        /\ writer' = [pc |-> "begin", h |-> h, msg |-> {[id |-> NextId, kind |-> k]}]
  BY DEF StoreBegins
<1>2. UNCHANGED <<now, table, fts, sweep, kept>> /\ NextId <= MaxRows
  BY DEF StoreBegins
<1>3. PICK m \in Message : m = [id |-> NextId, kind |-> k]
  <2>1. NextId \in 1..MaxRows
    <3>1. Cardinality(kept) \in Nat
      BY FS_CardinalityType DEF PartInv, NextIsNew
    <3>2. QED
      BY <1>2, <3>1, PartitionsAssumption DEF NextId
  <2>2. QED
    BY <2>1 DEF Message
<1>4. m.id = NextId /\ m.kind = k /\ Day(m) = DayOf(k.ts) /\ DayOf(k.ts) \in PartDays
  BY <1>3, KindTypes DEF Day
<1>5. /\ exists' \subseteq PartDays /\ exists \subseteq exists'
      /\ dbs' \in [PartDays -> Handle] /\ HandlesOnFiles' /\ RowsInPlace'
      /\ IF h.linked THEN Day(m) \in exists' ELSE GoneDay(Day(m), now)
      /\ \A e \in PartDays : dbs[e].open => dbs'[e] = dbs[e]
  BY <1>1, <1>2, <1>4, DBGives
<1>6. writer' \in Writer /\ writer'.h = h /\ writer'.msg = {m}
  BY <1>1, <1>3 DEF Writer
<1>7. Shape' /\ NextIsNew' /\ WriterOnFile'
  BY <1>2, <1>4, <1>5, <1>6
     DEF PartInv, Shape, NextIsNew, WriterOnFile, NextId, Day, GoneDay
<1>8. ASSUME NEW w \in Sweepers PROVE SweepOK(sweep[w])'
  <2>1. sweep[w] \in Sweep /\ SweepOK(sweep[w])
    BY DEF PartInv, Shape
  <2>2. HandleKept(w)
    <3> SUFFICES ASSUME sweep[w].pc \in {"fts", "rows"}, sweep[w].h.open
                 PROVE  sweep[w].h = dbs'[Earliest(sweep[w].todo)]
      BY <1>2 DEF HandleKept
    <3>1. Earliest(sweep[w].todo) \in PartDays
      BY <2>1, EarliestIs DEF Sweep, SweepOK
    <3>2. QED
      BY <1>5, <2>1, <3>1 DEF SweepOK
  <2>3. SameWork(w) /\ RowsGo /\ now' \in Nat /\ now <= now' /\ kept \subseteq kept'
    BY <1>2 DEF SameWork, AllButHandle, RowsGo, PartInv, Shape
  <2>4. QED
    BY <2>2, <2>3, SweepKept
<1>9. KeptUntilExpiry'
  BY <1>2 DEF PartInv, KeptUntilExpiry
<1>10. QED
  BY <1>5, <1>7, <1>8, <1>9 DEF PartInv

LEMMA PruneOpensStep ==
  ASSUME PartInv, NEW w \in Sweepers, PruneOpens(w)
  PROVE  PartInv'
<1> DEFINE d == Earliest(sweep[w].todo)
<1>1. PICK h \in Handle : DB(d, h) /\ sweep' = [sweep EXCEPT ![w].h = h, ![w].pc = "fts"]
  BY DEF PruneOpens
<1>2. sweep[w].pc = "open" /\ UNCHANGED <<now, table, fts, writer, kept>>
  BY DEF PruneOpens
<1>3. sweep[w] \in Sweep /\ SweepOK(sweep[w])
  BY DEF PartInv, Shape
<1>4. d \in PartDays
  BY <1>2, <1>3, EarliestIs DEF Sweep, SweepOK
<1>5. /\ exists' \subseteq PartDays /\ exists \subseteq exists'
      /\ dbs' \in [PartDays -> Handle] /\ HandlesOnFiles' /\ RowsInPlace'
      /\ dbs'[d] = h /\ \A e \in PartDays : dbs[e].open => dbs'[e] = dbs[e]
  BY <1>1, <1>2, <1>4, DBGives
<1>6. PICK b \in Sweep : b = [sweep[w] EXCEPT !.h = h, !.pc = "fts"]
  BY <1>3 DEF Sweep
<1>7. sweep' = [sweep EXCEPT ![w] = b]
  BY <1>1, <1>6 DEF PartInv, Shape
<1>8. sweep'[w] = b /\ \A v \in Sweepers \ {w} : sweep'[v] = sweep[v]
  BY <1>7 DEF PartInv, Shape
<1>9. /\ b.pc = "fts" /\ b.streams = sweep[w].streams /\ b.stream = sweep[w].stream
      /\ b.at = sweep[w].at /\ b.due = sweep[w].due /\ b.failed = sweep[w].failed
      /\ b.todo = sweep[w].todo /\ b.h = h
  BY <1>3, <1>6 DEF Sweep
<1>10. Shape' /\ NextIsNew' /\ WriterOnFile' /\ KeptUntilExpiry'
  <2>1. Shape'
    BY <1>2, <1>5, <1>7 DEF PartInv, Shape
  <2>2. NextIsNew' /\ WriterOnFile' /\ KeptUntilExpiry'
    BY <1>2, <1>5 DEF PartInv, NextIsNew, WriterOnFile, KeptUntilExpiry
  <2>3. QED
    BY <2>1, <2>2
<1>11. SweepOK(sweep[w])'
  <2>1. \A m \in b.due : Pending(sweep[w], m) => Pending(b, m)
    BY <1>2, <1>9 DEF Pending
  <2>2. b.h = dbs'[Earliest(b.todo)]
    BY <1>5, <1>9
  <2>3. SweepOK(b)'
    BY <1>2, <1>3, <1>9, <2>1, <2>2 DEF SweepOK, Stored
  <2>4. QED
    BY <1>8, <2>3
<1>12. ASSUME NEW v \in Sweepers \ {w} PROVE SweepOK(sweep[v])'
  <2>1. sweep[v] \in Sweep /\ SweepOK(sweep[v])
    BY DEF PartInv, Shape
  <2>2. HandleKept(v)
    <3> SUFFICES ASSUME sweep[v].pc \in {"fts", "rows"}, sweep[v].h.open
                 PROVE  sweep[v].h = dbs'[Earliest(sweep[v].todo)]
      BY <1>8 DEF HandleKept
    <3>1. Earliest(sweep[v].todo) \in PartDays
      BY <2>1, EarliestIs DEF Sweep, SweepOK
    <3>2. QED
      BY <1>5, <2>1, <3>1 DEF SweepOK
  <2>3. SameWork(v) /\ RowsGo /\ now' \in Nat /\ now <= now' /\ kept \subseteq kept'
    BY <1>2, <1>8 DEF SameWork, AllButHandle, RowsGo, PartInv, Shape
  <2>4. QED
    BY <2>2, <2>3, SweepKept
<1>13. QED
  BY <1>5, <1>10, <1>11, <1>12 DEF PartInv

-----------------------------------------------------------------------------
LEMMA TickStep ==
  ASSUME PartInv, Tick
  PROVE  PartInv'
<1>1. now' = now + 1 /\ UNCHANGED <<exists, dbs, table, fts, writer, sweep, kept>>
  BY DEF Tick
<1>2. now \in Int /\ now' \in Nat /\ now <= now'
  BY <1>1 DEF PartInv, Shape
<1>3. \A d \in PartDays : GoneDay(d, now) => GoneDay(d, now')
  BY <1>2, GoneStays
<1>4. Shape' /\ RowsInPlace' /\ NextIsNew'
  BY <1>1, <1>2 DEF PartInv, Shape, RowsInPlace, NextIsNew
<1>5. HandlesOnFiles'
  BY <1>1, <1>3 DEF PartInv, HandlesOnFiles
<1>6. WriterOnFile'
  <2>1. \A m \in writer.msg : Day(m) \in PartDays
    BY MessageDay DEF PartInv, Shape, Writer
  <2>2. QED
    BY <1>1, <1>3, <2>1 DEF PartInv, WriterOnFile
<1>7. ASSUME NEW w \in Sweepers PROVE SweepOK(sweep[w])'
  <2>1. SameWork(w) /\ HandleKept(w) /\ RowsGo /\ kept \subseteq kept'
    BY <1>1 DEF SameWork, AllButHandle, HandleKept, RowsGo, PartInv, SweepOK
  <2>2. QED
    BY <1>2, <2>1, SweepKept
<1>8. KeptUntilExpiry'
  <2> SUFFICES ASSUME NEW m \in kept, ~ExpiredAt(m, now')
               PROVE  \E r \in table[Day(m)] \cap fts[Day(m)] : r.msg = m
    BY <1>1 DEF KeptUntilExpiry, Day
  <2>1. m \in Message
    BY DEF PartInv, Shape
  <2>2. ~ExpiredAt(m, now)
    BY <1>2, <2>1, ExpiredStays
  <2>3. QED
    BY <2>2 DEF PartInv, KeptUntilExpiry, Day
<1>9. QED
  BY <1>4, <1>5, <1>6, <1>7, <1>8 DEF PartInv

LEMMA BeginTxStep ==
  ASSUME PartInv, BeginTx
  PROVE  PartInv'
<1>1. UNCHANGED <<now, exists, dbs, table, fts, sweep, kept>>
  BY DEF BeginTx
<1>2. writer' = [writer EXCEPT !.pc = "commit"] \/ writer' = NoWork
  BY DEF BeginTx
<1>3. writer \in Writer
  BY DEF PartInv, Shape
<1>4. /\ writer' \in Writer /\ writer'.msg \subseteq writer.msg
      /\ writer'.msg # {} => writer'.h = writer.h
  BY <1>2, <1>3, IdleIs DEF Writer, NoWork
<1>5. Shape' /\ NextIsNew' /\ WriterOnFile'
  BY <1>1, <1>4 DEF PartInv, Shape, NextIsNew, WriterOnFile
<1>6. RowsInPlace' /\ HandlesOnFiles' /\ KeptUntilExpiry'
  BY <1>1 DEF PartInv, RowsInPlace, HandlesOnFiles, KeptUntilExpiry
<1>7. \A w \in Sweepers : SweepOK(sweep[w])'
  BY <1>1 DEF PartInv, SweepOK, Stored
<1>8. QED
  BY <1>5, <1>6, <1>7 DEF PartInv

\* A message goes into a file that is there, and into its index; or its day is no longer
\* kept.
LEMMA CommitTxStep ==
  ASSUME PartInv, CommitTx
  PROVE  PartInv'
<1>1. PICK m \in writer.msg :
        LET d   == Day(m)
            new == IF writer.h.linked THEN {[rowid |-> FreshRowid(table[d]), msg |-> m]} ELSE {}
        IN /\ table' = [table EXCEPT ![d] = table[d] \cup new]
           /\ fts' = [fts EXCEPT ![d] = fts[d] \cup new]
           /\ kept' = kept \cup {m}
  BY DEF CommitTx, Day, PartInv, Shape
<1>2. writer' = NoWork /\ UNCHANGED <<now, exists, dbs, sweep>>
  BY DEF CommitTx
<1> DEFINE d   == Day(m)
           row == [rowid |-> FreshRowid(table[d]), msg |-> m]
           new == IF writer.h.linked THEN {row} ELSE {}
<1>3. m \in Message /\ d \in PartDays
  BY MessageDay DEF PartInv, Shape, Writer
<1>4. m.id = Cardinality(kept) + 1 /\ m \notin kept /\ Cardinality(kept) \in Nat
  <2>1. Cardinality(kept) \in Nat
    BY FS_CardinalityType DEF PartInv, NextIsNew
  <2>2. m.id = Cardinality(kept) + 1 /\ \A k \in kept : k.id <= Cardinality(kept)
    BY DEF PartInv, NextIsNew
  <2>3. QED
    BY <2>1, <2>2
<1>5. row.msg = m
  OBVIOUS
<1> HIDE DEF row
<1>6. /\ table'[d] = table[d] \cup new /\ fts'[d] = fts[d] \cup new
      /\ \A e \in PartDays \ {d} : table'[e] = table[e] /\ fts'[e] = fts[e]
      /\ table' = [e \in PartDays |-> table'[e]] /\ fts' = [e \in PartDays |-> fts'[e]]
      /\ kept' = kept \cup {m}
  BY <1>1, <1>3 DEF PartInv, Shape, row
<1>7. \A r \in new : r.msg = m
  BY <1>5
<1>8. writer.h.linked => d \in exists
  BY DEF PartInv, WriterOnFile
<1>9. ~writer.h.linked => ExpiredAt(m, now)
  BY <1>3, ExpiredIs DEF PartInv, WriterOnFile
<1>10. Shape'
  BY <1>2, <1>3, <1>6, IdleIs DEF PartInv, Shape
<1>11. RowsInPlace'
  <2> SUFFICES ASSUME NEW e \in PartDays, NEW r \in table'[e]
               PROVE  r.msg \in kept \cup {m} /\ Day(r.msg) = e /\ e \in exists
    BY <1>2, <1>6 DEF RowsInPlace
  <2>1. CASE r \in table[e]
    BY <2>1 DEF PartInv, RowsInPlace
  <2>2. CASE r \notin table[e]
    <3>1. e = d /\ r \in new
      BY <1>6, <2>2
    <3>2. QED
      BY <1>7, <1>8, <3>1
  <2>3. QED
    BY <2>1, <2>2
<1>12. NextIsNew'
  <2>1. IsFiniteSet(kept') /\ Cardinality(kept') = Cardinality(kept) + 1
    BY <1>4, <1>6, FS_AddElement DEF PartInv, NextIsNew
  <2>2. \A k \in kept : k.id \in Nat /\ k.id <= Cardinality(kept)
    BY PartitionsAssumption DEF PartInv, Shape, NextIsNew, Message
  <2>3. \A k \in kept' : k.id <= Cardinality(kept')
    BY <1>4, <1>6, <2>1, <2>2
  <2>4. QED
    BY <1>2, <2>1, <2>3 DEF NextIsNew, NoWork
<1>13. HandlesOnFiles' /\ WriterOnFile'
  BY <1>2 DEF PartInv, HandlesOnFiles, WriterOnFile, NoWork
<1>14. RowsGo
  <2> SUFFICES ASSUME NEW e \in PartDays, NEW r \in table'[e], r \notin table[e]
               PROVE  r.msg \notin kept
    BY DEF RowsGo
  <2>1. r \in new
    BY <1>6
  <2>2. QED
    BY <1>4, <1>7, <2>1
<1>15. ASSUME NEW w \in Sweepers PROVE SweepOK(sweep[w])'
  <2>1. SameWork(w) /\ HandleKept(w) /\ now' \in Nat /\ now <= now' /\ kept \subseteq kept'
    BY <1>2, <1>6 DEF SameWork, AllButHandle, HandleKept, PartInv, SweepOK, Shape
  <2>2. QED
    BY <1>14, <2>1, SweepKept
<1>16. KeptUntilExpiry'
  <2> SUFFICES ASSUME NEW k \in kept \cup {m}, ~ExpiredAt(k, now)
               PROVE  \E r \in table'[Day(k)] \cap fts'[Day(k)] : r.msg = k
    BY <1>2, <1>6 DEF KeptUntilExpiry, Day
  <2>1. CASE k \in kept
    <3>1. PICK r \in table[Day(k)] \cap fts[Day(k)] : r.msg = k
      BY <2>1 DEF PartInv, KeptUntilExpiry, Day
    <3>2. Day(k) \in PartDays
      BY <2>1, MessageDay DEF PartInv, Shape
    <3>3. r \in table'[Day(k)] \cap fts'[Day(k)]
      BY <1>6, <3>1, <3>2
    <3>4. QED
      BY <3>1, <3>3
  <2>2. CASE k = m
    <3>1. row \in new
      BY <1>9, <2>2
    <3>2. QED
      BY <1>5, <1>6, <2>2, <3>1
  <2>3. QED
    BY <2>1, <2>2
<1>17. QED
  BY <1>10, <1>11, <1>12, <1>13, <1>15, <1>16 DEF PartInv

LEMMA CrashStep ==
  ASSUME PartInv, Crash
  PROVE  PartInv'
<1>1. /\ dbs' = [d \in PartDays |-> NoHandle] /\ writer' = NoWork
      /\ sweep' = [w \in Sweepers |-> IdleSweep] /\ UNCHANGED <<now, exists, table, fts, kept>>
  BY DEF Crash
<1>2. Shape'
  BY <1>1, IdleIs DEF PartInv, Shape
<1>3. HandlesOnFiles' /\ WriterOnFile'
  BY <1>1 DEF HandlesOnFiles, WriterOnFile, NoHandle, NoWork
<1>4. NextIsNew' /\ RowsInPlace' /\ KeptUntilExpiry'
  BY <1>1 DEF PartInv, NextIsNew, RowsInPlace, KeptUntilExpiry, NoWork
<1>5. \A w \in Sweepers : SweepOK(sweep[w])'
  <2>1. 0 <= now
    BY DEF PartInv, Shape
  <2>2. QED
    BY <1>1, <2>1 DEF SweepOK, IdleSweep
<1>6. QED
  BY <1>2, <1>3, <1>4, <1>5 DEF PartInv

-----------------------------------------------------------------------------
LEMMA ClosedIs ==
  ASSUME NEW h \in Handle
  PROVE  /\ Closed(h) \in Handle /\ ~Closed(h).open /\ Closed(h).linked = h.linked
         /\ IfOpen(Closed(h)) = NoHandle
BY DEF Handle, Closed, IfOpen

LEMMA UnlinkedIs ==
  ASSUME NEW h \in Handle
  PROVE  /\ Unlinked(h) \in Handle /\ Unlinked(h).open = h.open /\ ~Unlinked(h).linked
         /\ IfOpen(Unlinked(h)) \in Handle /\ ~IfOpen(Unlinked(h)).linked
         /\ IfOpen(Unlinked(h)).open => h.open
BY DEF Handle, Unlinked, IfOpen, NoHandle

\* A sweep that follows a day whose handle changes, as the store's own handle does.
LEMMA SweepFollows ==
  ASSUME PartInv, NEW w \in Sweepers, NEW D \in SUBSET PartDays,
         SameWork(w), RowsGo, now' = now, kept' = kept,
         \A d \in PartDays \ D : dbs'[d] = dbs[d],
         SweepDay(w) \cap D = {} => sweep'[w].h = sweep[w].h,
         SweepDay(w) \cap D # {} /\ sweep'[w].h.open =>
           sweep'[w].h = dbs'[Earliest(sweep[w].todo)]
  PROVE  SweepOK(sweep[w])'
<1>1. sweep[w] \in Sweep /\ SweepOK(sweep[w])
  BY DEF PartInv, Shape
<1>2. HandleKept(w)
  <2> SUFFICES ASSUME sweep[w].pc \in {"fts", "rows"}, sweep'[w].h.open
               PROVE  sweep'[w].h = dbs'[Earliest(sweep[w].todo)]
    BY DEF HandleKept
  <2>1. Earliest(sweep[w].todo) \in PartDays
    BY <1>1, EarliestIs DEF Sweep, SweepOK
  <2>2. SweepDay(w) = {Earliest(sweep[w].todo)}
    BY DEF SweepDay
  <2>3. QED
    BY <1>1, <2>1, <2>2 DEF SweepOK
<1>3. now' \in Nat /\ now <= now' /\ kept \subseteq kept'
  BY DEF PartInv, Shape
<1>4. QED
  BY <1>2, <1>3, SweepKept

\* DropCloses and CloseStore.
LEMMA CloseHandles ==
  ASSUME PartInv, NEW D \in SUBSET PartDays, HandlesBecome(D, Closed),
         UNCHANGED <<now, exists, table, fts, kept>>
  PROVE  /\ dbs' \in [PartDays -> Handle] /\ writer' \in Writer
         /\ \A d \in PartDays \ D : dbs'[d] = dbs[d]
         /\ RowsInPlace' /\ NextIsNew' /\ HandlesOnFiles' /\ WriterOnFile'
         /\ KeptUntilExpiry' /\ RowsGo
         /\ \A w \in Sweepers :
              /\ SweepHandlesBecome(D, Closed)[w] \in Sweep
              /\ AllButHandle(SweepHandlesBecome(D, Closed)[w], sweep[w])
              /\ SweepHandlesBecome(D, Closed)[w].h =
                   IF SweepDay(w) \cap D # {} THEN NoHandle ELSE sweep[w].h
<1>1. /\ dbs \in [PartDays -> Handle] /\ writer \in Writer /\ writer.h \in Handle
      /\ \A w \in Sweepers : sweep[w] \in Sweep /\ sweep[w].h \in Handle
  BY DEF PartInv, Shape, Writer, Sweep
<1>2. dbs' = [d \in PartDays |-> IF d \in D THEN NoHandle ELSE dbs[d]]
  <2>1. \A d \in PartDays : IfOpen(Closed(dbs[d])) = NoHandle
    BY <1>1, ClosedIs
  <2>2. QED
    BY <2>1 DEF HandlesBecome
<1>3. dbs' \in [PartDays -> Handle] /\ \A d \in PartDays \ D : dbs'[d] = dbs[d]
  BY <1>1, <1>2, IdleIs
<1>4. writer' = [writer EXCEPT !.h = IF WriterDay \cap D # {} THEN Closed(writer.h)
                                     ELSE writer.h]
  BY DEF HandlesBecome
<1>5. writer' \in Writer /\ writer'.msg = writer.msg /\ writer'.h.linked = writer.h.linked
  BY <1>1, <1>4, ClosedIs DEF Writer
<1>6. HandlesOnFiles'
  BY <1>2 DEF PartInv, HandlesOnFiles, NoHandle
<1>7. RowsInPlace' /\ NextIsNew' /\ WriterOnFile' /\ KeptUntilExpiry' /\ RowsGo
  BY <1>5 DEF PartInv, RowsInPlace, NextIsNew, WriterOnFile, KeptUntilExpiry, RowsGo
<1>8. ASSUME NEW w \in Sweepers
      PROVE  /\ SweepHandlesBecome(D, Closed)[w] \in Sweep
             /\ AllButHandle(SweepHandlesBecome(D, Closed)[w], sweep[w])
             /\ SweepHandlesBecome(D, Closed)[w].h =
                  IF SweepDay(w) \cap D # {} THEN NoHandle ELSE sweep[w].h
  <2>1. SweepHandlesBecome(D, Closed)[w] =
          [sweep[w] EXCEPT !.h = IF SweepDay(w) \cap D # {} THEN IfOpen(Closed(sweep[w].h))
                                 ELSE sweep[w].h]
    BY DEF SweepHandlesBecome
  <2>2. IfOpen(Closed(sweep[w].h)) = NoHandle
    BY <1>1, ClosedIs
  <2>3. QED
    BY <1>1, <2>1, <2>2, IdleIs DEF Sweep, AllButHandle
<1>9. QED
  BY <1>3, <1>5, <1>6, <1>7, <1>8

LEMMA CloseStoreStep ==
  ASSUME PartInv, CloseStore
  PROVE  PartInv'
<1>1. /\ HandlesBecome(PartDays, Closed) /\ UNCHANGED <<now, exists, table, fts, kept>>
      /\ sweep' = SweepHandlesBecome(PartDays, Closed)
  BY DEF CloseStore
<1>2. /\ dbs' \in [PartDays -> Handle] /\ writer' \in Writer
      /\ RowsInPlace' /\ NextIsNew' /\ HandlesOnFiles' /\ WriterOnFile'
      /\ KeptUntilExpiry' /\ RowsGo
      /\ \A w \in Sweepers :
           /\ sweep'[w] \in Sweep /\ SameWork(w)
           /\ sweep'[w].h = IF SweepDay(w) \cap PartDays # {} THEN NoHandle ELSE sweep[w].h
  BY <1>1, CloseHandles DEF SameWork
<1>3. sweep' \in [Sweepers -> Sweep]
  BY <1>1, <1>2 DEF SweepHandlesBecome
<1>4. ASSUME NEW w \in Sweepers PROVE SweepOK(sweep[w])'
  <2>1. ~NoHandle.open
    BY DEF NoHandle
  <2>2. /\ SweepDay(w) \cap PartDays = {} => sweep'[w].h = sweep[w].h
        /\ SweepDay(w) \cap PartDays # {} => ~sweep'[w].h.open
    BY <1>2, <2>1
  <2>3. QED
    BY <1>1, <1>2, <2>2, SweepFollows
<1>5. Shape'
  BY <1>1, <1>2, <1>3 DEF PartInv, Shape
<1>6. QED
  BY <1>2, <1>4, <1>5 DEF PartInv

LEMMA DropClosesStep ==
  ASSUME PartInv, NEW w \in Sweepers, DropCloses(w)
  PROVE  PartInv'
<1> DEFINE D == {Earliest(sweep[w].todo)}
           S == SweepHandlesBecome(D, Closed)
<1>1. /\ sweep[w].pc = "close" /\ HandlesBecome(D, Closed)
      /\ UNCHANGED <<now, exists, table, fts, kept>> /\ sweep' = [S EXCEPT ![w].pc = "remove"]
  BY DEF DropCloses
<1>2. sweep[w] \in Sweep /\ SweepOK(sweep[w])
  BY DEF PartInv, Shape
<1>3. D \in SUBSET PartDays
  BY <1>1, <1>2, EarliestIs DEF Sweep, SweepOK
<1>4. /\ dbs' \in [PartDays -> Handle] /\ writer' \in Writer
      /\ \A d \in PartDays \ D : dbs'[d] = dbs[d]
      /\ RowsInPlace' /\ NextIsNew' /\ HandlesOnFiles' /\ WriterOnFile'
      /\ KeptUntilExpiry' /\ RowsGo
      /\ \A v \in Sweepers :
           /\ S[v] \in Sweep /\ AllButHandle(S[v], sweep[v])
           /\ S[v].h = IF SweepDay(v) \cap D # {} THEN NoHandle ELSE sweep[v].h
  BY <1>1, <1>3, CloseHandles
<1>5. S = [v \in Sweepers |-> S[v]]
  BY DEF SweepHandlesBecome
<1> HIDE DEF S
<1>6. /\ sweep'[w] = [S[w] EXCEPT !.pc = "remove"]
      /\ \A v \in Sweepers \ {w} : sweep'[v] = S[v]
      /\ sweep' \in [Sweepers -> Sweep]
  BY <1>1, <1>4, <1>5 DEF Sweep
<1>7. SweepOK(sweep[w])'
  <2>1. S[w].h = sweep[w].h
    BY <1>1, <1>4 DEF SweepDay
  <2>2. /\ sweep'[w].pc = "remove" /\ sweep'[w].at = sweep[w].at
        /\ sweep'[w].todo = sweep[w].todo /\ sweep'[w].streams = sweep[w].streams
        /\ sweep'[w].stream = sweep[w].stream /\ sweep'[w].due = sweep[w].due
        /\ sweep'[w].failed = sweep[w].failed
    BY <1>4, <1>6 DEF Sweep, AllButHandle
  <2>3. \A m \in sweep[w].due : Pending(sweep[w], m) => Pending(sweep[w], m)'
    BY <1>1, <2>2 DEF Pending
  <2>4. \A m \in sweep[w].due : Stored(m)' <=> Stored(m)
    BY <1>1 DEF Stored
  <2>5. QED
    BY <1>1, <1>2, <2>2, <2>3, <2>4 DEF SweepOK
<1>8. ASSUME NEW v \in Sweepers \ {w} PROVE SweepOK(sweep[v])'
  <2>1. SameWork(v)
    BY <1>4, <1>6 DEF SameWork
  <2>2. ~NoHandle.open
    BY DEF NoHandle
  <2>3. /\ SweepDay(v) \cap D = {} => sweep'[v].h = sweep[v].h
        /\ SweepDay(v) \cap D # {} => ~sweep'[v].h.open
    BY <1>4, <1>6, <2>2
  <2>4. QED
    BY <1>1, <1>3, <1>4, <2>1, <2>3, SweepFollows
<1>9. Shape'
  BY <1>1, <1>4, <1>6 DEF PartInv, Shape
<1>10. QED
  BY <1>4, <1>7, <1>8, <1>9 DEF PartInv

\* The files of a day that the store no longer keeps go, and every handle on them is on
\* a file nobody finds.
LEMMA DropRemovesStep ==
  ASSUME PartInv, NEW w \in Sweepers, DropRemoves(w)
  PROVE  PartInv'
<1> DEFINE d    == Earliest(sweep[w].todo)
           rest == sweep[w].todo \ {d}
           S    == SweepHandlesBecome({d}, Unlinked)
<1>1. /\ sweep[w].pc = "remove" /\ exists' = exists \ {d}
      /\ table' = [table EXCEPT ![d] = {}] /\ fts' = [fts EXCEPT ![d] = {}]
      /\ HandlesBecome({d}, Unlinked) /\ UNCHANGED <<now, kept>>
      /\ sweep' = [S EXCEPT ![w].todo = rest,
                            ![w].pc = IF rest = {} THEN "policy" ELSE "close"]
  BY DEF DropRemoves
<1>2. sweep[w] \in Sweep /\ SweepOK(sweep[w]) /\ now \in Nat
  BY DEF PartInv, Shape
<1>3. d \in PartDays /\ d \in sweep[w].todo
  BY <1>1, <1>2, EarliestIs DEF Sweep, SweepOK
<1>4. GoneDay(d, now)
  <2>1. GoneDay(d, sweep[w].at) /\ sweep[w].at \in Int /\ sweep[w].at <= now
    BY <1>1, <1>2, <1>3 DEF Sweep, SweepOK
  <2>2. QED
    BY <1>2, <1>3, <2>1, GoneStays
<1>5. /\ dbs \in [PartDays -> Handle] /\ writer \in Writer /\ writer.h \in Handle
      /\ \A v \in Sweepers : sweep[v] \in Sweep /\ sweep[v].h \in Handle
  BY DEF PartInv, Shape, Writer, Sweep
<1>6. /\ table'[d] = {} /\ \A e \in PartDays \ {d} : table'[e] = table[e] /\ fts'[e] = fts[e]
      /\ table' = [e \in PartDays |-> table'[e]] /\ fts' = [e \in PartDays |-> fts'[e]]
  BY <1>1, <1>3 DEF PartInv, Shape
<1>7. /\ dbs' \in [PartDays -> Handle] /\ \A e \in PartDays \ {d} : dbs'[e] = dbs[e]
      /\ dbs'[d] = IfOpen(Unlinked(dbs[d])) /\ ~dbs'[d].linked
  <2>1. dbs' = [e \in PartDays |-> IF e \in {d} THEN IfOpen(Unlinked(dbs[e])) ELSE dbs[e]]
    BY <1>1 DEF HandlesBecome
  <2>2. QED
    BY <1>3, <1>5, <2>1, UnlinkedIs
<1>8. /\ writer' \in Writer /\ writer'.msg = writer.msg
      /\ writer'.h = IF d \in WriterDay THEN Unlinked(writer.h) ELSE writer.h
  <2>1. writer' = [writer EXCEPT !.h = IF WriterDay \cap {d} # {} THEN Unlinked(writer.h)
                                       ELSE writer.h]
    BY <1>1 DEF HandlesBecome
  <2>2. QED
    BY <1>5, <2>1, UnlinkedIs DEF Writer
<1>9. ASSUME NEW v \in Sweepers
      PROVE  /\ S[v] \in Sweep /\ AllButHandle(S[v], sweep[v])
             /\ S[v].h = IF d \in SweepDay(v) THEN IfOpen(Unlinked(sweep[v].h))
                         ELSE sweep[v].h
  <2>1. S[v] = [sweep[v] EXCEPT !.h = IF SweepDay(v) \cap {d} # {}
                                      THEN IfOpen(Unlinked(sweep[v].h)) ELSE sweep[v].h]
    BY DEF SweepHandlesBecome
  <2> HIDE DEF S
  <2>2. IfOpen(Unlinked(sweep[v].h)) \in Handle
    BY <1>5, UnlinkedIs
  <2>3. QED
    BY <1>5, <2>1, <2>2 DEF Sweep, AllButHandle
<1>10. S = [v \in Sweepers |-> S[v]]
  BY DEF SweepHandlesBecome
<1> HIDE DEF S
<1>11. /\ \A v \in Sweepers \ {w} : sweep'[v] = S[v]
       /\ sweep' \in [Sweepers -> Sweep]
       /\ sweep'[w] = [S[w] EXCEPT !.todo = rest,
                                   !.pc = IF rest = {} THEN "policy" ELSE "close"]
  <2>1. sweep'[w] = [S[w] EXCEPT !.todo = rest,
                                 !.pc = IF rest = {} THEN "policy" ELSE "close"]
    BY <1>1, <1>10
  <2>2. \A v \in Sweepers \ {w} : sweep'[v] = S[v]
    BY <1>1, <1>10
  <2>3. rest \in SUBSET PartDays
    BY <1>2 DEF Sweep
  <2>4. sweep'[w] \in Sweep
    BY <1>9, <2>1, <2>3 DEF Sweep
  <2>5. \A v \in Sweepers : sweep'[v] \in Sweep
    BY <1>9, <2>2, <2>4
  <2>6. sweep' = [v \in Sweepers |-> sweep'[v]]
    BY <1>1, <1>10
  <2>7. QED
    BY <2>1, <2>2, <2>5, <2>6
<1>12. Shape'
  BY <1>1, <1>6, <1>7, <1>8, <1>11 DEF PartInv, Shape
<1>13. RowsInPlace'
  BY <1>1, <1>6 DEF PartInv, RowsInPlace
<1>14. NextIsNew'
  BY <1>1, <1>8 DEF PartInv, NextIsNew
<1>15. HandlesOnFiles'
  BY <1>1, <1>4, <1>7 DEF PartInv, HandlesOnFiles
<1>16. WriterOnFile'
  <2> SUFFICES ASSUME NEW m \in writer.msg
               PROVE  IF writer'.h.linked THEN Day(m) \in exists' ELSE GoneDay(Day(m), now)
    BY <1>1, <1>8 DEF WriterOnFile, GoneDay
  <2>1. CASE d \in WriterDay
    <3>1. ~writer'.h.linked
      BY <1>5, <1>8, <2>1, UnlinkedIs
    <3>2. GoneDay(Day(m), now)
      <4>1. CASE Day(m) = d
        BY <1>4, <4>1
      <4>2. CASE Day(m) # d
        BY <2>1, <4>2 DEF PartInv, NextIsNew, WriterDay, Day
      <4>3. QED
        BY <4>1, <4>2
    <3>3. QED
      BY <3>1, <3>2
  <2>2. CASE d \notin WriterDay
    <3>1. Day(m) # d
      BY <2>2 DEF WriterDay, Day
    <3>2. QED
      BY <1>1, <1>8, <2>2, <3>1 DEF PartInv, WriterOnFile
  <2>3. QED
    BY <2>1, <2>2
<1>17. RowsGo
  BY <1>6 DEF RowsGo
<1>18. SweepOK(sweep[w])'
  <2>1. S[w].h = sweep[w].h /\ AllButHandle(S[w], sweep[w])
    BY <1>1, <1>9 DEF SweepDay
  <2>2. /\ sweep'[w].pc = IF rest = {} THEN "policy" ELSE "close"
        /\ sweep'[w].at = sweep[w].at
        /\ sweep'[w].todo = rest /\ sweep'[w].streams = sweep[w].streams
        /\ sweep'[w].stream = sweep[w].stream /\ sweep'[w].due = sweep[w].due
        /\ sweep'[w].failed = sweep[w].failed
    BY <1>9, <1>11, <2>1 DEF Sweep, AllButHandle
  <2>3. ASSUME ~sweep[w].failed, NEW m \in sweep[w].due, Stored(m)'
        PROVE  Pending(sweep[w], m)'
    <3>1. Day(m) \in PartDays
      BY <1>2, MessageDay DEF Sweep
    <3>2. Day(m) # d /\ Stored(m)
      BY <1>6, <2>3, <3>1 DEF Stored
    <3>3. Pending(sweep[w], m)
      BY <1>2, <2>3, <3>2 DEF SweepOK
    <3>4. QED
      BY <1>1, <2>2, <3>2, <3>3 DEF Pending
  <2>4. /\ sweep'[w].at <= now' /\ sweep'[w].due \subseteq kept'
        /\ \A s \in sweep'[w].streams \cup sweep'[w].stream : HasPolicy(s)
    BY <1>1, <1>2, <2>2 DEF SweepOK
  <2>5. /\ sweep'[w].pc \in {"policy", "close"}
        /\ sweep'[w].pc = "close" => sweep'[w].todo # {}
    BY <2>2
  <2>6. \A e \in sweep'[w].todo : GoneDay(e, sweep'[w].at)
    BY <1>1, <1>2, <2>2 DEF SweepOK
  <2>7. ~sweep'[w].failed => \A m \in sweep'[w].due : Stored(m)' => Pending(sweep[w], m)'
    BY <2>2, <2>3
  <2>8. QED
    BY <2>4, <2>5, <2>6, <2>7 DEF SweepOK
<1>19. ASSUME NEW v \in Sweepers \ {w} PROVE SweepOK(sweep[v])'
  <2>1. SameWork(v)
    BY <1>9, <1>11 DEF SameWork
  <2>2. SweepDay(v) \cap {d} = {} => sweep'[v].h = sweep[v].h
    BY <1>9, <1>11
  <2>3. ASSUME SweepDay(v) \cap {d} # {}, sweep'[v].h.open
        PROVE  sweep'[v].h = dbs'[Earliest(sweep[v].todo)]
    <3>1. sweep[v].pc \in {"fts", "rows"} /\ Earliest(sweep[v].todo) = d
      BY <2>3 DEF SweepDay
    <3>2. sweep'[v].h = IfOpen(Unlinked(sweep[v].h))
      BY <1>9, <1>11, <2>3
    <3>3. sweep[v].h.open
      BY <1>5, <2>3, <3>2, UnlinkedIs
    <3>4. sweep[v].h = dbs[d]
      BY <3>1, <3>3 DEF PartInv, SweepOK
    <3>5. QED
      BY <1>7, <3>1, <3>2, <3>4
  <2>4. QED
    BY <1>1, <1>3, <1>7, <1>17, <2>1, <2>2, <2>3, SweepFollows
<1>20. KeptUntilExpiry'
  <2> SUFFICES ASSUME NEW m \in kept, ~ExpiredAt(m, now)
               PROVE  \E r \in table'[Day(m)] \cap fts'[Day(m)] : r.msg = m
    BY <1>1 DEF KeptUntilExpiry, Day
  <2>1. Day(m) \in PartDays /\ Day(m) # d
    BY <1>4, ExpiredIs, MessageDay DEF PartInv, Shape
  <2>2. QED
    BY <1>6, <2>1 DEF PartInv, KeptUntilExpiry, Day
<1>21. QED
  BY <1>12, <1>13, <1>14, <1>15, <1>16, <1>18, <1>19, <1>20 DEF PartInv

-----------------------------------------------------------------------------
LEMMA PartStep ==
  ASSUME PartInv, [PartNext]_ptvars
  PROVE  PartInv'
<1>1. CASE UNCHANGED ptvars
  <2>1. \A w \in Sweepers : SweepOK(sweep[w])'
    BY <1>1 DEF ptvars, PartInv, SweepOK, Stored
  <2>2. Shape' /\ RowsInPlace' /\ NextIsNew' /\ HandlesOnFiles' /\ WriterOnFile'
        /\ KeptUntilExpiry'
    BY <1>1 DEF ptvars, PartInv, Shape, RowsInPlace, NextIsNew, HandlesOnFiles,
                WriterOnFile, KeptUntilExpiry
  <2>3. QED
    BY <2>1, <2>2 DEF PartInv
<1>2. QED
  BY <1>1, TickStep, StoreBeginsStep, BeginTxStep, CommitTxStep, BeginsStep,
     DropClosesStep, DropRemovesStep, PruneBeginsStep, PruneOpensStep, PruneIndexStep,
     PruneRowsStep, EndsStep, CloseStoreStep, CrashStep
     DEF PartNext

LEMMA PartAlways == PartSpec => []PartInv
<1>1. PartInv /\ [PartNext]_ptvars => PartInv'
  BY PartStep
<1>2. QED
  BY PartStarts, <1>1, PTL DEF PartSpec

\* A message that was stored is in its day's file and its index until the configuration
\* lets go of it, through overlapping sweeps, late messages, closed handles and crashes
\* (retention.go:62-87).
THEOREM RetentionKeeps == PartSpec => []KeptUntilExpiry
<1>1. PartInv => KeptUntilExpiry
  BY DEF PartInv
<1>2. QED
  BY <1>1, PartAlways, PTL

\* A sweep that ends without an error leaves nothing of what had expired when it began
\* (search.go:67-125).
THEOREM RetentionPrunes == PartSpec => []SweepPrunes
<1>1. ASSUME PartInv PROVE SweepPrunes
  <2> SUFFICES ASSUME NEW w \in Sweepers, sweep[w].pc = "done", ~sweep[w].failed,
                      NEW m \in sweep[w].due, m \in Reachable
               PROVE  FALSE
    BY DEF SweepPrunes
  <2>1. PICK d \in exists : \E r \in table[d] : r.msg = m
    BY DEF Reachable
  <2>2. Stored(m)
    BY <1>1, <2>1 DEF PartInv, Shape, RowsInPlace, Stored
  <2>3. SweepOK(sweep[w])
    BY <1>1 DEF PartInv
  <2>4. QED
    BY <2>2, <2>3 DEF SweepOK, Pending
<1>2. QED
  BY <1>1, PartAlways, PTL

=============================================================================
