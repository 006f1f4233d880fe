----------------------------- MODULE Partitions -----------------------------
(***************************************************************************)
(* The files of the log store (internal/logstore/sqlite): one database for  *)
(* every UTC day, opened on demand, written by the processor and pruned by   *)
(* retention sweeps (internal/retention) that may overlap.  Each database    *)
(* holds the rows and a full-text index over them.                           *)
(*                                                                          *)
(* A handle is one sql.DB.  It stays on the file it was opened on, also when  *)
(* the file has been removed: what is written there then, nobody finds.       *)
(***************************************************************************)
EXTENDS Integers, FiniteSets

CONSTANTS
  DayLen,      \* instants in a day
  GlobalDays,  \* Manager.globalDays; 0 turns partition retention off
  Streams,
  StreamDays,  \* the policy of each stream in days; 0 for none
  Sweepers,    \* sweeps that may run at the same time
  Kinds,       \* the timestamps and streams that messages may have
  FirstNow,    \* the clock at the start
  MaxNow,      \* bound: how far the clock runs
  MaxRows,     \* bound: messages stored
  MaxStops     \* bound: times the process ends

ASSUME PartitionsAssumption ==
  /\ DayLen \in Nat \ {0} /\ GlobalDays \in Nat
  /\ StreamDays \in [Streams -> Nat] /\ Kinds \subseteq [ts : Nat, stream : Streams]
  /\ {FirstNow, MaxNow, MaxRows, MaxStops} \subseteq Nat

VARIABLES
  now,      \* the clock
  exists,   \* the days that have a file
  dbs,      \* Store.dbs: the handle of each day
  table,    \* the rows in the file of each day
  fts,      \* the entries in that file's index: a rowid and the message indexed
  writer,   \* the processor's storeDay
  sweep,    \* the retention sweeps
  kept,     \* the messages whose transaction committed
  stopping, \* Store.Close was called
  stops     \* times the process ended

ptvars == <<now, exists, dbs, table, fts, writer, sweep, kept, stopping,
            stops>>

DayOf(ts) == ts \div DayLen
PartDays  == {DayOf(k.ts) : k \in Kinds}
Message   == [id : 1..MaxRows, kind : Kinds]
StoredRow == [rowid : 1..MaxRows, msg : Message]
Handle    == [open : BOOLEAN, linked : BOOLEAN]   \* linked: its file is in place

NoHandle  == [open |-> FALSE, linked |-> FALSE]
NoWork    == [pc |-> "idle", msg |-> {}, h |-> NoHandle]
IdleSweep == [pc |-> "idle", at |-> 0, todo |-> {}, streams |-> {}, stream |-> {},
              h |-> NoHandle, due |-> {}, failed |-> FALSE]

PartTypeOK ==
  /\ now \in FirstNow..MaxNow /\ exists \subseteq PartDays
  /\ dbs \in [PartDays -> Handle]
  /\ table \in [PartDays -> SUBSET StoredRow] /\ fts \in [PartDays -> SUBSET StoredRow]
  /\ writer \in [pc : {"idle", "begin", "commit"}, msg : SUBSET Message, h : Handle]
  /\ sweep \in [Sweepers ->
       [pc : {"idle", "close", "remove", "policy", "open", "fts", "rows", "done"},
        at : 0..MaxNow, todo : SUBSET PartDays, streams : SUBSET Streams,
        stream : SUBSET Streams, h : Handle, due : SUBSET Message, failed : BOOLEAN]]
  /\ kept \subseteq Message
  /\ stopping \in BOOLEAN /\ stops \in 0..MaxStops

PartInit ==
  /\ now = FirstNow /\ exists = {}
  /\ dbs = [d \in PartDays |-> NoHandle]
  /\ table = [d \in PartDays |-> {}] /\ fts = [d \in PartDays |-> {}]
  /\ writer = NoWork /\ sweep = [w \in Sweepers |-> IdleSweep]
  /\ kept = {} /\ stopping = FALSE /\ stops = 0

-----------------------------------------------------------------------------
(* Files and handles.                                                       *)

Earliest(S) == CHOOSE d \in S : \A e \in S : d <= e

\* Store.db under the mutex: h is the handle of day d, opened if there is none;
\* opening a day without a file creates one.
DB(d, h) ==
  /\ h = IF dbs[d].open THEN dbs[d] ELSE [open |-> TRUE, linked |-> TRUE]
  /\ dbs' = [dbs EXCEPT ![d] = h]
  /\ exists' = IF dbs[d].open THEN exists ELSE exists \cup {d}

\* The day a holder of a handle works on.
WriterDay == {DayOf(m.kind.ts) : m \in writer.msg}
SweepDay(w) == IF sweep[w].pc \in {"fts", "rows"} THEN {Earliest(sweep[w].todo)} ELSE {}

Closed(h)   == [h EXCEPT !.open = FALSE]
Unlinked(h) == [h EXCEPT !.linked = FALSE]

\* The handles of the days D become what f makes of them, whoever holds them.  Only
\* a transaction that is under way can still do something with a closed one.
IfOpen(h) == IF h.open THEN h ELSE NoHandle

HandlesBecome(D, f(_)) ==
  /\ dbs' = [d \in PartDays |-> IF d \in D THEN IfOpen(f(dbs[d])) ELSE dbs[d]]
  /\ writer' = [writer EXCEPT !.h = IF WriterDay \cap D # {} THEN f(@) ELSE @]

SweepHandlesBecome(D, f(_)) ==
  [w \in Sweepers |->
     [sweep[w] EXCEPT !.h = IF SweepDay(w) \cap D # {} THEN IfOpen(f(@)) ELSE @]]

\* The writer's transaction holds the one connection of its handle.
Busy(w) == writer.pc = "commit" /\ SweepDay(w) = WriterDay /\ writer.h = sweep[w].h

Tick ==
  /\ now < MaxNow /\ now' = now + 1
  /\ UNCHANGED <<exists, dbs, table, fts, writer, sweep, kept, stopping,
                 stops>>

-----------------------------------------------------------------------------
(* storeDay, for a batch of one message, old or new.                        *)

NextId == Cardinality(kept) + 1

StoreBegins ==
  /\ ~stopping /\ writer.pc = "idle" /\ NextId <= MaxRows
  /\ \E k \in Kinds, h \in Handle :
       /\ DB(DayOf(k.ts), h)
       /\ writer' = [pc |-> "begin", h |-> h, msg |-> {[id |-> NextId, kind |-> k]}]
  /\ UNCHANGED <<now, table, fts, sweep, kept, stopping, stops>>

\* A handle that was closed in between refuses the transaction; the processor
\* will call Store again.
BeginTx ==
  /\ writer.pc = "begin"
  /\ writer' = IF writer.h.open THEN [writer EXCEPT !.pc = "commit"] ELSE NoWork
  /\ UNCHANGED <<now, exists, dbs, table, fts, sweep, kept, stopping, stops>>

FreshRowid_Greatest(rows) ==         \* mutant: MAX(rowid) without one more
  IF rows = {} THEN 0
  ELSE CHOOSE n \in {r.rowid : r \in rows} : \A r \in rows : r.rowid <= n

\* rowid INTEGER PRIMARY KEY: one more than the greatest in the table.
FreshRowid(rows) ==
  IF rows = {} THEN 1
  ELSE 1 + (CHOOSE n \in {r.rowid : r \in rows} : \A r \in rows : r.rowid <= n)

\* The row and its index entry are committed together, on a connection that
\* outlives DB.Close, into the file the handle is on.
CommitTx ==
  /\ writer.pc = "commit"
  /\ \E m \in writer.msg :
       LET d   == DayOf(m.kind.ts)
           new == IF writer.h.linked THEN {[rowid |-> FreshRowid(table[d]), msg |-> m]} ELSE {}
       IN /\ table' = [table EXCEPT ![d] = @ \cup new]
          /\ fts' = [fts EXCEPT ![d] = @ \cup new]
          /\ kept' = kept \cup {m}
  /\ writer' = NoWork
  /\ UNCHANGED <<now, exists, dbs, sweep, stopping, stops>>

-----------------------------------------------------------------------------
(* Sweep: DropBefore for the whole store, then DeleteStreamBefore for each   *)
(* stream whose policy is shorter.                                          *)

CutoffDay(t) == DayOf(t - GlobalDays * DayLen)

StreamCut(s, t) == t - StreamDays[s] * DayLen

HasPolicy(s) == StreamDays[s] > 0 /\ (GlobalDays = 0 \/ StreamDays[s] < GlobalDays)

\* What the configuration lets go of at time t.
ExpiredAt(m, t) ==
  \/ GlobalDays > 0 /\ DayOf(m.kind.ts) < CutoffDay(t)
  \/ HasPolicy(m.kind.stream) /\ m.kind.ts < StreamCut(m.kind.stream, t)

\* The messages a search can still come by.
Reachable == UNION {{r.msg : r \in table[d]} : d \in exists}

OldDays_Inclusive(t) ==              \* mutant: day > cutoffDay keeps a partition
  {d \in exists : GlobalDays > 0 /\ d <= CutoffDay(t)}

OldDays(t) == {d \in exists : GlobalDays > 0 /\ d < CutoffDay(t)}

\* The clock is read and the partitions are listed.  (Bound: once in the life of
\* the process, for the sweep at start and for the nightly one.)
SweepBegins(w) ==
  /\ sweep[w].pc = "idle"
  /\ sweep' = [sweep EXCEPT ![w] =
       [IdleSweep EXCEPT !.pc = IF OldDays(now) = {} THEN "policy" ELSE "close",
          !.at = now, !.todo = OldDays(now),
          !.streams = {s \in Streams : HasPolicy(s)},
          !.due = {m \in Reachable : ExpiredAt(m, now)}]]
  /\ UNCHANGED <<now, exists, dbs, table, fts, writer, kept,
                 stopping, stops>>

\* The handle is closed and forgotten under the mutex,
DropCloses(w) ==
  /\ sweep[w].pc = "close"
  /\ LET D == {Earliest(sweep[w].todo)} IN
       /\ HandlesBecome(D, Closed)
       /\ sweep' = [SweepHandlesBecome(D, Closed) EXCEPT ![w].pc = "remove"]
  /\ UNCHANGED <<now, exists, table, fts, kept, stopping, stops>>

\* and the files are removed without it.
DropRemoves(w) ==
  /\ sweep[w].pc = "remove"
  /\ LET d    == Earliest(sweep[w].todo)
         rest == sweep[w].todo \ {d}
     IN /\ exists' = exists \ {d}
        /\ table' = [table EXCEPT ![d] = {}] /\ fts' = [fts EXCEPT ![d] = {}]
        /\ HandlesBecome({d}, Unlinked)
        /\ sweep' = [SweepHandlesBecome({d}, Unlinked) EXCEPT
                       ![w].todo = rest, ![w].pc = IF rest = {} THEN "policy" ELSE "close"]
  /\ UNCHANGED <<now, kept, stopping, stops>>

\* DeleteStreamBefore lists the partitions again for each stream.
PruneBegins_OpenOnly(w) ==           \* mutant: for day := range s.dbs
  /\ sweep[w].pc = "policy" /\ sweep[w].streams # {}
  /\ \E s \in sweep[w].streams :
       LET days == {d \in exists : dbs[d].open} IN
       sweep' = [sweep EXCEPT ![w].streams = @ \ {s}, ![w].stream = {s},
                   ![w].todo = days, ![w].pc = IF days = {} THEN "policy" ELSE "open"]
  /\ UNCHANGED <<now, exists, dbs, table, fts, writer, kept,
                 stopping, stops>>

PruneBegins(w) ==
  /\ sweep[w].pc = "policy" /\ sweep[w].streams # {}
  /\ \E s \in sweep[w].streams :
       sweep' = [sweep EXCEPT ![w].streams = @ \ {s}, ![w].stream = {s},
                   ![w].todo = exists, ![w].pc = IF exists = {} THEN "policy" ELSE "open"]
  /\ UNCHANGED <<now, exists, dbs, table, fts, writer, kept,
                 stopping, stops>>

PruneOpens(w) ==
  /\ sweep[w].pc = "open"
  /\ \E h \in Handle :
       /\ DB(Earliest(sweep[w].todo), h)
       /\ sweep' = [sweep EXCEPT ![w].h = h, ![w].pc = "fts"]
  /\ UNCHANGED <<now, table, fts, writer, kept, stopping, stops>>

\* Rows of day d that the stream's policy lets go of.
Doomed(w, d) ==
  {r \in table[d] : /\ sweep[w].h.linked
                    /\ r.msg.kind.stream \in sweep[w].stream
                    /\ r.msg.kind.ts < StreamCut(r.msg.kind.stream, sweep[w].at)}

\* First the index entries of the rows that are there now,
PruneIndex(w) ==
  /\ sweep[w].pc = "fts" /\ sweep[w].h.open /\ ~Busy(w)
  /\ LET d == Earliest(sweep[w].todo) IN fts' = [fts EXCEPT ![d] = @ \ Doomed(w, d)]
  /\ sweep' = [sweep EXCEPT ![w].pc = "rows"]
  /\ UNCHANGED <<now, exists, dbs, table, writer, kept, stopping, stops>>

\* then, in a statement of its own, the rows that are there then.
PruneRows(w) ==
  /\ sweep[w].pc = "rows" /\ sweep[w].h.open /\ ~Busy(w)
  /\ LET d    == Earliest(sweep[w].todo)
         rest == sweep[w].todo \ {d}
     IN /\ table' = [table EXCEPT ![d] = @ \ Doomed(w, d)]
        /\ sweep' = [sweep EXCEPT ![w].todo = rest, ![w].h = NoHandle,
                                  ![w].pc = IF rest = {} THEN "policy" ELSE "open"]
  /\ UNCHANGED <<now, exists, dbs, fts, writer, kept, stopping, stops>>

\* The handle was closed: the error ends this stream, and only this one.
PruneFails(w) ==
  /\ sweep[w].pc \in {"fts", "rows"} /\ ~sweep[w].h.open
  /\ sweep' = [sweep EXCEPT ![w].pc = "policy", ![w].failed = TRUE, ![w].h = NoHandle]
  /\ UNCHANGED <<now, exists, dbs, table, fts, writer, kept, stopping, stops>>

SweepEnds(w) ==
  /\ sweep[w].pc = "policy" /\ sweep[w].streams = {}
  /\ sweep' = [sweep EXCEPT ![w].pc = "done", ![w].todo = {}, ![w].stream = {}]
  /\ UNCHANGED <<now, exists, dbs, table, fts, writer, kept,
                 stopping, stops>>

-----------------------------------------------------------------------------
(* The end of the process.                                                  *)

\* Store.Close after the processor has returned.  Sweeps go on, and open what they
\* need again.
CloseStore ==
  /\ ~stopping /\ writer.pc = "idle" /\ stops < MaxStops
  /\ stopping' = TRUE
  /\ HandlesBecome(PartDays, Closed) /\ sweep' = SweepHandlesBecome(PartDays, Closed)
  /\ UNCHANGED <<now, exists, table, fts, kept, stops>>

\* The process ends, after Close or at any other step, and starts again.
Crash ==
  /\ stops < MaxStops /\ stops' = stops + 1 /\ stopping' = FALSE
  /\ dbs' = [d \in PartDays |-> NoHandle]
  /\ writer' = NoWork /\ sweep' = [w \in Sweepers |-> IdleSweep]
  /\ UNCHANGED <<now, exists, table, fts, kept>>

-----------------------------------------------------------------------------
PartNext ==
  \/ Tick \/ StoreBegins \/ BeginTx \/ CommitTx
  \/ \E w \in Sweepers :
       \/ SweepBegins(w) \/ DropCloses(w) \/ DropRemoves(w) \/ PruneBegins(w)
       \/ PruneOpens(w) \/ PruneIndex(w) \/ PruneRows(w) \/ PruneFails(w)
       \/ SweepEnds(w)
  \/ CloseStore \/ Crash

PartSpec == PartInit /\ [][PartNext]_ptvars

-----------------------------------------------------------------------------
(* Properties.                                                              *)

\* Whatever sweeps, writers and restarts overlap, a message that was
\* stored stays in its day's file, and in that file's index under its rowid,
\* until a retention policy lets go of it (retention.go:62-87).
KeptUntilExpiry ==
  \A m \in kept : ExpiredAt(m, now) \/
    \E r \in table[DayOf(m.kind.ts)] \cap fts[DayOf(m.kind.ts)] : r.msg = m

\* A sweep that met no error has removed every message that had expired and was
\* there when it began, from every partition, opened or not (search.go:67-125).
SweepPrunes ==
  \A w \in Sweepers :
    sweep[w].pc = "done" /\ ~sweep[w].failed => sweep[w].due \cap Reachable = {}

\* "Keep the FTS index consistent: delete matching FTS rows first, then the base
\* rows" (search.go:108-109): between sweeps the index of a partition has an
\* entry for each of its rows and no other.
IndexConsistent ==
  (\A w \in Sweepers : sweep[w].pc \in {"idle", "done"}) =>
    \A d \in exists : fts[d] = table[d]

=============================================================================
