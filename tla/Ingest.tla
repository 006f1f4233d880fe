------------------------------- MODULE Ingest -------------------------------
(***************************************************************************)
(* The processor (internal/processing/processor.go) between the ingest      *)
(* journal and the day-partitioned log store (Store and storeDay of         *)
(* internal/logstore/sqlite/store.go).  The journal is taken at its         *)
(* abstraction, module IngestQueue, which module Journal implements.        *)
(*                                                                          *)
(* One goroutine loops: it gathers a batch, decodes it, stores it one day   *)
(* partition at a time, retries, forwards it, and commits.  Against it run  *)
(* the inputs that append, the eviction they cause, the application that    *)
(* closes the journal and then cancels the context, and the end of the      *)
(* process at any step.  Only the process ends: after a power failure the   *)
(* journal is no IngestQueue any more (module Journal, PowerLoss).  A row   *)
(* of the store stands for a message under the UUID it was given.           *)
(***************************************************************************)
EXTENDS Integers, FiniteSets

CONSTANTS
  BatchSize,     \* Options.BatchSize (2000)
  StoreRetries,  \* storeRetries (3)
  Days,          \* the UTC days messages fall on: one database file each
  Faults,        \* which of FaultKinds may occur
  MaxNext,       \* bound: sequence numbers the journal assigns
  MaxLives       \* bound: times the process starts again

FaultKinds ==
  {"store",   \* a partition's transaction fails (disk full, busy timeout)
   "read",    \* Reader.Next returns an error that is not ErrClosed
   "kill"}    \* the process ends between two steps, and is started again

ASSUME IngestAssumption ==
  /\ BatchSize \in Nat \ {0} /\ StoreRetries \in Nat \ {0}
  /\ MaxNext \in Nat /\ MaxLives \in Nat
  /\ Faults \subseteq FaultKinds

VARIABLES
  put, next, low, cursor, mark, saved,   \* the journal: see IngestQueue
  closed,     \* Journal.Close was called
  cancelled,  \* Run's context was cancelled
  ppc,        \* where the processor is
  batch,      \* the sequence numbers gathered since the last Commit
  msgs,       \* the day of each record of the batch that became a message
  left,       \* days this call of Store has not committed yet
  attempt,    \* calls of Store made for this batch
  rows,       \* the log store: record, UUID and day of every message
  fwd,        \* record and UUID of the messages handed to the outputs
  life,       \* how many times the process was started again
  skipped,    \* records that decoding or a pipeline dropped
  abandoned,  \* records whose batch was given up
  evicted     \* records the size cap removed before they were committed

qvars == <<put, next, low, cursor, mark, saved>>
pvars == <<ppc, batch, msgs, left, attempt>>
svars == <<rows, fwd>>
hvars == <<life, skipped, abandoned, evicted>>
vars  == <<qvars, closed, cancelled, pvars, svars, hvars>>

Queue == INSTANCE IngestQueue

Row == [rec : Nat, uuid : Nat, day : Days]

TypeOK ==
  /\ Queue!TypeOK
  /\ closed \in BOOLEAN /\ cancelled \in BOOLEAN
  /\ ppc \in {"next", "gather", "store", "retry", "dispatch", "commit", "save",
              "done", "failed"}
  /\ batch \subseteq put /\ DOMAIN msgs \subseteq batch
  /\ msgs \in [DOMAIN msgs -> Days] /\ left \subseteq Days
  /\ attempt \in 0..StoreRetries
  /\ rows \subseteq Row /\ fwd \subseteq [rec : Nat, uuid : Nat]
  /\ life \in 0..MaxLives
  /\ skipped \subseteq put /\ abandoned \subseteq put /\ evicted \subseteq put

\* n is the highest sequence of the batch (maxSeq).
MaxSeq(n) == n \in batch /\ \A m \in batch : m <= n

\* m.ID = uuid.NewString(), once for each record of a batch: a record that is
\* read again after a restart gets another one, a retry of Store does not.
NewId_PerAttempt == (StoreRetries + 1) * life + attempt   \* mutant: drawn in Store

NewId == life

RowsOf(recs) == {[rec |-> r, uuid |-> NewId, day |-> msgs[r]] : r \in recs}

-----------------------------------------------------------------------------
Init ==
  /\ Queue!Init /\ closed = FALSE /\ cancelled = FALSE
  /\ ppc = "next" /\ batch = {} /\ msgs = <<>> /\ left = {} /\ attempt = 0
  /\ rows = {} /\ fwd = {}
  /\ life = 0 /\ skipped = {} /\ abandoned = {} /\ evicted = {}

(* The inputs, and the application. *)

\* journalPublisher.Publish; a closed journal refuses the record.
Publish ==
  /\ ~closed /\ Queue!Put
  /\ UNCHANGED <<closed, cancelled, pvars, svars, hvars>>

\* The size cap removes the oldest records, processed or not.
EvictBelow(n) ==
  /\ ~closed /\ Queue!Evict(n)
  /\ evicted' = evicted \cup {r \in put : r < n /\ r >= mark}
  /\ UNCHANGED <<closed, cancelled, pvars, svars, life, skipped, abandoned>>

CloseJournal ==
  /\ ~closed /\ closed' = TRUE
  /\ UNCHANGED <<qvars, cancelled, pvars, svars, hvars>>

\* procCancel, which shutdown calls when the drain takes too long; Run may have
\* returned by then.
Cancel ==
  /\ closed /\ ~cancelled
  /\ cancelled' = TRUE
  /\ UNCHANGED <<qvars, closed, pvars, svars, hvars>>

-----------------------------------------------------------------------------
(* Run and gather.                                                          *)

\* Reader.Next gives a record, the first of the batch or one more.  Neither
\* call looks at Run's context while there is a record to give.
Take ==
  /\ ppc \in {"next", "gather"} /\ Cardinality(batch) < BatchSize
  /\ \E n \in put : Queue!Take(n) /\ batch' = batch \cup {n}
  /\ ppc' = "gather"
  /\ UNCHANGED <<closed, cancelled, msgs, left, attempt, svars, hvars>>

RunReturns_Cancelled ==              \* mutant: no case <-j.closedCh
  /\ ppc = "next" /\ cursor >= next /\ cancelled
  /\ ppc' = "done"
  /\ UNCHANGED <<qvars, closed, cancelled, batch, msgs, left, attempt, svars,
                 hvars>>

\* Next finds the journal closed and drained, or the context cancelled while
\* it waits: Run returns nil.
RunReturns ==
  /\ ppc = "next" /\ cursor >= next /\ (closed \/ cancelled)
  /\ ppc' = "done"
  /\ UNCHANGED <<qvars, closed, cancelled, batch, msgs, left, attempt, svars,
                 hvars>>

\* Next fails otherwise: Run returns the error.  (In gather it ends the batch.)
RunFails ==
  /\ ppc = "next" /\ "read" \in Faults
  /\ ppc' = "failed"
  /\ UNCHANGED <<qvars, closed, cancelled, batch, msgs, left, attempt, svars,
                 hvars>>

\* The batch is full, or nothing came for BatchWait, or Next failed.  Each
\* record is decoded and processed: it becomes a message of some day, or none.
GatherEnds ==
  /\ ppc = "gather"
  /\ \E kept \in SUBSET batch :
       /\ msgs' \in [kept -> Days]
       /\ skipped' = skipped \cup (batch \ kept)
       /\ left' = {msgs'[r] : r \in kept}
       /\ ppc' = IF kept = {} THEN "commit" ELSE "store"
  /\ attempt' = 0
  /\ UNCHANGED <<qvars, closed, cancelled, batch, svars, life, abandoned,
                 evicted>>

-----------------------------------------------------------------------------
(* storeWithRetry, Store and storeDay.                                      *)

\* One partition's transaction commits; INSERT OR IGNORE leaves the messages
\* an earlier attempt stored as they are.  After the last day Store returns nil.
StoreDay_FirstOnly(d) ==             \* mutant: return inside the loop over days
  /\ ppc = "store" /\ d \in left /\ ~cancelled
  /\ rows' = rows \cup RowsOf({r \in DOMAIN msgs : msgs[r] = d})
  /\ left' = {} /\ ppc' = "dispatch"
  /\ UNCHANGED <<qvars, closed, cancelled, batch, msgs, attempt, fwd, hvars>>

StoreDay(d) ==
  /\ ppc = "store" /\ d \in left /\ ~cancelled
  /\ rows' = rows \cup RowsOf({r \in DOMAIN msgs : msgs[r] = d})
  /\ left' = left \ {d}
  /\ ppc' = IF left' = {} THEN "dispatch" ELSE "store"
  /\ UNCHANGED <<qvars, closed, cancelled, batch, msgs, attempt, fwd, hvars>>

\* A transaction fails and is rolled back, the days before it stay stored.  No
\* transaction begins on a cancelled context.
StoreFails ==
  /\ ppc = "store" /\ (cancelled \/ "store" \in Faults)
  /\ attempt' = attempt + 1 /\ ppc' = "retry"
  /\ UNCHANGED <<qvars, closed, cancelled, batch, msgs, left, svars, hvars>>

\* storeRetryWait is over: Store is called again with the same messages.  Of two
\* ready cases select takes either, so a cancelled context may lose to the timer.
Retry_Forever ==                     \* mutant: no bound on the attempts
  /\ ppc = "retry"
  /\ ppc' = "store" /\ left' = {msgs[r] : r \in DOMAIN msgs} /\ attempt' = 0
  /\ UNCHANGED <<qvars, closed, cancelled, batch, msgs, svars, hvars>>

Retry_OnceMore ==                     \* mutant: <= for <
  /\ ppc = "retry" /\ attempt <= StoreRetries
  /\ ppc' = "store" /\ left' = {msgs[r] : r \in DOMAIN msgs}
  /\ UNCHANGED <<qvars, closed, cancelled, batch, msgs, attempt, svars, hvars>>

Retry ==
  /\ ppc = "retry" /\ attempt < StoreRetries
  /\ ppc' = "store" /\ left' = {msgs[r] : r \in DOMAIN msgs}
  /\ UNCHANGED <<qvars, closed, cancelled, batch, msgs, attempt, svars, hvars>>

\* The retries are used up, or the context is cancelled: the batch is logged as
\* dropped, and committed all the same.
Abandon_Forwards ==                  \* mutant: no else before the forwarding
  /\ ppc = "retry" /\ (attempt = StoreRetries \/ cancelled)
  /\ abandoned' = abandoned \cup DOMAIN msgs
  /\ ppc' = "dispatch" /\ left' = {}
  /\ UNCHANGED <<qvars, closed, cancelled, batch, msgs, attempt, svars, life,
                 skipped, evicted>>

Abandon ==
  /\ ppc = "retry" /\ (attempt = StoreRetries \/ cancelled)
  /\ abandoned' = abandoned \cup DOMAIN msgs
  /\ ppc' = "commit" /\ left' = {}
  /\ UNCHANGED <<qvars, closed, cancelled, batch, msgs, attempt, svars, life,
                 skipped, evicted>>

\* The stored messages are handed to the outputs.
Dispatch ==
  /\ ppc = "dispatch"
  /\ fwd' = fwd \cup {[rec |-> r, uuid |-> NewId] : r \in DOMAIN msgs}
  /\ ppc' = "commit"
  /\ UNCHANGED <<qvars, closed, cancelled, batch, msgs, left, attempt, rows,
                 hvars>>

\* Journal.Commit: the cursor moves under the mutex, then reaches the disk, or
\* does not (IngestQueue's Save may leave `saved` as it is).
Commit ==
  /\ ppc = "commit"
  /\ \E n \in batch : MaxSeq(n) /\ Queue!Commit(n)
  /\ ppc' = "save"
  /\ UNCHANGED <<closed, cancelled, batch, msgs, left, attempt, svars, hvars>>

Save ==
  /\ ppc = "save" /\ Queue!Save
  /\ ppc' = "next" /\ batch' = {} /\ msgs' = <<>> /\ attempt' = 0
  /\ UNCHANGED <<closed, cancelled, left, svars, hvars>>

-----------------------------------------------------------------------------
(* Restarts.                                                                *)

\* Everything in memory is rebuilt; the reader starts at the saved mark.
Resume_Oldest ==                     \* mutant: committed.offset is not read
  /\ cursor' = low /\ mark' = saved /\ UNCHANGED <<put, next, low, saved>>

Resume == Queue!Restart

StartAgain ==
  /\ life < MaxLives /\ life' = life + 1
  /\ Resume
  /\ closed' = FALSE /\ cancelled' = FALSE
  /\ ppc' = "next" /\ batch' = {} /\ msgs' = <<>> /\ left' = {} /\ attempt' = 0
  /\ UNCHANGED <<svars, skipped, abandoned, evicted>>

Kill == "kill" \in Faults /\ StartAgain

-----------------------------------------------------------------------------
Processor ==
  \/ Take \/ RunReturns \/ RunFails \/ GatherEnds
  \/ (\E d \in Days : StoreDay(d)) \/ StoreFails \/ Retry \/ Abandon
  \/ Dispatch \/ Commit \/ Save

Next ==
  \/ Publish \/ (\E n \in put : EvictBelow(n))
  \/ CloseJournal \/ Cancel
  \/ Processor
  \/ Kill

Spec == Init /\ [][Next]_vars

\* The processor's goroutine goes on while it can; no read is made to fail.
FairSpec == Spec /\ WF_vars(Processor /\ ppc' # "failed")

-----------------------------------------------------------------------------
(* Properties.                                                              *)

Stored == {r.rec : r \in rows}

\* No record disappears unnoticed: what a restart would not read again is in
\* the store, or was dropped by a decoder, a pipeline, the retries' end or the
\* size cap, at whatever step the process ended (processor.go:117-161).
NothingLost ==
  \A n \in put : n < saved => n \in Stored \cup skipped \cup abandoned \cup evicted

\* Retries and partly stored batches make no duplicates: a record is in the
\* store at most once for every time the process was started.
OncePerLife == \A n \in Stored : Cardinality({r \in rows : r.rec = n}) <= life + 1

\* A record that is in the store, and whose commit reached the disk, is not
\* stored again, by this process or a later one (journal.go:333-334).  One
\* evicted first may be: the reader still holds the removed file open.
NotStoredAgain ==
  [][\A r \in rows' \ rows :
       r.rec \in Stored \ evicted => r.rec >= saved]_<<rows, saved>>

\* Outputs get only messages a search finds, under the same id
\* (processor.go:149-153).
ForwardedIsStored ==
  \A f \in fwd : \E r \in rows : r.rec = f.rec /\ r.uuid = f.uuid

\* "we skip the batch to avoid a poison-pill stall" (processor.go:146): the
\* mark passes every record, though every call of Store fails; unless the journal
\* cannot be read, which ends Run.
Progress == \A n \in 0..(MaxNext - 1) : n \in put ~> (mark > n \/ ppc = "failed")

\* Run ends when the journal is closed, or at the latest when it is cancelled
\* (processor.go:83), in a process that found the journal empty: a later one may
\* wait for a number that Restart left unused (Journal's Phantom).
RunEnds == (closed /\ life = 0) ~> (ppc \in {"done", "failed"} \/ life > 0)

\* "the ingest journal (which commits only after a store succeeds) covers any
\* writes lost to a crash by replaying them on restart" (store.go:56-58).
CommittedIsStored ==
  \A n \in put : n < saved => n \in Stored \cup skipped \cup evicted

=============================================================================
