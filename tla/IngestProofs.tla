---------------------------- MODULE IngestProofs ----------------------------
(***************************************************************************)
(* Proofs about module Ingest: its type correctness, and that no record is  *)
(* lost unnoticed, for every number of records, batch size, retry limit and *)
(* set of days, at whatever steps transactions fail and the process ends.   *)
(***************************************************************************)
EXTENDS Ingest, FiniteSetTheorems, TLAPS

-----------------------------------------------------------------------------
(* Type correctness.                                                        *)

\* The retry counter needs its bound at every place that reads it.
AttemptBound ==
  /\ ppc = "store" => attempt < StoreRetries
  /\ ppc = "retry" => attempt \in 1..StoreRetries

TypeInv == TypeOK /\ AttemptBound

LEMMA QueueInit == Queue!Init => Queue!TypeOK
  BY DEF Queue!Init, Queue!TypeOK

\* Every operation of the queue keeps its types, and forgets no record.
LEMMA QueueStep ==
  ASSUME Queue!TypeOK,
         \/ Queue!Put
         \/ \E n \in put : Queue!Evict(n) \/ Queue!Take(n) \/ Queue!Commit(n)
         \/ Queue!Save
         \/ Queue!Restart
         \/ UNCHANGED qvars
  PROVE  Queue!TypeOK' /\ put \subseteq put'
<1> USE DEF Queue!TypeOK
<1>1. CASE Queue!Put
  BY <1>1 DEF Queue!Put
<1>2. ASSUME NEW n \in put, Queue!Evict(n) PROVE Queue!TypeOK' /\ put \subseteq put'
  BY <1>2 DEF Queue!Evict, Queue!Larger
<1>3. ASSUME NEW n \in put, Queue!Take(n) PROVE Queue!TypeOK' /\ put \subseteq put'
  BY <1>3 DEF Queue!Take
<1>4. ASSUME NEW n \in put, Queue!Commit(n) PROVE Queue!TypeOK' /\ put \subseteq put'
  BY <1>4 DEF Queue!Commit, Queue!Larger
<1>5. CASE Queue!Save
  BY <1>5 DEF Queue!Save
<1>6. CASE Queue!Restart
  BY <1>6 DEF Queue!Restart, Queue!Larger
<1>7. CASE UNCHANGED qvars
  BY <1>7 DEF qvars
<1>8. QED
  BY <1>1, <1>2, <1>3, <1>4, <1>5, <1>6, <1>7

LEMMA TypeInit == Init => TypeInv
<1> SUFFICES ASSUME Init PROVE TypeInv
  OBVIOUS
<1>1. Queue!TypeOK
  BY QueueInit DEF Init
<1>2. DOMAIN msgs = {} /\ msgs \in [DOMAIN msgs -> Days]
  BY DEF Init
<1>3. /\ put = {} /\ closed = FALSE /\ cancelled = FALSE
      /\ ppc = "next" /\ batch = {} /\ left = {} /\ attempt = 0
      /\ rows = {} /\ fwd = {}
      /\ life = 0 /\ skipped = {} /\ abandoned = {} /\ evicted = {}
  BY DEF Init, Queue!Init
<1>4. attempt \in 0..StoreRetries /\ life \in 0..MaxLives
  BY <1>3, IngestAssumption
<1>5. AttemptBound
  BY <1>3 DEF AttemptBound
<1>6. /\ rows \subseteq Row /\ fwd \subseteq [rec : Nat, uuid : Nat]
      /\ skipped \subseteq put /\ abandoned \subseteq put /\ evicted \subseteq put
      /\ batch \subseteq put /\ DOMAIN msgs \subseteq batch /\ left \subseteq Days
  BY <1>2, <1>3
<1>7. QED
  BY <1>1, <1>2, <1>3, <1>4, <1>5, <1>6 DEF TypeInv, TypeOK

\* The messages made from a batch are stored under well-typed rows.
LEMMA RowsType ==
  ASSUME TypeOK, NEW S \in SUBSET DOMAIN msgs
  PROVE  RowsOf(S) \subseteq Row
  BY DEF TypeOK, RowsOf, Row, NewId, Queue!TypeOK

LEMMA TypeNext == TypeInv /\ [Next]_vars => TypeInv'
<1> SUFFICES ASSUME TypeInv, [Next]_vars PROVE TypeInv'
  OBVIOUS
<1> USE IngestAssumption
<1>1. CASE Publish
  <2>1. Queue!TypeOK' /\ put \subseteq put'
    BY <1>1, QueueStep DEF Publish, TypeInv, TypeOK
  <2>2. QED
    BY <1>1, <2>1 DEF Publish, TypeInv, TypeOK, AttemptBound, pvars, svars, hvars
<1>2. ASSUME NEW n \in put, EvictBelow(n) PROVE TypeInv'
  <2>1. Queue!TypeOK' /\ put \subseteq put'
    BY <1>2, QueueStep DEF EvictBelow, TypeInv, TypeOK
  <2>2. evicted' \subseteq put'
    BY <1>2, <2>1 DEF EvictBelow, TypeInv, TypeOK
  <2>3. QED
    BY <1>2, <2>1, <2>2 DEF EvictBelow, TypeInv, TypeOK, AttemptBound, pvars, svars
<1>3. CASE CloseJournal \/ Cancel
  <2>1. Queue!TypeOK' /\ put \subseteq put'
    BY <1>3, QueueStep DEF CloseJournal, Cancel, TypeInv, TypeOK
  <2>2. QED
    BY <1>3, <2>1 DEF CloseJournal, Cancel, TypeInv, TypeOK, AttemptBound,
                      pvars, svars, hvars
<1>4. CASE Take
  <2>1. PICK n \in put : Queue!Take(n) /\ batch' = batch \cup {n}
    BY <1>4 DEF Take
  <2>2. Queue!TypeOK' /\ put' = put
    BY <2>1, QueueStep DEF TypeInv, TypeOK, Queue!Take
  <2>3. QED
    BY <1>4, <2>1, <2>2 DEF Take, TypeInv, TypeOK, AttemptBound, svars, hvars
<1>5. CASE RunReturns \/ RunFails
  <2>1. Queue!TypeOK' /\ put' = put
    BY <1>5, QueueStep DEF RunReturns, RunFails, TypeInv, TypeOK, qvars
  <2>2. QED
    BY <1>5, <2>1 DEF RunReturns, RunFails, TypeInv, TypeOK, AttemptBound,
                      svars, hvars
<1>6. CASE GatherEnds
  <2>1. Queue!TypeOK' /\ put' = put
    BY <1>6, QueueStep DEF GatherEnds, TypeInv, TypeOK, qvars
  <2>2. PICK kept \in SUBSET batch :
          /\ msgs' \in [kept -> Days]
          /\ skipped' = skipped \cup (batch \ kept)
          /\ left' = {msgs'[r] : r \in kept}
          /\ ppc' = IF kept = {} THEN "commit" ELSE "store"
    BY <1>6 DEF GatherEnds
  <2>3. /\ DOMAIN msgs' \subseteq batch' /\ msgs' \in [DOMAIN msgs' -> Days]
        /\ left' \subseteq Days
    BY <1>6, <2>2 DEF GatherEnds
  <2>4. skipped' \subseteq put'
    BY <2>1, <2>2 DEF TypeInv, TypeOK
  <2>5. attempt' = 0 /\ ppc' \in {"commit", "store"}
    BY <1>6, <2>2 DEF GatherEnds
  <2>6. UNCHANGED <<closed, cancelled, batch, svars, life, abandoned, evicted>>
    BY <1>6 DEF GatherEnds
  <2>7. QED
    BY <2>1, <2>3, <2>4, <2>5, <2>6 DEF TypeInv, TypeOK, AttemptBound, svars
<1>7. ASSUME NEW d \in Days, StoreDay(d) PROVE TypeInv'
  <2>1. Queue!TypeOK' /\ put' = put
    BY <1>7, QueueStep DEF StoreDay, TypeInv, TypeOK, qvars
  <2>2. rows' \subseteq Row /\ rows \subseteq rows'
    <3>1. RowsOf({r \in DOMAIN msgs : msgs[r] = d}) \subseteq Row
      BY RowsType DEF TypeInv
    <3>2. QED
      BY <1>7, <3>1 DEF StoreDay, TypeInv, TypeOK
  <2>3. QED
    BY <1>7, <2>1, <2>2 DEF StoreDay, TypeInv, TypeOK, AttemptBound, hvars
<1>8. CASE StoreFails \/ Retry \/ Abandon
  <2>1. Queue!TypeOK' /\ put' = put
    BY <1>8, QueueStep DEF StoreFails, Retry, Abandon, TypeInv, TypeOK, qvars
  <2>2. CASE StoreFails
    BY <2>1, <2>2 DEF StoreFails, TypeInv, TypeOK, AttemptBound, svars, hvars
  <2>3. CASE Retry
    BY <2>1, <2>3 DEF Retry, TypeInv, TypeOK, AttemptBound, svars, hvars
  <2>4. CASE Abandon
    BY <2>1, <2>4 DEF Abandon, TypeInv, TypeOK, AttemptBound, svars
  <2>5. QED
    BY <1>8, <2>2, <2>3, <2>4
<1>9. CASE Dispatch
  <2>1. Queue!TypeOK' /\ put' = put
    BY <1>9, QueueStep DEF Dispatch, TypeInv, TypeOK, qvars
  <2>2. fwd' \subseteq [rec : Nat, uuid : Nat]
    BY <1>9 DEF Dispatch, TypeInv, TypeOK, Queue!TypeOK, NewId
  <2>3. QED
    BY <1>9, <2>1, <2>2 DEF Dispatch, TypeInv, TypeOK, AttemptBound, hvars
<1>10. CASE Commit
  <2>1. Queue!TypeOK' /\ put \subseteq put'
    BY <1>10, QueueStep DEF Commit, TypeInv, TypeOK
  <2>2. QED
    BY <1>10, <2>1 DEF Commit, TypeInv, TypeOK, AttemptBound, svars, hvars
<1>11. CASE Save
  <2>1. Queue!TypeOK' /\ put \subseteq put'
    BY <1>11, QueueStep DEF Save, TypeInv, TypeOK
  <2>2. DOMAIN msgs' = {} /\ msgs' \in [DOMAIN msgs' -> Days]
    BY <1>11 DEF Save
  <2>3. QED
    BY <1>11, <2>1, <2>2 DEF Save, TypeInv, TypeOK, AttemptBound, svars, hvars
<1>12. CASE Kill
  <2>1. StartAgain
    BY <1>12 DEF Kill
  <2>2. Queue!TypeOK' /\ put \subseteq put'
    BY <2>1, QueueStep DEF StartAgain, Resume, TypeInv, TypeOK
  <2>3. DOMAIN msgs' = {} /\ msgs' \in [DOMAIN msgs' -> Days]
    BY <2>1 DEF StartAgain
  <2>4. /\ life < MaxLives /\ life' = life + 1
        /\ closed' = FALSE /\ cancelled' = FALSE
        /\ ppc' = "next" /\ batch' = {} /\ left' = {} /\ attempt' = 0
        /\ UNCHANGED <<rows, fwd, skipped, abandoned, evicted>>
    BY <2>1 DEF StartAgain, svars
  <2>5. attempt' \in 0..StoreRetries /\ life' \in 0..MaxLives
    BY <2>4 DEF TypeInv, TypeOK
  <2>6. AttemptBound'
    BY <2>4 DEF AttemptBound
  <2>7. /\ rows' \subseteq Row /\ fwd' \subseteq [rec : Nat, uuid : Nat]
        /\ skipped' \subseteq put' /\ abandoned' \subseteq put' /\ evicted' \subseteq put'
        /\ batch' \subseteq put' /\ DOMAIN msgs' \subseteq batch' /\ left' \subseteq Days
    BY <2>2, <2>3, <2>4 DEF TypeInv, TypeOK
  <2>8. QED
    BY <2>2, <2>3, <2>4, <2>5, <2>6, <2>7 DEF TypeInv, TypeOK
<1>13. CASE UNCHANGED vars
  <2>1. Queue!TypeOK' /\ put' = put
    BY <1>13, QueueStep DEF vars, TypeInv, TypeOK, qvars
  <2>2. QED
    BY <1>13, <2>1 DEF vars, TypeInv, TypeOK, AttemptBound, pvars, svars, hvars
<1>14. QED
  BY <1>1, <1>2, <1>3, <1>4, <1>5, <1>6, <1>7, <1>8, <1>9, <1>10, <1>11, <1>12,
     <1>13 DEF Next, Processor

\* Every variable keeps its type, and a batch is retried at most StoreRetries
\* times (processor.go:168), however often the process ends.
THEOREM TypeCorrect == Spec => []TypeOK
<1>1. TypeInv => TypeOK
  BY DEF TypeInv
<1>2. QED
  BY TypeInit, TypeNext, <1>1, PTL DEF Spec

-----------------------------------------------------------------------------
(* No record is lost unnoticed.                                             *)
(*                                                                          *)
(* NothingLost speaks of the saved mark alone.  It is kept because more is: *)
(* everything below the mark in memory and below the oldest record left is  *)
(* accounted for, and so is everything the reader has passed, but for the   *)
(* batch in hand, whose records become accounted for one by one until its   *)
(* Commit.                                                                  *)

Accounted(n) == n \in Stored \cup skipped \cup abandoned \cup evicted

\* Where the marks can be: no record was numbered beyond next.
MarksInOrder ==
  /\ saved <= mark /\ mark <= next /\ cursor <= next /\ low <= next
  /\ \A n \in put : n < next

PassedIsAccounted ==
  \A n \in put :
    /\ n < mark => Accounted(n)
    /\ n < low => Accounted(n)
    /\ n < cursor /\ n \notin batch => Accounted(n)

BatchIsKnown ==
  /\ ppc \in {"store", "retry", "dispatch"} => batch \ DOMAIN msgs \subseteq skipped
  /\ ppc = "store" => \A r \in DOMAIN msgs : msgs[r] \in left \/ r \in Stored
  /\ ppc = "dispatch" => DOMAIN msgs \subseteq Stored
  /\ ppc \in {"commit", "save"} => \A n \in batch : Accounted(n)

LossInv == TypeInv /\ MarksInOrder /\ PassedIsAccounted /\ BatchIsKnown

\* What is accounted for stays so while the store and the drops only grow.
LEMMA AccountedKept ==
  ASSUME rows \subseteq rows', skipped \subseteq skipped',
         abandoned \subseteq abandoned', evicted \subseteq evicted',
         NEW n, Accounted(n)
  PROVE  Accounted(n)'
  BY DEF Accounted, Stored

LEMMA LossInit == Init => LossInv
<1> SUFFICES ASSUME Init PROVE LossInv
  OBVIOUS
<1>1. TypeInv
  BY TypeInit
<1>2. /\ put = {} /\ next = 0 /\ low = 0 /\ cursor = 0 /\ mark = 0 /\ saved = 0
      /\ ppc = "next"
  BY DEF Init, Queue!Init
<1>3. QED
  BY <1>1, <1>2 DEF LossInv, MarksInOrder, PassedIsAccounted, BatchIsKnown

\* Steps that touch neither the queue nor the batch, and drop nothing.
LEMMA LossFrame ==
  ASSUME LossInv, UNCHANGED qvars, batch' = batch,
         rows \subseteq rows', skipped \subseteq skipped',
         abandoned \subseteq abandoned', evicted \subseteq evicted'
  PROVE  MarksInOrder' /\ PassedIsAccounted'
<1>1. UNCHANGED <<put, next, low, cursor, mark, saved>>
  BY DEF qvars
<1>2. MarksInOrder'
  BY <1>1 DEF LossInv, MarksInOrder
<1>3. PassedIsAccounted'
  BY <1>1, AccountedKept DEF LossInv, PassedIsAccounted
<1>4. QED
  BY <1>2, <1>3

LEMMA LossNext ==
  ASSUME LossInv, [Next]_vars
  PROVE  LossInv'
<1>0. TypeInv /\ TypeInv'
  BY TypeNext DEF LossInv
<1>q. Queue!TypeOK
  BY DEF LossInv, TypeInv, TypeOK
<1>1. CASE Publish
  <2>1. /\ put' = put \cup {next} /\ next' = next + 1
        /\ UNCHANGED <<low, cursor, mark, saved>>
    BY <1>1 DEF Publish, Queue!Put
  <2>2. UNCHANGED <<ppc, batch, msgs, left, rows, skipped, abandoned, evicted>>
    BY <1>1 DEF Publish, pvars, svars, hvars
  <2>3. MarksInOrder'
    BY <1>q, <2>1 DEF LossInv, MarksInOrder, Queue!TypeOK
  <2>4. PassedIsAccounted'
    <3> SUFFICES ASSUME NEW n \in put', n < mark \/ n < low \/ n < cursor,
                        n < mark \/ n < low \/ n \notin batch
                 PROVE  Accounted(n)'
      BY <2>1, <2>2 DEF PassedIsAccounted
    <3>1. n \in put
      BY <1>q, <2>1 DEF LossInv, MarksInOrder, Queue!TypeOK
    <3>2. Accounted(n)
      BY <3>1 DEF LossInv, PassedIsAccounted
    <3>3. QED
      BY <2>2, <3>2, AccountedKept
  <2>5. BatchIsKnown'
    BY <2>2, AccountedKept DEF LossInv, BatchIsKnown, Stored
  <2>6. QED
    BY <1>0, <2>3, <2>4, <2>5 DEF LossInv
<1>2. ASSUME NEW k \in put, EvictBelow(k) PROVE LossInv'
  <2>1. /\ k < next /\ low' = k /\ mark' = Queue!Larger(mark, k)
        /\ UNCHANGED <<put, next, cursor, saved>>
    BY <1>2 DEF EvictBelow, Queue!Evict
  <2>2. /\ evicted' = evicted \cup {r \in put : r < k /\ r >= mark}
        /\ UNCHANGED <<ppc, batch, msgs, left, rows, skipped, abandoned>>
    BY <1>2 DEF EvictBelow, pvars, svars
  <2>3. MarksInOrder'
    BY <1>q, <2>1 DEF LossInv, MarksInOrder, Queue!TypeOK, Queue!Larger
  <2>4. ASSUME NEW n \in put, n < k PROVE Accounted(n)'
    <3>1. CASE n < mark
      BY <2>2, <3>1, AccountedKept DEF LossInv, PassedIsAccounted
    <3>2. CASE n >= mark
      BY <2>2, <2>4, <3>2 DEF Accounted
    <3>3. QED
      BY <1>q, <3>1, <3>2 DEF Queue!TypeOK
  <2>5. PassedIsAccounted'
    BY <1>q, <2>1, <2>2, <2>4, AccountedKept
       DEF LossInv, PassedIsAccounted, Queue!TypeOK, Queue!Larger
  <2>6. BatchIsKnown'
    BY <2>2, AccountedKept DEF LossInv, BatchIsKnown, Stored
  <2>7. QED
    BY <1>0, <2>3, <2>5, <2>6 DEF LossInv
<1>3. CASE CloseJournal \/ Cancel \/ RunReturns \/ RunFails
  <2>1. /\ UNCHANGED <<qvars, batch, msgs, left, rows, skipped, abandoned, evicted>>
        /\ ppc' = ppc \/ ppc' \in {"done", "failed"}
    BY <1>3 DEF CloseJournal, Cancel, RunReturns, RunFails, pvars, svars, hvars
  <2>2. MarksInOrder' /\ PassedIsAccounted'
    BY <2>1, LossFrame
  <2>3. BatchIsKnown'
    BY <2>1, AccountedKept DEF LossInv, BatchIsKnown, Stored
  <2>4. QED
    BY <1>0, <2>2, <2>3 DEF LossInv
<1>4. CASE Take
  <2>1. PICK k \in put : Queue!Take(k) /\ batch' = batch \cup {k}
    BY <1>4 DEF Take
  <2>2. /\ k >= cursor /\ cursor' = k + 1
        /\ \A m \in put : m >= low /\ m >= cursor => m >= k
        /\ UNCHANGED <<put, next, low, mark, saved>>
    BY <2>1 DEF Queue!Take, Queue!Retained
  <2>3. ppc' = "gather" /\ UNCHANGED <<rows, skipped, abandoned, evicted>>
    BY <1>4 DEF Take, svars, hvars
  <2>4. MarksInOrder'
    BY <1>q, <2>2 DEF LossInv, MarksInOrder, Queue!TypeOK
  <2>5. ASSUME NEW n \in put, n < k + 1, n \notin batch' PROVE Accounted(n)
    <3>1. n < k /\ n \notin batch
      BY <1>q, <2>1, <2>5 DEF Queue!TypeOK
    <3>2. n < low \/ n < cursor
      BY <1>q, <2>2, <3>1 DEF Queue!TypeOK
    <3>3. QED
      BY <3>1, <3>2 DEF LossInv, PassedIsAccounted
  <2>6. PassedIsAccounted'
    BY <2>2, <2>3, <2>5, AccountedKept DEF LossInv, PassedIsAccounted
  <2>7. BatchIsKnown'
    BY <2>3 DEF BatchIsKnown
  <2>8. QED
    BY <1>0, <2>4, <2>6, <2>7 DEF LossInv
<1>5. CASE GatherEnds
  <2>1. PICK kept \in SUBSET batch :
          /\ msgs' \in [kept -> Days]
          /\ skipped' = skipped \cup (batch \ kept)
          /\ left' = {msgs'[r] : r \in kept}
          /\ ppc' = IF kept = {} THEN "commit" ELSE "store"
    BY <1>5 DEF GatherEnds
  <2>2. UNCHANGED <<qvars, batch, rows, abandoned, evicted>>
    BY <1>5 DEF GatherEnds, svars
  <2>3. MarksInOrder' /\ PassedIsAccounted'
    BY <2>1, <2>2, LossFrame
  <2>4. DOMAIN msgs' = kept /\ batch' \ kept \subseteq skipped'
    BY <2>1, <2>2
  <2>5. ppc' \in {"commit", "save"} => \A n \in batch' : Accounted(n)'
    BY <2>1, <2>4 DEF Accounted
  <2>6. BatchIsKnown'
    BY <2>1, <2>4, <2>5 DEF BatchIsKnown
  <2>7. QED
    BY <1>0, <2>3, <2>6 DEF LossInv
<1>6. ASSUME NEW d \in Days, StoreDay(d) PROVE LossInv'
  <2>1. /\ ppc = "store" /\ ppc' = IF left' = {} THEN "dispatch" ELSE "store"
        /\ left' = left \ {d}
        /\ rows' = rows \cup RowsOf({r \in DOMAIN msgs : msgs[r] = d})
        /\ UNCHANGED <<qvars, batch, msgs, skipped, abandoned, evicted>>
    BY <1>6 DEF StoreDay, hvars
  <2>2. MarksInOrder' /\ PassedIsAccounted'
    BY <2>1, LossFrame
  <2>3. \A r \in DOMAIN msgs : msgs[r] \in left' \/ r \in Stored'
    <3> SUFFICES ASSUME NEW r \in DOMAIN msgs, msgs[r] \notin left'
                 PROVE  r \in Stored'
      OBVIOUS
    <3>1. CASE msgs[r] \notin left
      BY <2>1, <3>1 DEF LossInv, BatchIsKnown, Stored
    <3>2. CASE msgs[r] = d
      <4>1. [rec |-> r, uuid |-> NewId, day |-> msgs[r]] \in rows'
        BY <2>1, <3>2 DEF RowsOf
      <4>2. QED
        BY <4>1 DEF Stored
    <3>3. QED
      BY <2>1, <3>1, <3>2
  <2>4. BatchIsKnown'
    BY <2>1, <2>3 DEF LossInv, BatchIsKnown
  <2>5. QED
    BY <1>0, <2>2, <2>4 DEF LossInv
<1>7. CASE StoreFails \/ Retry \/ Abandon
  <2>1. /\ UNCHANGED <<qvars, batch, msgs, rows, skipped, evicted>>
        /\ abandoned \subseteq abandoned'
    BY <1>7 DEF StoreFails, Retry, Abandon, svars, hvars
  <2>2. MarksInOrder' /\ PassedIsAccounted'
    BY <2>1, LossFrame
  <2>3. ASSUME StoreFails PROVE BatchIsKnown'
    BY <2>1, <2>3 DEF StoreFails, LossInv, BatchIsKnown
  <2>4. ASSUME Retry PROVE BatchIsKnown'
    BY <2>1, <2>4 DEF Retry, LossInv, BatchIsKnown
  <2>5. ASSUME Abandon PROVE BatchIsKnown'
    <3>1. /\ ppc = "retry" /\ ppc' = "commit"
          /\ abandoned' = abandoned \cup DOMAIN msgs
      BY <2>5 DEF Abandon
    <3>2. \A n \in batch' : Accounted(n)'
      BY <2>1, <3>1 DEF LossInv, BatchIsKnown, Accounted
    <3>3. QED
      BY <3>1, <3>2 DEF BatchIsKnown
  <2>6. QED
    BY <1>0, <1>7, <2>2, <2>3, <2>4, <2>5 DEF LossInv
<1>8. CASE Dispatch
  <2>1. /\ ppc = "dispatch" /\ ppc' = "commit"
        /\ UNCHANGED <<qvars, batch, msgs, rows, skipped, abandoned, evicted>>
    BY <1>8 DEF Dispatch, hvars
  <2>2. MarksInOrder' /\ PassedIsAccounted'
    BY <2>1, LossFrame
  <2>3. \A n \in batch' : Accounted(n)'
    BY <2>1 DEF LossInv, BatchIsKnown, Accounted, Stored
  <2>4. QED
    BY <1>0, <2>1, <2>2, <2>3 DEF LossInv, BatchIsKnown
<1>9. CASE Commit
  <2>1. PICK k \in batch : Queue!Commit(k)
    BY <1>9 DEF Commit
  <2>2. /\ k < cursor /\ mark' = Queue!Larger(mark, k + 1)
        /\ UNCHANGED <<put, next, low, cursor, saved>>
    BY <2>1 DEF Queue!Commit
  <2>3. /\ ppc = "commit" /\ ppc' = "save"
        /\ UNCHANGED <<batch, msgs, left, rows, skipped, abandoned, evicted>>
    BY <1>9 DEF Commit, svars, hvars
  <2>4. k \in Nat
    BY <1>0, <1>q DEF TypeInv, TypeOK, Queue!TypeOK
  <2>5. MarksInOrder'
    BY <1>q, <2>2, <2>4 DEF LossInv, MarksInOrder, Queue!TypeOK, Queue!Larger
  <2>6. \A n \in batch : Accounted(n)
    BY <2>3 DEF LossInv, BatchIsKnown
  <2>7. ASSUME NEW n \in put, n < mark' PROVE Accounted(n)
    <3>1. n < mark \/ n < cursor
      BY <1>q, <2>2, <2>4, <2>7 DEF Queue!TypeOK, Queue!Larger
    <3>2. QED
      BY <2>6, <3>1 DEF LossInv, PassedIsAccounted
  <2>8. PassedIsAccounted'
    BY <2>2, <2>3, <2>7, AccountedKept DEF LossInv, PassedIsAccounted
  <2>9. BatchIsKnown'
    BY <2>3, <2>6, AccountedKept DEF BatchIsKnown
  <2>10. QED
    BY <1>0, <2>5, <2>8, <2>9 DEF LossInv
<1>10. CASE Save
  <2>1. /\ saved' \in saved..mark
        /\ UNCHANGED <<put, next, low, cursor, mark>>
    BY <1>10 DEF Save, Queue!Save
  <2>2. /\ ppc = "save" /\ ppc' = "next" /\ batch' = {}
        /\ UNCHANGED <<rows, skipped, abandoned, evicted>>
    BY <1>10 DEF Save, svars, hvars
  <2>3. MarksInOrder'
    BY <1>q, <2>1 DEF LossInv, MarksInOrder, Queue!TypeOK
  <2>4. PassedIsAccounted'
    BY <2>1, <2>2, AccountedKept DEF LossInv, PassedIsAccounted, BatchIsKnown
  <2>5. QED
    BY <1>0, <2>2, <2>3, <2>4 DEF LossInv, BatchIsKnown
<1>11. CASE Kill
  <2>1. /\ cursor' = Queue!Larger(saved, low) /\ mark' = saved
        /\ next' \in {next, next + 1} /\ UNCHANGED <<put, low, saved>>
    BY <1>11 DEF Kill, StartAgain, Resume, Queue!Restart
  <2>2. ppc' = "next" /\ UNCHANGED <<rows, skipped, abandoned, evicted>>
    BY <1>11 DEF Kill, StartAgain, svars
  <2>3. MarksInOrder'
    BY <1>q, <2>1 DEF LossInv, MarksInOrder, Queue!TypeOK, Queue!Larger
  <2>4. \A n \in put : n < saved \/ n < low => Accounted(n)
    BY <1>q DEF LossInv, MarksInOrder, PassedIsAccounted, Queue!TypeOK
  <2>5. \A n : Accounted(n) => Accounted(n)'
    BY <2>2 DEF Accounted, Stored
  <2>6. PassedIsAccounted'
    BY <1>q, <2>1, <2>2, <2>4, <2>5
       DEF PassedIsAccounted, Queue!TypeOK, Queue!Larger
  <2>7. QED
    BY <1>0, <2>2, <2>3, <2>6 DEF LossInv, BatchIsKnown
<1>12. CASE UNCHANGED vars
  <2>1. UNCHANGED <<qvars, ppc, batch, msgs, left, rows, skipped, abandoned, evicted>>
    BY <1>12 DEF vars, pvars, svars, hvars
  <2>2. MarksInOrder' /\ PassedIsAccounted'
    BY <2>1, LossFrame
  <2>3. BatchIsKnown'
    BY <2>1, AccountedKept DEF LossInv, BatchIsKnown, Stored
  <2>4. QED
    BY <1>0, <2>2, <2>3 DEF LossInv
<1>13. QED
  BY <1>1, <1>2, <1>3, <1>4, <1>5, <1>6, <1>7, <1>8, <1>9, <1>10, <1>11, <1>12
     DEF Next, Processor

\* Whatever transactions fail and wherever the process ends, a record that a restart
\* would not read again is in the store, or was dropped by a decoder, a pipeline, the
\* end of the retries or the size cap (processor.go:117-161).
THEOREM NoSilentLoss == Spec => []NothingLost
<1>1. LossInv => NothingLost
  BY DEF LossInv, MarksInOrder, PassedIsAccounted, NothingLost, Accounted, TypeInv,
         TypeOK, Queue!TypeOK
<1>2. LossInv /\ [Next]_vars => LossInv'
  BY LossNext
<1>3. QED
  BY LossInit, <1>1, <1>2, PTL DEF Spec

-----------------------------------------------------------------------------
(* Outputs get stored messages only.                                        *)
(*                                                                          *)
(* While a batch is stored, a message whose day is not left has its row     *)
(* under the UUID of this life; when it is handed to the outputs, all have. *)

RowOf(r) == [rec |-> r, uuid |-> NewId, day |-> msgs[r]]

BatchHasRows ==
  /\ ppc = "store" => \A r \in DOMAIN msgs : msgs[r] \in left \/ RowOf(r) \in rows
  /\ ppc = "dispatch" => \A r \in DOMAIN msgs : RowOf(r) \in rows

\* A message that was forwarded has its row.
HasRow(f) == \E r \in rows : r.rec = f.rec /\ r.uuid = f.uuid

ForwardInv == TypeInv /\ BatchHasRows /\ ForwardedIsStored

LEMMA ForwardInit == Init => ForwardInv
<1> SUFFICES ASSUME Init PROVE ForwardInv
  OBVIOUS
<1>1. TypeInv
  BY TypeInit
<1>2. fwd = {} /\ ppc = "next"
  BY DEF Init
<1>3. QED
  BY <1>1, <1>2 DEF ForwardInv, BatchHasRows, ForwardedIsStored

\* Steps that neither store nor forward, and keep the batch or leave it.
LEMMA ForwardFrame ==
  ASSUME ForwardInv, rows' = rows, fwd' = fwd,
         \/ UNCHANGED <<ppc, msgs, left, life>>
         \/ ppc' \notin {"store", "dispatch"}
  PROVE  BatchHasRows' /\ ForwardedIsStored'
<1>1. ForwardedIsStored'
  BY DEF ForwardInv, ForwardedIsStored
<1>2. CASE UNCHANGED <<ppc, msgs, left, life>>
  BY <1>1, <1>2 DEF ForwardInv, BatchHasRows, RowOf, NewId
<1>3. CASE ppc' \notin {"store", "dispatch"}
  BY <1>1, <1>3 DEF BatchHasRows
<1>4. QED
  BY <1>2, <1>3

LEMMA ForwardNext ==
  ASSUME ForwardInv, [Next]_vars
  PROVE  ForwardInv'
<1>0. TypeInv /\ TypeInv'
  BY TypeNext DEF ForwardInv
<1> SUFFICES BatchHasRows' /\ ForwardedIsStored'
  BY <1>0 DEF ForwardInv
<1>1. CASE Publish \/ (\E n \in put : EvictBelow(n)) \/ CloseJournal \/ Cancel
  BY <1>1, ForwardFrame DEF Publish, EvictBelow, CloseJournal, Cancel, pvars, svars, hvars
<1>2. CASE Take \/ RunReturns \/ RunFails \/ StoreFails \/ Abandon \/ Commit \/ Save
  BY <1>2, ForwardFrame DEF Take, RunReturns, RunFails, StoreFails, Abandon, Commit,
                            Save, svars, hvars
<1>3. CASE GatherEnds
  <2>1. PICK kept \in SUBSET batch :
          /\ msgs' \in [kept -> Days]
          /\ left' = {msgs'[r] : r \in kept}
          /\ ppc' = IF kept = {} THEN "commit" ELSE "store"
    BY <1>3 DEF GatherEnds
  <2>2. UNCHANGED <<rows, fwd>>
    BY <1>3 DEF GatherEnds, svars
  <2>3. BatchHasRows'
    BY <2>1 DEF BatchHasRows
  <2>4. QED
    BY <2>2, <2>3 DEF ForwardInv, ForwardedIsStored
<1>4. ASSUME NEW d \in Days, StoreDay(d) PROVE BatchHasRows' /\ ForwardedIsStored'
  <2>1. /\ ppc = "store" /\ left' = left \ {d}
        /\ rows' = rows \cup RowsOf({r \in DOMAIN msgs : msgs[r] = d})
        /\ ppc' = IF left' = {} THEN "dispatch" ELSE "store"
        /\ UNCHANGED <<msgs, life, fwd>>
    BY <1>4 DEF StoreDay, hvars
  <2>2. \A r \in DOMAIN msgs : msgs[r] \in left' \/ RowOf(r)' \in rows'
    <3> SUFFICES ASSUME NEW r \in DOMAIN msgs, msgs[r] \notin left'
                 PROVE  RowOf(r) \in rows'
      BY <2>1 DEF RowOf, NewId
    <3>1. CASE msgs[r] \notin left
      BY <2>1, <3>1 DEF ForwardInv, BatchHasRows
    <3>2. CASE msgs[r] = d
      BY <2>1, <3>2 DEF RowsOf, RowOf
    <3>3. QED
      BY <2>1, <3>1, <3>2
  <2>3. BatchHasRows'
    BY <2>1, <2>2 DEF BatchHasRows
  <2>4. ForwardedIsStored'
    BY <2>1 DEF ForwardInv, ForwardedIsStored
  <2>5. QED
    BY <2>3, <2>4
<1>5. CASE Retry
  <2>1. /\ ppc' = "store" /\ left' = {msgs[r] : r \in DOMAIN msgs}
        /\ UNCHANGED <<msgs, rows, fwd>>
    BY <1>5 DEF Retry, svars, hvars
  <2>2. BatchHasRows'
    BY <2>1 DEF BatchHasRows
  <2>3. QED
    BY <2>1, <2>2 DEF ForwardInv, ForwardedIsStored
<1>6. CASE Dispatch
  <2>1. /\ ppc = "dispatch" /\ ppc' = "commit"
        /\ fwd' = fwd \cup {[rec |-> r, uuid |-> NewId] : r \in DOMAIN msgs}
        /\ UNCHANGED <<rows>>
    BY <1>6 DEF Dispatch, hvars
  <2>2. ASSUME NEW r \in DOMAIN msgs PROVE HasRow([rec |-> r, uuid |-> NewId])
    BY <2>1 DEF HasRow, ForwardInv, BatchHasRows, RowOf
  <2>3. ForwardedIsStored'
    BY <2>1, <2>2 DEF HasRow, ForwardInv, ForwardedIsStored
  <2>4. QED
    BY <2>1, <2>3 DEF BatchHasRows
<1>7. CASE Kill \/ UNCHANGED vars
  BY <1>7, ForwardFrame DEF Kill, StartAgain, vars, pvars, svars, hvars
<1>8. QED
  BY <1>1, <1>2, <1>3, <1>4, <1>5, <1>6, <1>7 DEF Next, Processor

\* What an output was handed is in the store, under the same id, whatever days were
\* stored by which attempt and wherever the process ended (processor.go:149-153).
THEOREM OutputsGetStored == Spec => []ForwardedIsStored
<1>1. ForwardInv => ForwardedIsStored
  BY DEF ForwardInv
<1>2. ForwardInv /\ [Next]_vars => ForwardInv'
  BY ForwardNext
<1>3. QED
  BY ForwardInit, <1>1, <1>2, PTL DEF Spec

-----------------------------------------------------------------------------
(* A record is in the store once for every life of the process.             *)
(*                                                                          *)
(* Rows of one record and one UUID would differ in the day only.  They do   *)
(* not: the reader never returns to a record in the same life, so what this *)
(* life has stored lies below the cursor, and what of it is in the batch in *)
(* hand was stored under the day the batch still has for it.                *)

OneRowPerId ==
  /\ \A r \in rows : r.uuid <= life
  /\ \A r, s \in rows : r.rec = s.rec /\ r.uuid = s.uuid => r.day = s.day

BatchWasRead == \A n \in batch : n < cursor

ThisLife == {r \in rows : r.uuid = life}

StoredOnce ==
  \A r \in ThisLife :
    /\ r.rec < cursor
    /\ r.rec \in batch =>
         /\ ppc \notin {"next", "gather"}
         /\ r.rec \in DOMAIN msgs /\ r.day = msgs[r.rec]

OnceInv == TypeInv /\ OneRowPerId /\ BatchWasRead /\ StoredOnce

LEMMA OnceInit == Init => OnceInv
<1> SUFFICES ASSUME Init PROVE OnceInv
  OBVIOUS
<1>1. TypeInv
  BY TypeInit
<1>2. rows = {} /\ batch = {}
  BY DEF Init
<1>3. QED
  BY <1>1, <1>2 DEF OnceInv, OneRowPerId, BatchWasRead, StoredOnce, ThisLife

\* Steps that store nothing and take nothing: the batch stays as it is with what became
\* of it, or is given up.
LEMMA OnceFrame ==
  ASSUME OnceInv, rows' = rows, cursor' = cursor, life' = life,
         \/ UNCHANGED <<ppc, batch, msgs>>
         \/ UNCHANGED <<batch, msgs>> /\ ppc' \notin {"next", "gather"}
         \/ batch' = {}
  PROVE  OneRowPerId' /\ BatchWasRead' /\ StoredOnce'
  BY DEF OnceInv, OneRowPerId, BatchWasRead, StoredOnce, ThisLife

LEMMA OnceNext ==
  ASSUME OnceInv, [Next]_vars
  PROVE  OnceInv'
<1>0. TypeInv /\ TypeInv'
  BY TypeNext DEF OnceInv
<1>q. Queue!TypeOK /\ rows \subseteq Row /\ life \in Nat /\ batch \subseteq put
  BY <1>0, IngestAssumption DEF TypeInv, TypeOK
<1> SUFFICES OneRowPerId' /\ BatchWasRead' /\ StoredOnce'
  BY <1>0 DEF OnceInv
<1>1. CASE Publish \/ (\E n \in put : EvictBelow(n)) \/ CloseJournal \/ Cancel
  BY <1>1, OnceFrame DEF Publish, EvictBelow, CloseJournal, Cancel, pvars, svars, hvars,
                         qvars, Queue!Put, Queue!Evict
<1>2. CASE RunReturns \/ RunFails \/ StoreFails \/ Retry \/ Abandon \/ Dispatch
  BY <1>2, OnceFrame DEF RunReturns, RunFails, StoreFails, Retry, Abandon, Dispatch,
                         svars, hvars, qvars
<1>3. CASE Commit \/ Save
  BY <1>3, OnceFrame DEF Commit, Save, svars, hvars, Queue!Commit, Queue!Save
<1>4. CASE Take
  <2>1. PICK n \in put : Queue!Take(n) /\ batch' = batch \cup {n}
    BY <1>4 DEF Take
  <2>2. n \in Nat /\ cursor \in Nat /\ n >= cursor /\ cursor' = n + 1
    BY <1>q, <2>1 DEF Queue!Take, Queue!TypeOK
  <2>3. /\ ppc \in {"next", "gather"} /\ ppc' = "gather"
        /\ UNCHANGED <<msgs, rows, life>>
    BY <1>4 DEF Take, svars, hvars
  <2>4. \A m \in put : m \in Nat
    BY <1>q DEF Queue!TypeOK
  <2>5. BatchWasRead'
    BY <1>q, <2>1, <2>2, <2>4 DEF OnceInv, BatchWasRead
  <2>6. StoredOnce'
    <3> SUFFICES ASSUME NEW r \in ThisLife
                 PROVE  r.rec < cursor' /\ r.rec \notin batch'
      BY <2>3 DEF StoredOnce, ThisLife
    <3>1. r.rec \in Nat /\ r.rec < cursor /\ r.rec \notin batch
      BY <1>q, <2>3 DEF OnceInv, StoredOnce, ThisLife, Row
    <3>2. QED
      BY <2>1, <2>2, <3>1
  <2>7. QED
    BY <2>3, <2>5, <2>6 DEF OnceInv, OneRowPerId
<1>5. CASE GatherEnds
  <2>1. /\ ppc = "gather" /\ ppc' \in {"commit", "store"}
        /\ UNCHANGED <<batch, rows, life, cursor>>
    BY <1>5 DEF GatherEnds, svars, qvars
  <2>2. QED
    BY <2>1 DEF OnceInv, OneRowPerId, BatchWasRead, StoredOnce, ThisLife
<1>6. ASSUME NEW d \in Days, StoreDay(d)
      PROVE  OneRowPerId' /\ BatchWasRead' /\ StoredOnce'
  <2> DEFINE new == RowsOf({r \in DOMAIN msgs : msgs[r] = d})
  <2>1. /\ ppc = "store" /\ ppc' \in {"store", "dispatch"} /\ rows' = rows \cup new
        /\ UNCHANGED <<batch, msgs, life, cursor>>
    BY <1>6 DEF StoreDay, hvars, qvars
  <2>2. \A r \in new : /\ r.rec \in DOMAIN msgs /\ r.rec \in batch
                       /\ r.uuid = life /\ r.day = msgs[r.rec]
    BY <1>0 DEF RowsOf, NewId, TypeInv, TypeOK
  <2>3. BatchWasRead'
    BY <2>1 DEF OnceInv, BatchWasRead
  <2>4. ASSUME NEW r \in ThisLife'
        PROVE  /\ r.rec < cursor
               /\ r.rec \in batch => r.rec \in DOMAIN msgs /\ r.day = msgs[r.rec]
    BY <2>1, <2>2 DEF OnceInv, StoredOnce, BatchWasRead, ThisLife
  <2>5. StoredOnce'
    BY <2>1, <2>4 DEF StoredOnce
  <2>6. ASSUME NEW r \in rows', NEW s \in rows', r.rec = s.rec, r.uuid = s.uuid
        PROVE  r.day = s.day
    <3>1. CASE r \in rows /\ s \in rows
      BY <2>6, <3>1 DEF OnceInv, OneRowPerId
    <3>2. CASE r \in new \/ s \in new
      <4>1. r \in ThisLife' /\ s \in ThisLife' /\ r.rec \in batch
        BY <2>1, <2>2, <2>6, <3>2 DEF ThisLife
      <4>2. QED
        BY <2>4, <2>6, <4>1
    <3>3. QED
      BY <2>1, <3>1, <3>2
  <2>7. \A r \in rows' : r.uuid <= life'
    BY <1>q, <2>1, <2>2 DEF OnceInv, OneRowPerId
  <2>8. QED
    BY <2>3, <2>5, <2>6, <2>7 DEF OneRowPerId
<1>7. CASE Kill
  <2>1. StartAgain /\ rows' = rows
    BY <1>7 DEF Kill, StartAgain, svars
  <2>2. life' = life + 1 /\ batch' = {}
    BY <2>1 DEF StartAgain
  <2>3. \A r \in rows' : r.uuid \in Nat /\ r.uuid <= life
    BY <1>q, <2>1 DEF OnceInv, OneRowPerId, Row
  <2>4. ThisLife' = {}
    BY <1>q, <2>2, <2>3 DEF ThisLife
  <2>5. OneRowPerId'
    BY <1>q, <2>1, <2>2, <2>3 DEF OnceInv, OneRowPerId
  <2>6. QED
    BY <2>2, <2>4, <2>5 DEF BatchWasRead, StoredOnce
<1>8. CASE UNCHANGED vars
  BY <1>8, OnceFrame DEF vars, pvars, svars, hvars, qvars
<1>9. QED
  BY <1>1, <1>2, <1>3, <1>4, <1>5, <1>6, <1>7, <1>8 DEF Next, Processor

\* A record's rows are told apart by their UUIDs, one for each life so far.
LEMMA RowsByLife ==
  ASSUME OnceInv, NEW n
  PROVE  Cardinality({r \in rows : r.rec = n}) <= life + 1
<1> DEFINE S == {r \in rows : r.rec = n}
           f == [r \in S |-> r.uuid]
<1>1. rows \subseteq Row /\ life \in Nat
  BY IngestAssumption DEF OnceInv, TypeInv, TypeOK
<1>2. f \in [S -> 0..life]
  BY <1>1 DEF OnceInv, OneRowPerId, Row
<1>3. ASSUME NEW r \in S, NEW s \in S, f[r] = f[s] PROVE r = s
  <2>1. r.rec = s.rec /\ r.uuid = s.uuid /\ r.day = s.day
    BY <1>3 DEF OnceInv, OneRowPerId
  <2>2. QED
    BY <1>1, <2>1 DEF Row
<1>4. f \in Injection(S, 0..life)
  BY <1>2, <1>3 DEF Injection, IsInjective
<1>5. IsFiniteSet(0..life) /\ Cardinality(0..life) = life + 1
  BY <1>1, FS_Interval
<1>6. QED
  BY <1>4, <1>5, FS_Injection

\* Neither retries of a batch, nor days stored before another day failed, nor reading a
\* record again after a restart put a record into the store more often than the
\* process was started (store.go:109-150, processor.go:131).
THEOREM NoDuplicates == Spec => []OncePerLife
<1>1. OnceInv => OncePerLife
  BY RowsByLife DEF OncePerLife
<1>2. OnceInv /\ [Next]_vars => OnceInv'
  BY OnceNext
<1>3. QED
  BY OnceInit, <1>1, <1>2, PTL DEF Spec

-----------------------------------------------------------------------------
(* What was committed to the disk is not stored again.                      *)

\* Records the reader has still to give, and those of the batch in hand until its
\* Commit, are not below the mark, unless the size cap took them first.
ToDo == {n \in put : n >= cursor \/ (n \in batch /\ ppc # "save")}

AheadOfMark == \A n \in ToDo : n >= mark \/ n \in evicted

AgainInv == LossInv /\ AheadOfMark

LEMMA AgainNext ==
  ASSUME AgainInv, [Next]_vars
  PROVE  AgainInv'
<1>0. LossInv /\ LossInv' /\ TypeInv
  BY LossNext DEF AgainInv, LossInv
<1>q. Queue!TypeOK /\ batch \subseteq put
  BY <1>0 DEF TypeInv, TypeOK
<1> SUFFICES AheadOfMark'
  BY <1>0 DEF AgainInv
<1>1. CASE Publish
  <2>1. /\ put' = put \cup {next} /\ UNCHANGED <<cursor, mark, ppc, batch, evicted>>
    BY <1>1 DEF Publish, Queue!Put, pvars, hvars
  <2>2. next >= mark
    BY <1>0, <1>q DEF LossInv, MarksInOrder, Queue!TypeOK
  <2>3. QED
    BY <2>1, <2>2 DEF AgainInv, AheadOfMark, ToDo
<1>2. ASSUME NEW k \in put, EvictBelow(k) PROVE AheadOfMark'
  <2>1. /\ mark' = Queue!Larger(mark, k) /\ UNCHANGED <<put, cursor, ppc, batch>>
        /\ evicted' = evicted \cup {r \in put : r < k /\ r >= mark}
    BY <1>2 DEF EvictBelow, Queue!Evict, pvars
  <2>2. ASSUME NEW n \in ToDo, n \notin evicted' PROVE n >= mark'
    BY <1>q, <2>1, <2>2 DEF AgainInv, AheadOfMark, ToDo, Queue!TypeOK, Queue!Larger
  <2>3. QED
    BY <2>1, <2>2 DEF AheadOfMark, ToDo
<1>3. CASE CloseJournal \/ Cancel \/ RunReturns \/ RunFails
  BY <1>3 DEF CloseJournal, Cancel, RunReturns, RunFails, AgainInv, AheadOfMark, ToDo,
              qvars, pvars, hvars
<1>4. CASE Take
  <2>1. PICK k \in put : Queue!Take(k) /\ batch' = batch \cup {k}
    BY <1>4 DEF Take
  <2>2. /\ k >= cursor /\ cursor' = k + 1 /\ UNCHANGED <<put, mark, evicted>>
        /\ ppc # "save" /\ ppc' = "gather"
    BY <1>4, <2>1 DEF Take, Queue!Take, hvars
  <2>3. ASSUME NEW n \in ToDo' PROVE n \in ToDo
    <3>1. n \in Nat /\ k \in Nat /\ cursor \in Nat
      BY <1>q, <2>1, <2>2 DEF ToDo, Queue!TypeOK
    <3>2. CASE n = k
      BY <2>1, <2>2, <3>2 DEF ToDo
    <3>3. CASE n >= k + 1 \/ n \in batch
      BY <2>2, <3>1, <3>3 DEF ToDo
    <3>4. QED
      BY <2>1, <2>2, <3>2, <3>3 DEF ToDo
  <2>4. QED
    BY <2>2, <2>3 DEF AgainInv, AheadOfMark
<1>5. CASE GatherEnds
  BY <1>5 DEF GatherEnds, AgainInv, AheadOfMark, ToDo, qvars
<1>6. CASE (\E d \in Days : StoreDay(d)) \/ StoreFails \/ Retry \/ Abandon \/ Dispatch
  BY <1>6 DEF StoreDay, StoreFails, Retry, Abandon, Dispatch, AgainInv, AheadOfMark,
              ToDo, qvars, hvars
<1>7. CASE Commit
  <2>1. PICK k \in batch : Queue!Commit(k)
    BY <1>7 DEF Commit
  <2>2. /\ k < cursor /\ mark' = Queue!Larger(mark, k + 1)
        /\ UNCHANGED <<put, cursor, batch, evicted>>
        /\ ppc # "save" /\ ppc' = "save"
    BY <1>7, <2>1 DEF Commit, Queue!Commit, hvars
  <2>3. ASSUME NEW n \in ToDo', n \notin evicted PROVE n >= mark'
    BY <1>q, <2>2, <2>3 DEF AgainInv, AheadOfMark, ToDo, Queue!TypeOK, Queue!Larger
  <2>4. QED
    BY <2>2, <2>3 DEF AheadOfMark
<1>8. CASE Save
  BY <1>8 DEF Save, Queue!Save, AgainInv, AheadOfMark, ToDo, hvars
<1>9. CASE Kill
  <2>1. /\ cursor' = Queue!Larger(saved, low) /\ mark' = saved /\ put' = put
        /\ batch' = {}
    BY <1>9 DEF Kill, StartAgain, Resume, Queue!Restart
  <2>2. QED
    BY <1>q, <2>1 DEF AheadOfMark, ToDo, Queue!TypeOK, Queue!Larger
<1>10. CASE UNCHANGED vars
  BY <1>10 DEF vars, AgainInv, AheadOfMark, ToDo, qvars, pvars, hvars
<1>11. QED
  BY <1>1, <1>2, <1>3, <1>4, <1>5, <1>6, <1>7, <1>8, <1>9, <1>10 DEF Next, Processor

\* Only StoreDay adds rows, those of a batch that is still to be committed.
LEMMA RowsAreToDo ==
  ASSUME AgainInv, [Next]_vars, NEW r \in rows' \ rows
  PROVE  r.rec \in evicted \/ r.rec >= saved
<1>0. TypeInv /\ Queue!TypeOK
  BY DEF AgainInv, LossInv, TypeInv, TypeOK
<1>1. CASE \E d \in Days : StoreDay(d)
  <2>1. PICK d \in Days : StoreDay(d)
    BY <1>1
  <2>2. r \in RowsOf({m \in DOMAIN msgs : msgs[m] = d}) /\ ppc = "store"
    BY <2>1 DEF StoreDay
  <2>3. r.rec \in put /\ r.rec \in ToDo
    BY <1>0, <2>2 DEF RowsOf, ToDo, TypeInv, TypeOK
  <2>4. r.rec \in evicted \/ r.rec >= mark
    BY <2>3 DEF AgainInv, AheadOfMark
  <2>5. saved <= mark /\ saved \in Nat /\ mark \in Nat /\ r.rec \in Nat
    BY <1>0, <2>3 DEF AgainInv, LossInv, MarksInOrder, Queue!TypeOK
  <2>6. QED
    BY <2>4, <2>5
<1>2. CASE ~\E d \in Days : StoreDay(d)
  <2>1. rows' = rows
    BY <1>2 DEF Next, vars, svars, Processor, Publish, EvictBelow, CloseJournal, Cancel, Take,
                RunReturns, RunFails, GatherEnds, StoreFails, Retry, Abandon, Dispatch,
                Commit, Save, Kill, StartAgain
  <2>2. QED
    BY <2>1
<1>3. QED
  BY <1>1, <1>2

\* A record whose commit has reached the disk and that is in the store gets no second
\* row, by this process or by one started later (journal.go:333-334, processor.go:131),
\* unless the size cap had removed it while the reader still held its file.
THEOREM CommittedOnce == Spec => NotStoredAgain
<1>1. Init => AgainInv
  BY LossInit DEF AgainInv, AheadOfMark, ToDo, Init, Queue!Init
<1>2. AgainInv /\ [Next]_vars => AgainInv'
  BY AgainNext
<1>3. AgainInv /\ [Next]_vars =>
        [\A r \in rows' \ rows : r.rec \in Stored \ evicted => r.rec >= saved]_<<rows, saved>>
  BY RowsAreToDo
<1>4. QED
  BY <1>1, <1>2, <1>3, PTL DEF Spec, NotStoredAgain

-----------------------------------------------------------------------------
(* A processor that returns without an error leaves nothing to process.     *)
(*                                                                          *)
(* What the reader has passed is below the mark, or in the batch in hand,   *)
(* or was evicted before a restart; and the oldest record left, which the   *)
(* reader has passed when Run returns, puts the mark above all evicted ones.*)

PassedIsCommitted ==
  /\ \A n \in put : n < cursor => n < mark \/ n < low \/ n \in batch
  /\ ppc = "save" => \A n \in batch : n < mark
  /\ ppc \in {"next", "done", "failed"} => batch = {}
  /\ low = 0 \/ low \in put

RanDry ==
  /\ cancelled => closed
  /\ ppc = "done" => closed /\ cursor >= next

DrainInv == LossInv /\ PassedIsCommitted /\ RanDry

LEMMA DrainInit == Init => DrainInv
  BY LossInit DEF DrainInv, PassedIsCommitted, RanDry, Init, Queue!Init

LEMMA RanDryNext ==
  ASSUME DrainInv, [Next]_vars
  PROVE  RanDry'
<1> USE DEF DrainInv, RanDry
<1>1. CASE Publish \/ (\E n \in put : EvictBelow(n)) \/ CloseJournal \/ Cancel
  BY <1>1 DEF Publish, EvictBelow, CloseJournal, Cancel, qvars, pvars
<1>2. CASE RunReturns
  BY <1>2 DEF RunReturns, qvars
<1>3. CASE Take \/ RunFails \/ GatherEnds \/ Retry \/ Abandon \/ Dispatch \/ Commit \/ Save
  BY <1>3 DEF Take, RunFails, GatherEnds, Retry, Abandon, Dispatch, Commit, Save
<1>4. CASE (\E d \in Days : StoreDay(d)) \/ StoreFails
  BY <1>4 DEF StoreDay, StoreFails
<1>5. CASE Kill
  BY <1>5 DEF Kill, StartAgain
<1>6. CASE UNCHANGED vars
  BY <1>6 DEF vars, qvars, pvars
<1>7. QED
  BY <1>1, <1>2, <1>3, <1>4, <1>5, <1>6 DEF Next, Processor

LEMMA DrainNext ==
  ASSUME DrainInv, [Next]_vars
  PROVE  DrainInv'
<1>0. LossInv /\ LossInv' /\ TypeInv
  BY LossNext DEF DrainInv, LossInv
<1>q. Queue!TypeOK /\ batch \subseteq put
  BY <1>0 DEF TypeInv, TypeOK
<1> SUFFICES PassedIsCommitted'
  BY <1>0, RanDryNext DEF DrainInv
<1>1. CASE Publish
  <2>1. /\ put' = put \cup {next} /\ UNCHANGED <<low, cursor, mark, ppc, batch>>
    BY <1>1 DEF Publish, Queue!Put, pvars
  <2>2. cursor <= next
    BY <1>0 DEF LossInv, MarksInOrder
  <2>3. QED
    BY <1>q, <2>1, <2>2 DEF DrainInv, PassedIsCommitted, Queue!TypeOK
<1>2. ASSUME NEW k \in put, EvictBelow(k) PROVE PassedIsCommitted'
  <2>1. /\ low < k /\ low' = k /\ mark' = Queue!Larger(mark, k)
        /\ UNCHANGED <<put, cursor, ppc, batch>>
    BY <1>2 DEF EvictBelow, Queue!Evict, pvars
  <2>2. mark' >= mark
    BY <1>q, <2>1 DEF Queue!TypeOK, Queue!Larger
  <2>3. \A n \in put : n < cursor => n < mark' \/ n < low' \/ n \in batch
    BY <1>q, <2>1, <2>2 DEF DrainInv, PassedIsCommitted, Queue!TypeOK, Queue!Larger
  <2>4. ppc = "save" => \A n \in batch : n < mark'
    BY <1>q, <2>1, <2>2 DEF DrainInv, PassedIsCommitted, Queue!TypeOK, Queue!Larger
  <2>5. QED
    BY <2>1, <2>3, <2>4 DEF DrainInv, PassedIsCommitted
<1>3. CASE CloseJournal \/ Cancel \/ RunReturns \/ RunFails
  BY <1>3 DEF CloseJournal, Cancel, RunReturns, RunFails, DrainInv, PassedIsCommitted,
              qvars, pvars
<1>4. CASE Take
  <2>1. PICK k \in put : Queue!Take(k) /\ batch' = batch \cup {k}
    BY <1>4 DEF Take
  <2>2. /\ k >= cursor /\ cursor' = k + 1
        /\ \A m \in put : m >= low /\ m >= cursor => m >= k
        /\ ppc' = "gather" /\ UNCHANGED <<put, low, mark>>
    BY <1>4, <2>1 DEF Take, Queue!Take, Queue!Retained
  <2>3. ASSUME NEW n \in put, n < k + 1, n \notin batch' PROVE n < mark \/ n < low
    <3>1. n < k /\ n \notin batch
      BY <1>q, <2>1, <2>3 DEF Queue!TypeOK
    <3>2. n < low \/ n < cursor
      BY <1>q, <2>2, <3>1 DEF Queue!TypeOK
    <3>3. QED
      BY <3>1, <3>2 DEF DrainInv, PassedIsCommitted
  <2>4. QED
    BY <2>2, <2>3 DEF DrainInv, PassedIsCommitted
<1>5. CASE GatherEnds
  BY <1>5 DEF GatherEnds, DrainInv, PassedIsCommitted, qvars
<1>6. CASE (\E d \in Days : StoreDay(d)) \/ StoreFails \/ Retry \/ Abandon \/ Dispatch
  BY <1>6 DEF StoreDay, StoreFails, Retry, Abandon, Dispatch, DrainInv,
              PassedIsCommitted, qvars
<1>7. CASE Commit
  <2>1. PICK k \in batch : MaxSeq(k) /\ Queue!Commit(k)
    BY <1>7 DEF Commit
  <2>2. /\ mark' = Queue!Larger(mark, k + 1) /\ \A n \in batch : n <= k
        /\ ppc' = "save" /\ UNCHANGED <<put, low, cursor, batch>>
    BY <1>7, <2>1 DEF Commit, MaxSeq, Queue!Commit
  <2>3. /\ k \in Nat /\ mark \in Nat /\ \A n \in put : n \in Nat
        /\ mark' \in Nat /\ mark' >= mark /\ mark' >= k + 1
    BY <1>q, <2>2 DEF Queue!TypeOK, Queue!Larger
  <2>4. ASSUME NEW n \in batch PROVE n < mark'
    <3>1. n \in Nat /\ n <= k
      BY <1>q, <2>2, <2>3
    <3>2. QED
      BY <2>3, <3>1
  <2>5. ASSUME NEW n \in put, n < cursor PROVE n < mark' \/ n < low \/ n \in batch
    <3>1. n \in Nat /\ (n < mark \/ n < low \/ n \in batch)
      BY <2>3, <2>5 DEF DrainInv, PassedIsCommitted
    <3>2. QED
      BY <2>3, <3>1
  <2>6. QED
    BY <2>2, <2>4, <2>5 DEF DrainInv, PassedIsCommitted
<1>8. CASE Save
  BY <1>8 DEF Save, Queue!Save, DrainInv, PassedIsCommitted
<1>9. CASE Kill
  <2>1. /\ cursor' = Queue!Larger(saved, low) /\ mark' = saved
        /\ batch' = {} /\ ppc' = "next" /\ UNCHANGED <<put, low>>
    BY <1>9 DEF Kill, StartAgain, Resume, Queue!Restart
  <2>2. ASSUME NEW n \in put, n < cursor' PROVE n < saved \/ n < low
    <3>1. n \in Nat /\ saved \in Nat /\ low \in Nat
      BY <1>q DEF Queue!TypeOK
    <3>2. QED
      BY <2>1, <2>2, <3>1 DEF Queue!Larger
  <2>3. QED
    BY <2>1, <2>2 DEF DrainInv, PassedIsCommitted
<1>10. CASE UNCHANGED vars
  BY <1>10 DEF vars, DrainInv, PassedIsCommitted, qvars, pvars
<1>11. QED
  BY <1>1, <1>2, <1>3, <1>4, <1>5, <1>6, <1>7, <1>8, <1>9, <1>10 DEF Next, Processor

\* Nothing that a restart would process is left when Run has returned nil.
LEMMA DoneIsDrained ==
  ASSUME DrainInv, ppc = "done"
  PROVE  \A n \in put : n < mark
<1>1. Queue!TypeOK /\ \A n \in put : n \in Nat /\ n < cursor
  BY DEF DrainInv, RanDry, LossInv, MarksInOrder, TypeInv, TypeOK, Queue!TypeOK
<1>2. \A n \in put : n < mark \/ n < low
  BY <1>1 DEF DrainInv, PassedIsCommitted
<1>3. low = 0 \/ low < mark
  BY <1>1, <1>2 DEF DrainInv, PassedIsCommitted, Queue!TypeOK
<1>4. QED
  BY <1>1, <1>2, <1>3 DEF Queue!TypeOK

LEMMA DrainAlways == Spec => []DrainInv
<1>1. DrainInv /\ [Next]_vars => DrainInv'
  BY DrainNext
<1>2. QED
  BY DrainInit, <1>1, PTL DEF Spec

=============================================================================
