----------------------------- MODULE IngestQueue -----------------------------
(***************************************************************************)
(* What the ingest journal (internal/journal) promises its two users, the  *)
(* inputs and the processor: a bounded queue, delivered in order and at     *)
(* least once.  Nothing here says how it is stored: no segments, no files,  *)
(* no mutex.  Module Journal is the code, and implements this module.       *)
(*                                                                          *)
(*   put    the sequence numbers some record was ever stored under          *)
(*   next   the next sequence number to assign                              *)
(*   low    records below it have been evicted to keep the size bounded     *)
(*   cursor the next sequence number the consumer will be given             *)
(*   mark   everything below it is processed (Journal.readNext)             *)
(*   saved  the mark a restart would resume from (committed.offset)         *)
(***************************************************************************)
EXTENDS Naturals

CONSTANT MaxNext  \* bound on the sequence numbers that are assigned

VARIABLES put, next, low, cursor, mark, saved

vars == <<put, next, low, cursor, mark, saved>>

TypeOK ==
  /\ put \subseteq Nat
  /\ next \in Nat /\ low \in Nat /\ cursor \in Nat
  /\ mark \in Nat /\ saved \in Nat

Larger(a, b) == IF a > b THEN a ELSE b

\* The records the queue still owes the consumer, in this life or the next.
Retained == {n \in put : n >= low}

Init ==
  /\ put = {} /\ next = 0 /\ low = 0
  /\ cursor = 0 /\ mark = 0 /\ saved = 0

\* An input's record is stored under the next number.
Put ==
  /\ next < MaxNext
  /\ put' = put \cup {next}
  /\ next' = next + 1
  /\ UNCHANGED <<low, cursor, mark, saved>>

\* The oldest records are dropped, never the newest one; a mark left behind
\* moves up to the oldest record that remains.
Evict(n) ==
  /\ low < n /\ n < next
  /\ low' = n
  /\ mark' = Larger(mark, n)
  /\ UNCHANGED <<put, next, cursor, saved>>

\* The consumer is given record n: no record it is still owed is passed over.
\* A record evicted under the consumer may still be given.
Take(n) ==
  /\ n \in put /\ n >= cursor
  /\ \A m \in Retained : m >= cursor => m >= n
  /\ cursor' = n + 1
  /\ UNCHANGED <<put, next, low, mark, saved>>

\* The consumer is done with record n and every record before it.
Commit(n) ==
  /\ n < cursor
  /\ mark' = Larger(mark, n + 1)
  /\ UNCHANGED <<put, next, low, cursor, saved>>

\* A mark reaches the disk; it may be one the eviction has since moved past.
Save ==
  /\ \E m \in saved..mark : saved' = m
  /\ UNCHANGED <<put, next, low, cursor, mark>>

\* The process dies and starts again: the consumer resumes at the saved mark,
\* or at the oldest record that remains.  A number may be left unused.
Restart ==
  /\ cursor' = Larger(saved, low)
  /\ mark' = saved
  /\ next' \in {next, next + 1} /\ next' <= MaxNext
  /\ UNCHANGED <<put, low, saved>>

Next ==
  \/ Put
  \/ \E n \in put : Evict(n)
  \/ \E n \in put : Take(n)
  \/ \E n \in put : Commit(n)
  \/ Save
  \/ Restart

Spec == Init /\ [][Next]_vars

=============================================================================
