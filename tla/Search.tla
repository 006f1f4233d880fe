------------------------------- MODULE Search -------------------------------
(***************************************************************************)
(* The reading side of the log store (internal/logstore/sqlite: search.go,   *)
(* aggregate.go): a request is answered by asking each day's partition and   *)
(* merging the answers.  The properties compare the merge with one query     *)
(* over the union of the partitions.                                        *)
(*                                                                          *)
(* A row has an id, a timestamp, a group and a value; Null stands for SQL's  *)
(* NULL.  The compiled expression is the set of ids it selects.  One state   *)
(* is one request on one store.                                             *)
(***************************************************************************)
EXTENDS Integers, Sequences, SequencesExt, FiniteSetsExt

CONSTANTS
  SDayLen,       \* instants in a day
  Null,
  DefaultLimit,  \* defaultLimit
  PercentileCap, \* percentileCap
  Scale,         \* averages are kept in these fractions, to stay whole
  StoreRows,     \* the stores that are searched: sets of rows
  Requests       \* the requests

\* A store is finite and no two rows have one id; an interval is positive (search.go:246).
ASSUME SearchAssumption ==
  /\ {SDayLen, DefaultLimit, PercentileCap, Scale} \subseteq Nat \ {0}
  /\ \A S \in StoreRows :
       /\ IsFiniteSet(S)
       /\ \A r \in S : r.ts \in Nat /\ r.id \in Nat /\ (r.val = Null \/ r.val \in Int)
       /\ \A r, q \in S : r.id = q.id => r = q
       /\ \A n \in 1..Cardinality(S) : Scale % n = 0
  /\ \A q \in Requests :
       /\ {q.from, q.to} \subseteq Int \cup {Null} /\ q.limit \in Int /\ q.offset \in Nat
       /\ q.interval \in Nat \ {0} /\ q.metric \in {"count", "sum", "avg", "min", "max"}

VARIABLES stored, req   \* the rows of the store, and the request
shvars == <<stored, req>>

SearchTypeOK == stored \in StoreRows /\ req \in Requests

SearchInit == SearchTypeOK

-----------------------------------------------------------------------------
(* One partition.                                                           *)

\* S in ascending order: the member at k is the one that k - 1 others precede.
InOrder(S, precedes(_, _)) ==
  [k \in 1..Cardinality(S) |->
     CHOOSE x \in S : Cardinality({y \in S : precedes(y, x)}) = k - 1]

\* daysInRange: the partitions that overlap the range; Null leaves an end open.
DaysInRange ==
  LET days == {r.ts \div SDayLen : r \in stored} IN
  InOrder({d \in days : /\ req.from = Null \/ d >= req.from \div SDayLen
                        /\ req.to = Null \/ d <= req.to \div SDayLen}, <)

\* whereClause: the expression, the time range with both ends, the stream.
Where(r) ==
  /\ r.id \in req.match
  /\ req.from = Null \/ r.ts >= req.from
  /\ req.to = Null \/ r.ts <= req.to

RowsOfDay(d) == {r \in stored : r.ts \div SDayLen = d /\ Where(r)}

Earlier(a, b) == IF req.order = "asc" THEN a.ts < b.ts ELSE a.ts > b.ts
Before(a, b)  == Earlier(a, b) \/ (a.ts = b.ts /\ a.id < b.id)

First(seq, n) == SubSeq(seq, 1, IF n < Len(seq) THEN n ELSE Len(seq))

\* searchDay: ORDER BY ts, LIMIT n.  (SQL leaves the order of equal timestamps
\* open; here it is the order of ids.)
SearchDay(d, n) == First(InOrder(RowsOfDay(d), Before), n)

-----------------------------------------------------------------------------
(* Search.                                                                  *)

Limit == IF req.limit <= 0 THEN DefaultLimit ELSE req.limit

\* sortMessages looks at the timestamps only and is stable: equal ones stay as they are.
SortMessages(msgs) ==
  LET order == InOrder(DOMAIN msgs, LAMBDA i, j :
                 Earlier(msgs[i], msgs[j]) \/ (msgs[i].ts = msgs[j].ts /\ i < j))
  IN [k \in DOMAIN order |-> msgs[order[k]]]

Page_LimitPerDay ==                  \* mutant: limit rows of each day
  LET all == SortMessages(FlattenSeq([i \in DOMAIN DaysInRange |->
                            SearchDay(DaysInRange[i], Limit)]))
  IN First(SubSeq(all, req.offset + 1, Len(all)), Limit)

\* offset+limit rows of each day, merged, then cut to the page.
Page ==
  LET all == SortMessages(FlattenSeq([i \in DOMAIN DaysInRange |->
                            SearchDay(DaysInRange[i], req.offset + Limit)]))
  IN First(SubSeq(all, req.offset + 1, Len(all)), Limit)

CountDay(n, d) == n + Cardinality(RowsOfDay(d))
TotalFound == FoldLeft(CountDay, 0, DaysInRange)

-----------------------------------------------------------------------------
(* Histogram.                                                               *)

Bucket(r) == (r.ts \div req.interval) * req.interval

\* What a day adds to each bucket is added to what the days before it had.
HistogramDay_Overwrites(counts, d) ==        \* mutant: counts[start] = c
  LET new == {Bucket(r) : r \in RowsOfDay(d)} IN
  [b \in DOMAIN counts \cup new |->
     IF b \in new THEN Cardinality({r \in RowsOfDay(d) : Bucket(r) = b}) ELSE counts[b]]

HistogramDay(counts, d) ==
  [b \in DOMAIN counts \cup {Bucket(r) : r \in RowsOfDay(d)} |->
     (IF b \in DOMAIN counts THEN counts[b] ELSE 0)
     + Cardinality({r \in RowsOfDay(d) : Bucket(r) = b})]

Histogram == FoldLeft(HistogramDay, <<>>, DaysInRange)

-----------------------------------------------------------------------------
(* Aggregate.                                                               *)

\* The group a row falls in; without GroupBy there is one.
Key(r) == IF req.grouped THEN r.grp ELSE "all"

\* The values SQL's aggregates see: NULL is left out.
Valued(S) == {r \in S : r.val # Null}
SumOf(S)  == MapThenSumSet(LAMBDA r : r.val, Valued(S))
Values(S) == {r.val : r \in Valued(S)}

\* The answer of one day for one group, v, scanned into a float (NULL becomes 0);
\* c is its COUNT(*).
DayValue(S) ==
  IF req.metric = "count" THEN Scale * Cardinality(S)
  ELSE IF Valued(S) = {} THEN 0
  ELSE CASE req.metric = "sum" -> Scale * SumOf(S)
         [] req.metric = "avg" -> (Scale * SumOf(S)) \div Cardinality(Valued(S))
         [] req.metric = "min" -> Scale * Min(Values(S))
         [] req.metric = "max" -> Scale * Max(Values(S))

\* The rows of a day's answer: one for each group, or one in any case.
DayKeys(d) == IF req.grouped THEN {Key(r) : r \in RowsOfDay(d)} ELSE {"all"}

NoAccum == [sum |-> 0, count |-> 0, mm |-> 0, hasMM |-> FALSE]

Accumulate_Unweighted(a, v, c) ==    \* mutant: averages of days are added up
  [a EXCEPT !.sum = @ + v, !.count = @ + 1,
            !.mm = IF ~a.hasMM \/ (req.metric = "min" /\ v < @)
                               \/ (req.metric = "max" /\ v > @) THEN v ELSE @,
            !.hasMM = TRUE]

\* accumulate: averages are weighted by the day's row count.
Accumulate(a, v, c) ==
  [a EXCEPT !.sum = @ + (IF req.metric = "avg" THEN v * c ELSE v), !.count = @ + c,
            !.mm = IF ~a.hasMM \/ (req.metric = "min" /\ v < @)
                               \/ (req.metric = "max" /\ v > @) THEN v ELSE @,
            !.hasMM = TRUE]

\* aggregateSQL: the accumulators after the last day.
AccumulateDay(acc, d) ==
  [k \in DOMAIN acc \cup DayKeys(d) |->
     LET a == IF k \in DOMAIN acc THEN acc[k] ELSE NoAccum
         S == {r \in RowsOfDay(d) : Key(r) = k}
     IN IF k \in DayKeys(d) THEN Accumulate(a, DayValue(S), Cardinality(S)) ELSE a]

Accumulators == FoldLeft(AccumulateDay, <<>>, DaysInRange)

\* aggAccum.value as a fraction: numerator and denominator.
Value(a) ==
  CASE req.metric = "avg" -> IF a.count = 0 THEN <<0, 1>> ELSE <<a.sum, Scale * a.count>>
    [] req.metric \in {"min", "max"} -> <<a.mm, Scale>>
    [] OTHER -> <<a.sum, Scale>>

\* aggregatePercentile: the values of each day, until PercentileCap are scanned;
\* a day gives at most PercentileCap rows.
ScanDay(S, d) ==
  IF Cardinality(S) >= PercentileCap THEN S
  ELSE S \cup Valued(Range(SearchDay(d, PercentileCap)))

Scanned == FoldLeft(ScanDay, {}, DaysInRange)

\* percentile: the value at rank ceil(p * n), from a sorted list.
Percentile_Floor(vals, p) ==         \* mutant: int(p * n), not its ceiling less one
  LET n   == Len(vals)
      idx == (p * n) \div 100
  IN vals[1 + (IF idx >= n THEN n - 1 ELSE idx)]

Percentile(vals, p) ==
  LET n   == Len(vals)
      idx == (p * n + 99) \div 100 - 1
  IN vals[1 + (IF idx < 0 THEN 0 ELSE IF idx >= n THEN n - 1 ELSE idx)]

Less(a, b) == a.val < b.val \/ (a.val = b.val /\ a.id < b.id)
Sorted(S)  == LET seq == InOrder(S, Less) IN [i \in DOMAIN seq |-> seq[i].val]

Percentiles(p) ==
  [k \in {Key(r) : r \in Scanned} |-> Percentile(Sorted({r \in Scanned : Key(r) = k}), p)]

-----------------------------------------------------------------------------
(* Properties.                                                              *)

Matching == {r \in stored : Where(r)}

\* A page of the fan-out is that page of the whole: the same timestamps in the
\* same order, no message twice, and the total counts every match
\* (search.go:128-176).
PageOfUnion ==
  stored # {} =>
  LET whole == InOrder(Matching, Before)
      want  == First(SubSeq(whole, req.offset + 1, Len(whole)), Limit)
  IN /\ Len(Page) = Len(want) /\ TotalFound = Cardinality(Matching)
     /\ \A i \in DOMAIN want : Page[i].ts = want[i].ts
     /\ IsInjective(Page) /\ Range(Page) \subseteq Matching

\* A bucket counts the matches of its half-open interval, also when the interval
\* runs over midnight; every match is in a bucket.
BucketsOfUnion ==
  /\ {Bucket(r) : r \in Matching} = DOMAIN Histogram
  /\ \A b \in DOMAIN Histogram :
       Histogram[b] = Cardinality({r \in Matching : b <= r.ts /\ r.ts < b + req.interval})

\* Every listed day has a value for the group.
ValuedDays(k) ==
  \A i \in DOMAIN DaysInRange :
    k \in DayKeys(DaysInRange[i]) =>
      \E r \in RowsOfDay(DaysInRange[i]) : Key(r) = k /\ r.val # Null

\* Merging the days gives what one query over all of them gives: always for counts
\* and sums, for averages when no match lacks the value, for the least and the
\* greatest when each day asked has one.
AggregatesOfUnion ==
  \A k \in DOMAIN Accumulators :
    LET S == {r \in Matching : Key(r) = k}
        v == Value(Accumulators[k])
    IN CASE req.metric = "count" -> v[1] = v[2] * Cardinality(S)
         [] req.metric = "sum"   -> v[1] = v[2] * SumOf(S)
         [] req.metric = "avg"   ->
              S # {} /\ Valued(S) = S => v[1] * Cardinality(S) = v[2] * SumOf(S)
         [] req.metric = "min"   -> ValuedDays(k) => v[1] = v[2] * Min(Values(S))
         [] req.metric = "max"   -> ValuedDays(k) => v[1] = v[2] * Max(Values(S))

\* Histograms and tables that are merged from days say what one over all days would
\* (logstore.go:57-58, search.go:242-300, aggregate.go:59-205).
ChartsOfUnion == stored # {} => BucketsOfUnion /\ AggregatesOfUnion

\* Below the cap a percentile is the least value that at least p per cent of the
\* group's values do not exceed (aggregate.go:207-290).
NearestRank ==
  stored # {} /\ Cardinality(Matching) <= PercentileCap =>
  \A p \in {50, 90, 95, 99} :
    \A k \in DOMAIN Percentiles(p) :
      LET S == {r \in Valued(Matching) : Key(r) = k}
          v == Percentiles(p)[k]
          UpTo(x) == 100 * Cardinality({r \in S : r.val <= x})
      IN /\ v \in Values(S) /\ UpTo(v) >= p * Cardinality(S)
         /\ \A x \in Values(S) : UpTo(x) >= p * Cardinality(S) => v <= x

=============================================================================
