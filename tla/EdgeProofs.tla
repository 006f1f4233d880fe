----------------------------- MODULE EdgeProofs -----------------------------
(***************************************************************************)
(* Proofs about modules Outputs, Fleet, Docker and GelfChunks, and about      *)
(* MCEdge, where TLC checks them together: the messages of an output are      *)
(* counted, the secrets of an agent are ones that were issued, a container    *)
(* has one follower at most, and a chunked message is put together from       *)
(* chunks of its own.                                                        *)
(***************************************************************************)
EXTENDS MCEdge, FoldLemmas, FiniteSetTheorems, SequenceTheorems, TLAPS

-----------------------------------------------------------------------------
(* Outputs.                                                                 *)

WorkerRec == [pc : {"none", "select", "dial", "write", "ended"}, buffer : 0..BufferSize,
              attempt : 0..1, sock : {"nil", "open", "closed"}, open : 0..1, done : BOOLEAN]

StopperRec == [pc : {"idle", "stop", "close", "over", "panicked"},
               todo : SUBSET Outs, at : SUBSET Outs, last : BOOLEAN]

WorkersOf(o) == {w \in Workers : w[1] = o}

\* The messages in the hands of each worker.
Hands == [w \in Workers |-> InHand(w)]

\* A connection that is open is the one in w.conn, and who dials has none.
SocketOK(r) == (r.open = 1 <=> r.sock = "open") /\ (r.pc = "dial" => r.sock = "nil")

\* Who is stopped, and that a generation is started before it is stopped.
StopperOK(g, r) == r.todo \cup r.at \subseteq Setups[g] /\ (g > gen => r = NoStopper)

OutShape ==
  /\ OutTypeOK /\ running <= gen
  /\ \A w \in Workers : SocketOK(wk[w]) /\ (w[2] > gen => wk[w] = NoWorker)
  /\ \A g \in 1..MaxGen : StopperOK(g, stopper[g])

\* What each output owes is in its workers' hands, and was dispatched.
HandsOwe ==
  \A o \in Outs : owed[o] = Total(Hands, WorkersOf(o)) /\ owed[o] <= dispatched

OutInv == OutShape /\ HandsOwe

LEMMA WorkersAre ==
  /\ \A o \in Outs, g \in 1..MaxGen : <<o, g>> \in Workers <=> o \in Setups[g]
  /\ \A w \in Workers : w[1] \in Outs /\ w[2] \in 1..MaxGen /\ w[1] \in Setups[w[2]]
                        /\ w = <<w[1], w[2]>>
  BY DEF Workers

LEMMA WorkersOfFinite ==
  ASSUME NEW o
  PROVE  IsFiniteSet(WorkersOf(o))
<1>1. PICK A, B : A = {o} /\ B = 1..MaxGen
  OBVIOUS
<1>2. IsFiniteSet(A) /\ IsFiniteSet(B)
  <2>1. IsFiniteSet(A)
    BY <1>1, FS_Singleton
  <2>2. MaxGen \in Int /\ 1 \in Int
    BY OutputsAssumption
  <2>3. IsFiniteSet(1..MaxGen)
    BY <2>2, FS_Interval
  <2>4. QED
    BY <1>1, <2>1, <2>3
<1>3. IsFiniteSet(A \X B)
  BY <1>2, FS_Product
<1>4. WorkersOf(o) \in SUBSET (A \X B)
  BY <1>1 DEF WorkersOf, Workers
<1>5. QED
  BY <1>3, <1>4, FS_Subset

HandsTypeOK ==
  /\ \A w \in Workers : InHand(w) \in Nat /\ Hands[w] = InHand(w)
  /\ \A o \in Outs : Total(Hands, WorkersOf(o)) \in Nat

LEMMA HandsType == OutTypeOK => HandsTypeOK
<1> SUFFICES ASSUME OutTypeOK
             PROVE  HandsTypeOK
  OBVIOUS
<1>1. \A w \in Workers : wk[w].buffer \in Nat
  BY OutputsAssumption DEF OutTypeOK
<1>2. \A w \in Workers : InHand(w) \in Nat /\ Hands[w] = InHand(w)
  BY <1>1 DEF InHand, Hands
<1>3. ASSUME NEW o \in Outs
      PROVE  Total(Hands, WorkersOf(o)) \in Nat
  <2>1. \A w \in WorkersOf(o) : Hands[w] \in Nat
    BY <1>2 DEF WorkersOf
  <2>2. WorkersOf(o) \in SUBSET WorkersOf(o) /\ IsFiniteSet(WorkersOf(o))
    BY WorkersOfFinite
  <2>3. QED
    BY <2>1, <2>2, TotalType
<1>4. QED
  BY <1>2, <1>3 DEF HandsTypeOK

LEMMA HandsTypeNext == (OutTypeOK => HandsTypeOK)'
  BY HandsType, PTL

\* The fold of EveryMessageCounted is the sum of what is in the workers' hands.
LEMMA FoldOfHands ==
  OutTypeOK => \A o \in Outs : MapThenSumSet(InHand, {w \in Workers : w[1] = o})
                                 = Total(Hands, WorkersOf(o))
<1> SUFFICES ASSUME OutTypeOK, NEW o \in Outs
             PROVE  MapThenSumSet(InHand, WorkersOf(o)) = Total(Hands, WorkersOf(o))
  BY DEF WorkersOf
<1> DEFINE W == WorkersOf(o)
           v == Hands
           Step(f) == [T \in SUBSET W |-> IF T = {} THEN 0
                         ELSE InHand(CHOOSE x \in T : TRUE) + f[T \ {CHOOSE x \in T : TRUE}]]
           it == CHOOSE f : f = Step(f)
           g == [T \in SUBSET W |-> Total(v, T)]
<1>1. IsFiniteSet(W) /\ \A x \in W : v[x] \in Nat /\ v[x] = InHand(x)
  BY HandsType, WorkersOfFinite DEF WorkersOf, HandsTypeOK
<1>2. MapThenSumSet(InHand, WorkersOf(o)) = it[W]
  BY DEF MapThenSumSet, MapThenFoldSet
<1> HIDE DEF W, v
<1>3. \A T \in SUBSET W : T # {} => InHand(Some(T)) = v[Some(T)]
  BY <1>1 DEF Some
<1>4. \A T \in SUBSET W : g[T] = IF T = {} THEN 0 ELSE v[Some(T)] + g[T \ {Some(T)}]
  <2>1. \A T \in SUBSET W : T # {} => Total(v, T) = v[Some(T)] + Total(v, T \ {Some(T)})
    BY <1>1, SumRecursion
  <2>2. Total(v, {}) = 0
    BY TotalEmpty
  <2>3. QED
    BY <2>1, <2>2
<1>5. g = Step(g)
  BY <1>3, <1>4 DEF Some
<1>6. it = Step(it)
  <2> HIDE DEF Step
  <2>1. QED
    BY <1>5
<1>7. \A T \in SUBSET W : it[T] = IF T = {} THEN 0 ELSE v[Some(T)] + it[T \ {Some(T)}]
  <2> HIDE DEF it
  <2>1. QED
    BY <1>3, <1>6 DEF Some
<1>8. it[W] = Total(v, W)
  <2> HIDE DEF it
  <2>1. QED
    BY <1>1, <1>7, SumSolution
<1>9. QED
  BY <1>2, <1>8 DEF W, v

LEMMA OutStarts == OutInit => OutInv
<1> SUFFICES ASSUME OutInit PROVE OutInv
  OBVIOUS
<1>1. OutTypeOK
  BY OutputsAssumption DEF OutInit, OutTypeOK, NoWorker, NoStopper
<1>2. OutShape
  BY <1>1 DEF OutShape, OutInit, NoWorker, NoStopper, SocketOK, StopperOK
<1>3. ASSUME NEW o \in Outs
      PROVE  Total(Hands, WorkersOf(o)) = 0
  <2>1. \A w \in WorkersOf(o) : Hands[w] = 0
    BY DEF OutInit, Hands, InHand, NoWorker, WorkersOf
  <2>2. QED
    BY <2>1, TotalOfZeros
<1>4. QED
  BY <1>2, <1>3 DEF OutInv, HandsOwe, OutInit

\* A step that changes what one worker has in hand changes the sum by as much.
LEMMA OneHandChanges ==
  ASSUME OutTypeOK, OutTypeOK', NEW o \in Outs, NEW w \in WorkersOf(o),
         \A u \in WorkersOf(o) \ {w} : InHand(u)' = InHand(u)
  PROVE  Total(Hands', WorkersOf(o))
           = Total(Hands, WorkersOf(o)) + (InHand(w)' - InHand(w))
<1>1. /\ \A u \in Workers : InHand(u) \in Nat /\ Hands[u] = InHand(u)
      /\ \A u \in Workers : InHand(u)' \in Nat /\ Hands'[u] = InHand(u)'
  BY HandsType, HandsTypeNext DEF HandsTypeOK
<1>2. /\ \A u \in WorkersOf(o) : Hands[u] \in Nat /\ Hands'[u] \in Nat
      /\ \A u \in WorkersOf(o) \ {w} : Hands[u] = Hands'[u]
      /\ Hands[w] = InHand(w) /\ Hands'[w] = InHand(w)'
  BY <1>1 DEF WorkersOf
<1>3. IsFiniteSet(WorkersOf(o))
  BY WorkersOfFinite
<1>4. Total(Hands', WorkersOf(o)) = Total(Hands, WorkersOf(o)) + (Hands'[w] - Hands[w])
  <2>1. PICK S, a, b : S = WorkersOf(o) /\ a = Hands /\ b = Hands'
    OBVIOUS
  <2>2. Total(b, S) = Total(a, S) + (b[w] - a[w])
    BY <1>2, <1>3, <2>1, TotalChange
  <2>3. QED
    BY <2>1, <2>2
<1>5. QED
  BY <1>2, <1>4

LEMMA NoHandChanges ==
  ASSUME NEW o \in Outs, \A u \in WorkersOf(o) : InHand(u)' = InHand(u)
  PROVE  Total(Hands', WorkersOf(o)) = Total(Hands, WorkersOf(o))
<1>1. \A u \in WorkersOf(o) : Hands'[u] = Hands[u]
  BY DEF Hands, WorkersOf
<1>2. QED
  BY <1>1, TotalSame

Hand(r) == r.buffer + IF r.pc \in {"dial", "write"} THEN 1 ELSE 0

\* The steps in which one worker moves, and counts a message when it lets go of it.
LEMMA WorkerMoves ==
  ASSUME OutInv, NEW w \in Workers, NEW r \in WorkerRec, SocketOK(r), w[2] <= gen,
         wk' = [wk EXCEPT ![w] = r],
         \/ owed' = owed /\ Hand(r) = InHand(w)
         \/ owed' = [owed EXCEPT ![w[1]] = @ - 1] /\ Hand(r) = InHand(w) - 1,
         UNCHANGED <<gen, running, dispatched>>, alive' \in BOOLEAN,
         stopper' \in [1..MaxGen -> StopperRec],
         \A g \in 1..MaxGen : StopperOK(g, stopper'[g])
  PROVE  OutInv'
<1>1. wk \in [Workers -> WorkerRec] /\ owed \in [Outs -> 0..MaxOutMsgs] /\ OutTypeOK
  BY DEF OutInv, OutShape, OutTypeOK, WorkerRec
<1>2. wk' \in [Workers -> WorkerRec] /\ wk'[w] = r /\ \A u \in Workers \ {w} : wk'[u] = wk[u]
  BY <1>1
<1>3. InHand(w)' = Hand(r) /\ \A u \in Workers \ {w} : InHand(u)' = InHand(u)
  BY <1>2 DEF InHand, Hand
<1>4. w[1] \in Outs /\ w \in WorkersOf(w[1]) /\ \A u \in Workers : u[1] \in Outs
  BY WorkersAre DEF WorkersOf
<1>5. InHand(w) \in Nat /\ InHand(w) <= owed[w[1]]
  <2>1. /\ \A u \in WorkersOf(w[1]) : Hands[u] \in Nat
        /\ InHand(w) \in Nat /\ Hands[w] = InHand(w)
    BY <1>1, HandsType DEF WorkersOf, HandsTypeOK
  <2>2. Hands[w] <= Total(Hands, WorkersOf(w[1]))
    BY <1>4, <2>1, WorkersOfFinite, TotalAtLeast
  <2>3. owed[w[1]] = Total(Hands, WorkersOf(w[1]))
    BY <1>4 DEF OutInv, HandsOwe
  <2>4. QED
    BY <2>1, <2>2, <2>3
<1>6. /\ owed' \in [Outs -> 0..MaxOutMsgs]
      /\ \A o \in Outs \ {w[1]} : owed'[o] = owed[o]
      /\ owed'[w[1]] = owed[w[1]] + (Hand(r) - InHand(w))
      /\ \A o \in Outs : owed'[o] <= owed[o]
  <2>1. CASE owed' = owed /\ Hand(r) = InHand(w)
    BY <1>1, <1>4, <1>5, <2>1, OutputsAssumption
  <2>2. CASE owed' = [owed EXCEPT ![w[1]] = @ - 1] /\ Hand(r) = InHand(w) - 1
    <3>1. Hand(r) \in Nat
      BY OutputsAssumption DEF Hand, WorkerRec
    <3>2. owed[w[1]] - 1 \in 0..MaxOutMsgs
      BY <1>1, <1>4, <1>5, <2>2, <3>1, OutputsAssumption
    <3>3. QED
      BY <1>1, <1>4, <1>5, <2>2, <3>1, <3>2, OutputsAssumption
  <2>3. QED
    BY <2>1, <2>2
<1>7. OutTypeOK'
  BY <1>1, <1>2, <1>6 DEF OutTypeOK, WorkerRec, StopperRec
<1>8. OutShape'
  <2>1. ASSUME NEW u \in Workers
        PROVE  SocketOK(wk'[u]) /\ (u[2] > gen' => wk'[u] = NoWorker)
    <3>1. CASE u = w
      <4>1. w[2] \in Int /\ gen \in Int /\ gen' = gen
        BY <1>1, WorkersAre, OutputsAssumption DEF OutTypeOK
      <4>2. ~(w[2] > gen')
        BY <4>1
      <4>3. QED
        BY <1>2, <3>1, <4>2
    <3>2. CASE u # w
      BY <1>2, <3>2 DEF OutInv, OutShape
    <3>3. QED
      BY <3>1, <3>2
  <2>2. QED
    BY <1>7, <2>1 DEF OutInv, OutShape, StopperOK
<1>9. ASSUME NEW o \in Outs
      PROVE  owed'[o] = Total(Hands', WorkersOf(o)) /\ owed'[o] <= dispatched'
  <2>1. owed[o] = Total(Hands, WorkersOf(o)) /\ owed[o] <= dispatched
    BY DEF OutInv, HandsOwe
  <2>2. owed'[o] <= dispatched'
    BY <1>1, <1>6, <2>1, OutputsAssumption DEF OutTypeOK
  <2>3. CASE o = w[1]
    <3>1. Total(Hands', WorkersOf(o)) = Total(Hands, WorkersOf(o)) + (InHand(w)' - InHand(w))
      BY <1>1, <1>3, <1>4, <1>7, <2>3, OneHandChanges DEF WorkersOf
    <3>2. QED
      BY <1>3, <1>6, <2>1, <2>2, <2>3, <3>1
  <2>4. CASE o # w[1]
    <3>1. Total(Hands', WorkersOf(o)) = Total(Hands, WorkersOf(o))
      BY <1>3, <2>4, NoHandChanges DEF WorkersOf
    <3>2. QED
      BY <1>6, <2>1, <2>2, <2>4, <3>1
  <2>5. QED
    BY <2>3, <2>4
<1>10. QED
  BY <1>8, <1>9 DEF OutInv, HandsOwe

LEMMA StopOldStep ==
  ASSUME OutShape, NEW final \in BOOLEAN, StopOld(final), gen' \in Nat, gen <= gen'
  PROVE  /\ stopper' \in [1..MaxGen -> StopperRec]
         /\ \A g \in 1..MaxGen : StopperOK(g, stopper[g])'
<1>1. /\ stopper \in [1..MaxGen -> StopperRec] /\ running \in 0..MaxGen /\ gen \in Nat
      /\ running <= gen /\ \A g \in 1..MaxGen : StopperOK(g, stopper[g]) /\ g \in Int
  BY OutputsAssumption DEF OutShape, OutTypeOK, StopperRec
<1>2. \A g \in 1..MaxGen : g > gen' => g > gen
  BY <1>1
<1>3. CASE running = 0
  BY <1>1, <1>2, <1>3 DEF StopOld, StopperOK
<1>4. CASE running # 0
  <2>1. PICK r : r = [NoStopper EXCEPT !.pc = "stop", !.todo = Setups[running], !.last = final]
    OBVIOUS
  <2>2. running \in 1..MaxGen /\ Setups[running] \subseteq Outs /\ ~(running > gen')
    BY <1>1, <1>4, OutputsAssumption
  <2>3. stopper' = [stopper EXCEPT ![running] = r]
    BY <1>4, <2>1 DEF StopOld
  <2>4. r \in StopperRec /\ r.todo = Setups[running] /\ r.at = {}
    BY <2>1, <2>2 DEF NoStopper, StopperRec
  <2>5. \A g \in 1..MaxGen : stopper'[g] = IF g = running THEN r ELSE stopper[g]
    BY <1>1, <2>3
  <2>6. stopper' \in [1..MaxGen -> StopperRec]
    BY <1>1, <2>3, <2>4
  <2>7. QED
    BY <1>1, <1>2, <2>2, <2>4, <2>5, <2>6 DEF StopperOK
<1>5. QED
  BY <1>3, <1>4

LEMMA SetOutputsStep == OutInv /\ SetOutputs => OutInv'
<1> SUFFICES ASSUME OutInv, SetOutputs PROVE OutInv'
  OBVIOUS
<1>1. OutTypeOK /\ OutShape /\ gen + 1 \in 1..MaxGen /\ gen' = gen + 1 /\ running' = gen + 1
  BY OutputsAssumption DEF OutInv, OutShape, OutTypeOK, SetOutputs
<1>2. /\ stopper' \in [1..MaxGen -> StopperRec]
      /\ \A g \in 1..MaxGen : StopperOK(g, stopper[g])'
  <2>1. StopOld(FALSE)
    BY DEF SetOutputs
  <2>2. gen' \in Nat /\ gen <= gen'
    BY <1>1, OutputsAssumption DEF OutTypeOK
  <2>3. QED
    BY <1>1, <2>1, <2>2, StopOldStep
<1>3. wk' \in [Workers -> WorkerRec] /\ OutTypeOK'
  <2>1. PICK n, r : n = NoWorker /\ r = [n EXCEPT !.pc = "select"]
    OBVIOUS
  <2>2. r \in WorkerRec
    <3>1. n \in WorkerRec
      BY <2>1, OutputsAssumption DEF NoWorker, WorkerRec
    <3>2. QED
      BY <2>1, <3>1 DEF WorkerRec
  <2>3. wk' = [w \in Workers |-> IF w[2] = gen + 1 THEN r ELSE wk[w]]
    BY <2>1 DEF SetOutputs
  <2>4. wk \in [Workers -> WorkerRec]
    BY <1>1 DEF OutTypeOK, WorkerRec
  <2>5. wk' \in [Workers -> WorkerRec]
    BY <2>2, <2>3, <2>4
  <2>6. UNCHANGED <<owed, dispatched, alive>> /\ gen' \in 0..MaxGen /\ running' \in 0..MaxGen
    BY <1>1, OutputsAssumption DEF SetOutputs
  <2>7. QED
    BY <1>1, <1>2, <2>5, <2>6 DEF OutTypeOK, WorkerRec, StopperRec
<1>4. ASSUME NEW w \in Workers
      PROVE  InHand(w)' = InHand(w)
  <2>1. w[2] = gen + 1 => w[2] > gen
    BY <1>1, OutputsAssumption DEF OutTypeOK
  <2>2. QED
    BY <1>1, <2>1 DEF OutShape, SetOutputs, NoWorker, InHand
<1>5. ASSUME NEW w \in Workers
      PROVE  SocketOK(wk'[w]) /\ (w[2] > gen' => wk'[w] = NoWorker)
  <2>1. w[2] \in Int /\ gen \in Int
    BY <1>1, WorkersAre, OutputsAssumption DEF OutTypeOK
  <2>2. SocketOK(wk[w]) /\ (w[2] > gen => wk[w] = NoWorker)
    BY <1>1 DEF OutShape
  <2>3. QED
    BY <1>1, <2>1, <2>2 DEF SetOutputs, NoWorker, SocketOK
<1>6. OutShape'
  <2>1. running' <= gen'
    BY <1>1
  <2>2. QED
    BY <1>2, <1>3, <1>5, <2>1 DEF OutShape
<1>7. ASSUME NEW o \in Outs
      PROVE  owed'[o] = Total(Hands', WorkersOf(o)) /\ owed'[o] <= dispatched'
  <2>1. Total(Hands', WorkersOf(o)) = Total(Hands, WorkersOf(o))
    BY <1>4, NoHandChanges DEF WorkersOf
  <2>2. QED
    BY <2>1 DEF OutInv, HandsOwe, SetOutputs
<1>8. QED
  BY <1>6, <1>7 DEF OutInv, HandsOwe

LEMMA StopAllStep == OutInv /\ StopAll => OutInv'
<1> SUFFICES ASSUME OutInv, StopAll PROVE OutInv'
  OBVIOUS
<1>1. OutTypeOK /\ OutShape /\ UNCHANGED <<gen, wk, owed, dispatched, alive>> /\ running' = 0
  BY DEF OutInv, OutShape, StopAll
<1>2. /\ stopper' \in [1..MaxGen -> StopperRec]
      /\ \A g \in 1..MaxGen : StopperOK(g, stopper[g])'
  <2>1. StopOld(TRUE)
    BY DEF StopAll
  <2>2. gen' \in Nat /\ gen <= gen'
    BY <1>1, OutputsAssumption DEF OutTypeOK
  <2>3. QED
    BY <1>1, <2>1, <2>2, StopOldStep
<1>3. OutShape'
  <2>1. OutTypeOK'
    BY <1>1, <1>2, OutputsAssumption DEF OutTypeOK, StopperRec
  <2>2. running' <= gen'
    BY <1>1, OutputsAssumption DEF OutTypeOK
  <2>3. QED
    BY <1>1, <1>2, <2>1, <2>2 DEF OutShape
<1>4. ASSUME NEW o \in Outs
      PROVE  owed'[o] = Total(Hands', WorkersOf(o)) /\ owed'[o] <= dispatched'
  <2>1. Total(Hands', WorkersOf(o)) = Total(Hands, WorkersOf(o))
    BY <1>1, NoHandChanges DEF WorkersOf, InHand
  <2>2. QED
    BY <1>1, <2>1 DEF OutInv, HandsOwe
<1>5. QED
  BY <1>3, <1>4 DEF OutInv, HandsOwe

\* An output that takes the message has a worker with room: its hands and its debt grow
\* by one; the others keep theirs.
LEMMA DispatchStep == OutInv /\ Dispatch => OutInv'
<1> SUFFICES ASSUME OutInv, Dispatch PROVE OutInv'
  OBVIOUS
<1>1. /\ OutTypeOK /\ OutShape /\ UNCHANGED <<gen, running, stopper, alive>>
      /\ running \in 1..MaxGen /\ dispatched' = dispatched + 1 /\ dispatched < MaxOutMsgs
  BY OutputsAssumption DEF OutInv, OutShape, OutTypeOK, Dispatch
<1>2. PICK s \in OutStreams :
        LET takers == {o \in Setups[running] : s \in Wanted[o]} IN
        /\ owed' = [o \in Outs |->
                      owed[o] + IF o \in takers \ Overflows(takers) THEN 1 ELSE 0]
        /\ wk' = [w \in Workers |->
                    IF w[1] \in takers /\ w[2] = running /\ ~Full(w)
                    THEN [wk[w] EXCEPT !.buffer = @ + 1] ELSE wk[w]]
  BY DEF Dispatch
<1> DEFINE takers == {o \in Setups[running] : s \in Wanted[o]}
           takes(o) == o \in takers /\ ~Full(<<o, running>>)
<1>3. /\ owed' = [o \in Outs |-> owed[o] + IF takes(o) THEN 1 ELSE 0]
      /\ wk' = [w \in Workers |-> IF takes(w[1]) /\ w[2] = running
                                  THEN [wk[w] EXCEPT !.buffer = @ + 1] ELSE wk[w]]
  <2>1. \A w \in Workers : w[2] = running => w = <<w[1], running>>
    BY WorkersAre
  <2>2. \A w \in Workers : (w[1] \in takers /\ w[2] = running /\ ~Full(w))
                               <=> (takes(w[1]) /\ w[2] = running)
    BY <2>1
  <2>3. QED
    BY <1>2, <2>2 DEF Overflows
<1>4. takers \subseteq Outs /\ \A o \in takers : <<o, running>> \in Workers
  BY <1>1, WorkersAre, OutputsAssumption
<1>5. \A w \in Workers : /\ wk[w] \in WorkerRec
                         /\ takes(w[1]) /\ w[2] = running => wk[w].buffer + 1 \in 0..BufferSize
  <2>1. \A w \in Workers : wk[w] \in WorkerRec
    BY <1>1 DEF OutTypeOK, WorkerRec
  <2>2. ASSUME NEW w \in Workers, takes(w[1]), w[2] = running
        PROVE  wk[w].buffer + 1 \in 0..BufferSize
    <3>1. w = <<w[1], running>>
      BY <2>2, WorkersAre
    <3>2. wk[w].buffer # BufferSize /\ wk[w].buffer \in 0..BufferSize
      BY <2>1, <2>2, <3>1 DEF Full, WorkerRec
    <3>3. QED
      BY <3>2, OutputsAssumption
  <2>3. QED
    BY <2>1, <2>2
<1> HIDE DEF takes, takers
<1>6. wk' \in [Workers -> WorkerRec]
  BY <1>3, <1>5 DEF WorkerRec
<1>7. ASSUME NEW w \in Workers
      PROVE  SocketOK(wk'[w]) /\ (w[2] > gen' => wk'[w] = NoWorker)
  <2>1. /\ SocketOK(wk[w]) /\ (w[2] > gen => wk[w] = NoWorker)
        /\ w[2] \in Int /\ gen \in Int /\ running <= gen /\ gen' = gen
    BY <1>1, WorkersAre, OutputsAssumption DEF OutShape, OutTypeOK
  <2>2. wk[w] \in WorkerRec /\ wk'[w] = IF takes(w[1]) /\ w[2] = running
                                        THEN [wk[w] EXCEPT !.buffer = @ + 1] ELSE wk[w]
    BY <1>3, <1>5
  <2>3. QED
    BY <2>1, <2>2 DEF SocketOK, WorkerRec
<1>8. ASSUME NEW o \in Outs
      PROVE  /\ owed'[o] = Total(Hands', WorkersOf(o)) /\ owed'[o] <= dispatched'
             /\ owed'[o] \in 0..MaxOutMsgs
  <2>1. /\ owed[o] = Total(Hands, WorkersOf(o)) /\ owed[o] <= dispatched
        /\ owed[o] \in 0..MaxOutMsgs /\ dispatched \in 0..MaxOutMsgs
    BY <1>1 DEF OutInv, HandsOwe, OutTypeOK
  <2>2. owed'[o] = owed[o] + IF takes(o) THEN 1 ELSE 0
    BY <1>3
  <2>3. owed'[o] <= dispatched' /\ owed'[o] \in 0..MaxOutMsgs
    BY <1>1, <2>1, <2>2, OutputsAssumption
  <2>4. CASE takes(o)
    <3>1. PICK w \in WorkersOf(o) : w = <<o, running>>
      BY <1>4, <2>4 DEF WorkersOf, takes
    <3>2. \A u \in WorkersOf(o) \ {w} : u \in Workers /\ u[1] = o /\ u[2] # running
      BY <3>1, WorkersAre DEF WorkersOf
    <3>3. \A u \in WorkersOf(o) \ {w} : wk'[u] = wk[u]
      BY <1>3, <3>2
    <3>4. w \in Workers /\ wk[w] \in WorkerRec /\ wk'[w] = [wk[w] EXCEPT !.buffer = @ + 1]
      BY <1>3, <1>5, <2>4, <3>1 DEF WorkersOf
    <3>5. InHand(w)' - InHand(w) = 1
      BY <3>4, OutputsAssumption DEF InHand, WorkerRec
    <3>6. \A u \in WorkersOf(o) \ {w} : InHand(u)' = InHand(u)
      BY <3>3 DEF InHand
    <3>7. OutTypeOK'
      <4>1. owed' \in [Outs -> 0..MaxOutMsgs]
        BY <1>1, <1>3, OutputsAssumption DEF OutInv, HandsOwe, OutTypeOK
      <4>2. QED
        BY <1>1, <1>6, <4>1, OutputsAssumption DEF OutTypeOK, WorkerRec
    <3>8. Total(Hands', WorkersOf(o)) = Total(Hands, WorkersOf(o)) + (InHand(w)' - InHand(w))
      BY <1>1, <3>6, <3>7, OneHandChanges
    <3>9. QED
      BY <2>1, <2>2, <2>3, <2>4, <3>5, <3>8
  <2>5. CASE ~takes(o)
    <3>1. \A u \in WorkersOf(o) : InHand(u)' = InHand(u)
      BY <1>3, <2>5 DEF WorkersOf, InHand
    <3>2. Total(Hands', WorkersOf(o)) = Total(Hands, WorkersOf(o))
      BY <3>1, NoHandChanges
    <3>3. QED
      BY <2>1, <2>2, <2>3, <2>5, <3>2
  <2>6. QED
    BY <2>4, <2>5
<1>9. OutTypeOK'
  <2>1. owed' \in [Outs -> 0..MaxOutMsgs]
    BY <1>3, <1>8
  <2>2. QED
    BY <1>1, <1>6, <2>1, OutputsAssumption DEF OutTypeOK, WorkerRec
<1>10. OutShape'
  BY <1>1, <1>7, <1>9 DEF OutShape, StopperOK
<1>11. QED
  BY <1>8, <1>10 DEF OutInv, HandsOwe

\* A worker that does something was started, and so was the generation that is stopped.
LEMMA Started ==
  ASSUME OutInv
  PROVE  /\ \A w \in Workers : wk[w] \in WorkerRec /\ (wk[w].pc # "none" => w[2] <= gen)
         /\ \A g \in 1..MaxGen : /\ stopper[g] \in StopperRec
                                 /\ stopper[g].pc # "idle" => g <= gen
<1>1. \A w \in Workers : /\ wk[w] \in WorkerRec /\ w[2] \in Int /\ gen \in Int
                         /\ (w[2] > gen => wk[w] = NoWorker)
  BY WorkersAre, OutputsAssumption DEF OutInv, OutShape, OutTypeOK, WorkerRec
<1>2. \A g \in 1..MaxGen : stopper[g] \in StopperRec /\ (g > gen => stopper[g] = NoStopper)
  BY DEF OutInv, OutShape, OutTypeOK, StopperRec, StopperOK
<1>3. gen \in Int /\ \A g \in 1..MaxGen : g \in Int
  BY OutputsAssumption DEF OutInv, OutShape, OutTypeOK
<1>4. QED
  BY <1>1, <1>2, <1>3 DEF NoWorker, NoStopper

\* The stopper's steps leave every hand as it is.
LEMMA StopperMoves ==
  ASSUME OutInv, NEW g \in 1..MaxGen, stopper[g].pc # "idle", NEW r \in StopperRec,
         r.todo \cup r.at \subseteq Setups[g], stopper' = [stopper EXCEPT ![g] = r]
  PROVE  /\ stopper' \in [1..MaxGen -> StopperRec]
         /\ \A k \in 1..MaxGen : StopperOK(k, stopper'[k])
<1>1. /\ stopper \in [1..MaxGen -> StopperRec] /\ \A k \in 1..MaxGen : StopperOK(k, stopper[k])
      /\ gen \in Int /\ g \in Int
  BY OutputsAssumption DEF OutInv, OutShape, OutTypeOK, StopperRec
<1>2. ~(g > gen)
  BY <1>1, Started
<1>3. QED
  BY <1>1, <1>2 DEF StopperOK

LEMMA StopLooksStep == \A g \in 1..MaxGen : OutInv /\ StopLooks(g) => OutInv'
<1> SUFFICES ASSUME NEW g \in 1..MaxGen, OutInv, StopLooks(g) PROVE OutInv'
  OBVIOUS
<1>1. PICK o \in stopper[g].todo :
        /\ wk' = [wk EXCEPT ![<<o, g>>].done = TRUE]
        /\ stopper' = [stopper EXCEPT
             ![g].todo = @ \ {o},
             ![g].at = IF wk[<<o, g>>].sock = "nil" THEN {} ELSE {o},
             ![g].pc = IF wk[<<o, g>>].sock = "nil" THEN "stop" ELSE "close"]
  BY DEF StopLooks
<1>2. /\ stopper[g] \in StopperRec /\ stopper[g].pc # "idle" /\ g <= gen
      /\ stopper[g].todo \cup stopper[g].at \subseteq Setups[g]
  BY Started DEF StopLooks, OutInv, OutShape, StopperOK
<1>3. /\ <<o, g>> \in Workers /\ <<o, g>>[2] = g /\ <<o, g>>[1] = o
      /\ o \in Setups[g] /\ Setups[g] \subseteq Outs
  BY <1>2, WorkersAre, OutputsAssumption
<1>4. PICK w \in Workers : w = <<o, g>> /\ w[2] = g
  BY <1>3
<1>5. wk[w] \in WorkerRec /\ SocketOK(wk[w])
  BY Started DEF OutInv, OutShape
<1>6. PICK r : r = [wk[w] EXCEPT !.done = TRUE]
  OBVIOUS
<1>7. /\ r \in WorkerRec /\ SocketOK(r) /\ Hand(r) = InHand(w)
      /\ wk' = [wk EXCEPT ![w] = r]
  BY <1>1, <1>4, <1>5, <1>6 DEF WorkerRec, SocketOK, Hand, InHand
<1>8. PICK q : q = [stopper[g] EXCEPT
             !.todo = @ \ {o},
             !.at = IF wk[<<o, g>>].sock = "nil" THEN {} ELSE {o},
             !.pc = IF wk[<<o, g>>].sock = "nil" THEN "stop" ELSE "close"]
  OBVIOUS
<1>9. q \in StopperRec /\ q.todo \cup q.at \subseteq Setups[g]
  BY <1>2, <1>3, <1>8 DEF StopperRec
<1>10. stopper' = [stopper EXCEPT ![g] = q]
  BY <1>1, <1>8 DEF OutInv, OutShape, OutTypeOK
<1>11. /\ stopper' \in [1..MaxGen -> StopperRec]
       /\ \A k \in 1..MaxGen : StopperOK(k, stopper'[k])
  BY <1>2, <1>9, <1>10, StopperMoves
<1>12. owed' = owed /\ UNCHANGED <<gen, running, dispatched>> /\ alive' \in BOOLEAN
  BY DEF StopLooks, OutInv, OutShape, OutTypeOK
<1>13. QED
  BY <1>2, <1>4, <1>7, <1>11, <1>12, WorkerMoves

LEMMA Closing ==
  ASSUME NEW x \in WorkerRec, SocketOK(x)
  PROVE  /\ CloseSock(x) \in WorkerRec /\ SocketOK(CloseSock(x))
         /\ CloseSock(x).open = 0 /\ CloseSock(x).buffer = x.buffer /\ CloseSock(x).pc = x.pc
<1>1. CASE x.sock = "open"
  <2>1. CloseSock(x) = [x EXCEPT !.sock = "closed", !.open = 0]
    BY <1>1 DEF CloseSock, WorkerRec
  <2>2. PICK y : y = CloseSock(x)
    OBVIOUS
  <2>3. y = [x EXCEPT !.sock = "closed", !.open = 0]
    BY <2>1, <2>2
  <2>4. y \in WorkerRec
    <3>1. y = [pc |-> x.pc, buffer |-> x.buffer, attempt |-> x.attempt, sock |-> "closed",
               open |-> 0, done |-> x.done]
      BY <2>3 DEF WorkerRec
    <3>2. QED
      BY <3>1 DEF WorkerRec
  <2>5. y.open = 0 /\ y.buffer = x.buffer /\ y.pc = x.pc /\ y.sock = "closed"
    BY <2>3 DEF WorkerRec
  <2>6. QED
    BY <1>1, <2>2, <2>4, <2>5 DEF SocketOK
<1>2. CASE x.sock # "open"
  <2>1. x.open = 0
    BY <1>2 DEF WorkerRec, SocketOK
  <2>2. CloseSock(x) = x
    <3>1. CloseSock(x) = [x EXCEPT !.sock = x.sock, !.open = x.open]
      BY <1>2 DEF CloseSock, WorkerRec
    <3>2. QED
      BY <3>1 DEF WorkerRec
  <2>3. QED
    BY <2>1, <2>2
<1>3. QED
  BY <1>1, <1>2

LEMMA StopClosesStep == \A g \in 1..MaxGen : OutInv /\ StopCloses(g) => OutInv'
<1> SUFFICES ASSUME NEW g \in 1..MaxGen, OutInv, StopCloses(g) PROVE OutInv'
  OBVIOUS
<1>1. PICK o \in stopper[g].at :
       \/ /\ wk' = [wk EXCEPT ![<<o, g>>] = CloseSock(@)]
          /\ stopper' = [stopper EXCEPT ![g].pc = "stop", ![g].at = {}]
          /\ UNCHANGED alive
       \/ /\ stopper' = [stopper EXCEPT ![g].pc = "panicked", ![g].at = {}]
          /\ alive' = ~stopper[g].last
          /\ UNCHANGED wk
  BY DEF StopCloses
<1>2. /\ stopper[g] \in StopperRec /\ stopper[g].pc # "idle" /\ g <= gen
      /\ stopper[g].todo \cup stopper[g].at \subseteq Setups[g]
      /\ stopper \in [1..MaxGen -> StopperRec] /\ wk \in [Workers -> WorkerRec]
  BY Started DEF StopCloses, OutInv, OutShape, OutTypeOK, StopperOK, StopperRec, WorkerRec
<1>3. PICK w \in Workers : w = <<o, g>> /\ w[2] = g
  <2>1. o \in Setups[g] /\ Setups[g] \subseteq Outs
    BY <1>2, OutputsAssumption
  <2>2. <<o, g>> \in Workers /\ <<o, g>>[2] = g
    BY <2>1, WorkersAre
  <2>3. QED
    BY <2>2
<1>4. wk[w] \in WorkerRec /\ SocketOK(wk[w])
  BY Started DEF OutInv, OutShape
<1>5. ASSUME NEW pc \in {"stop", "panicked"},
             stopper' = [stopper EXCEPT ![g].pc = pc, ![g].at = {}]
      PROVE  /\ stopper' \in [1..MaxGen -> StopperRec]
             /\ \A k \in 1..MaxGen : StopperOK(k, stopper'[k])
  <2>1. PICK q : q = [stopper[g] EXCEPT !.pc = pc, !.at = {}]
    OBVIOUS
  <2>2. q \in StopperRec /\ q.todo \cup q.at \subseteq Setups[g]
    BY <1>2, <2>1 DEF StopperRec
  <2>3. stopper' = [stopper EXCEPT ![g] = q]
    BY <1>2, <1>5, <2>1
  <2>4. QED
    BY <1>2, <2>2, <2>3, StopperMoves
<1>6. owed' = owed /\ UNCHANGED <<gen, running, dispatched>> /\ alive' \in BOOLEAN
  BY <1>1, <1>2 DEF StopCloses, OutInv, OutShape, OutTypeOK, StopperRec
<1>7. PICK r : /\ r \in WorkerRec /\ SocketOK(r) /\ Hand(r) = InHand(w)
               /\ wk' = [wk EXCEPT ![w] = r]
  <2>1. CASE wk' = [wk EXCEPT ![<<o, g>>] = CloseSock(@)]
    <3>1. PICK r : r = CloseSock(wk[w])
      OBVIOUS
    <3>2. r \in WorkerRec /\ SocketOK(r) /\ Hand(r) = InHand(w)
      BY <1>4, <3>1, Closing DEF Hand, InHand
    <3>3. wk' = [wk EXCEPT ![w] = r]
      BY <1>2, <1>3, <2>1, <3>1
    <3>4. QED
      BY <3>2, <3>3
  <2>2. CASE wk' = wk
    BY <1>2, <1>4, <2>2 DEF Hand, InHand
  <2>3. QED
    BY <1>1, <2>1, <2>2
<1>8. /\ stopper' \in [1..MaxGen -> StopperRec]
      /\ \A k \in 1..MaxGen : StopperOK(k, stopper'[k])
  BY <1>1, <1>5
<1>9. QED
  BY <1>2, <1>3, <1>6, <1>7, <1>8, WorkerMoves

LEMMA StopReturnsStep == \A g \in 1..MaxGen : OutInv /\ StopReturns(g) => OutInv'
<1> SUFFICES ASSUME NEW g \in 1..MaxGen, OutInv, StopReturns(g) PROVE OutInv'
  OBVIOUS
<1>1. /\ stopper[g] \in StopperRec /\ stopper[g].pc # "idle"
      /\ stopper[g].todo \cup stopper[g].at \subseteq Setups[g]
      /\ stopper \in [1..MaxGen -> StopperRec]
  BY Started DEF StopReturns, OutInv, OutShape, OutTypeOK, StopperOK, StopperRec
<1>2. PICK q : q = [stopper[g] EXCEPT !.pc = "over"]
  OBVIOUS
<1>3. q \in StopperRec /\ q.todo \cup q.at \subseteq Setups[g]
  BY <1>1, <1>2 DEF StopperRec
<1>4. stopper' = [stopper EXCEPT ![g] = q]
  BY <1>1, <1>2 DEF StopReturns
<1>5. /\ stopper' \in [1..MaxGen -> StopperRec]
      /\ \A k \in 1..MaxGen : StopperOK(k, stopper'[k])
  BY <1>1, <1>3, <1>4, StopperMoves
<1>6. UNCHANGED <<gen, running, wk, owed, dispatched, alive>>
  BY DEF StopReturns
<1>7. OutShape'
  BY <1>5, <1>6 DEF OutInv, OutShape, OutTypeOK, StopperRec, StopperOK
<1>8. ASSUME NEW o \in Outs
      PROVE  owed'[o] = Total(Hands', WorkersOf(o)) /\ owed'[o] <= dispatched'
  <2>1. Total(Hands', WorkersOf(o)) = Total(Hands, WorkersOf(o))
    BY <1>6, NoHandChanges DEF WorkersOf, InHand
  <2>2. QED
    BY <1>6, <2>1 DEF OutInv, HandsOwe
<1>9. QED
  BY <1>7, <1>8 DEF OutInv, HandsOwe

\* The steps of a worker alone, by the record they leave it with.
LEMMA WorkerStepInv == \A w \in Workers : OutInv /\ WorkerStep(w) => OutInv'
<1> SUFFICES ASSUME NEW w \in Workers, OutInv, WorkerStep(w) PROVE OutInv'
  OBVIOUS
<1>1. /\ wk \in [Workers -> WorkerRec] /\ wk[w] \in WorkerRec /\ SocketOK(wk[w])
      /\ wk[w].pc # "none" => w[2] <= gen
  BY Started DEF OutInv, OutShape, OutTypeOK, WorkerRec
<1>2. /\ stopper \in [1..MaxGen -> StopperRec]
      /\ \A k \in 1..MaxGen : StopperOK(k, stopper[k])
      /\ alive \in BOOLEAN
  BY DEF OutInv, OutShape, OutTypeOK, StopperRec
<1>3. UNCHANGED <<gen, running, stopper, dispatched, alive>> /\ w[2] <= gen
  BY <1>1 DEF WorkerStep, Quit, TakeMsg, Dial, WriteOK, WriteError
<1>4. PICK r : /\ r \in WorkerRec /\ SocketOK(r) /\ wk' = [wk EXCEPT ![w] = r]
               /\ \/ owed' = owed /\ Hand(r) = InHand(w)
                  \/ owed' = [owed EXCEPT ![w[1]] = @ - 1] /\ Hand(r) = InHand(w) - 1
  <2>1. CASE Quit(w)
    <3>1. PICK r : r = [wk[w] EXCEPT !.pc = "ended"]
      OBVIOUS
    <3>2. r \in WorkerRec /\ SocketOK(r) /\ Hand(r) = InHand(w)
      BY <1>1, <2>1, <3>1 DEF Quit, SocketOK, Hand, InHand, WorkerRec
    <3>3. QED
      BY <1>1, <2>1, <3>1, <3>2 DEF Quit
  <2>2. CASE TakeMsg(w)
    <3>1. PICK r : r = [wk[w] EXCEPT !.buffer = @ - 1, !.attempt = 0,
                          !.pc = IF wk[w].sock = "nil" THEN "dial" ELSE "write"]
      OBVIOUS
    <3>2. wk[w].buffer \in 1..BufferSize
      BY <1>1, <2>2, OutputsAssumption DEF TakeMsg, WorkerRec
    <3>3. r \in WorkerRec
      <4>1. wk[w].buffer - 1 \in 0..BufferSize
        BY <3>2, OutputsAssumption
      <4>2. PICK b, p : b = wk[w].buffer - 1 /\ p = IF wk[w].sock = "nil" THEN "dial" ELSE "write"
        OBVIOUS
      <4>3. r = [wk[w] EXCEPT !.buffer = b, !.attempt = 0, !.pc = p]
        BY <1>1, <3>1, <4>2 DEF WorkerRec
      <4>4. p \in {"none", "select", "dial", "write", "ended"} /\ b \in 0..BufferSize
        BY <4>1, <4>2
      <4>5. r = [pc |-> p, buffer |-> b, attempt |-> 0, sock |-> wk[w].sock,
                 open |-> wk[w].open, done |-> wk[w].done]
        BY <1>1, <4>3 DEF WorkerRec
      <4>6. QED
        BY <1>1, <4>4, <4>5 DEF WorkerRec
    <3>4. SocketOK(r)
      BY <1>1, <3>1 DEF SocketOK, WorkerRec
    <3>5. Hand(r) = InHand(w)
      BY <1>1, <2>2, <3>1, <3>2, OutputsAssumption DEF TakeMsg, Hand, InHand, WorkerRec
    <3>6. wk' = [wk EXCEPT ![w] = r] /\ owed' = owed
      BY <1>1, <2>2, <3>1 DEF TakeMsg
    <3>7. QED
      BY <3>3, <3>4, <3>5, <3>6
  <2>3. CASE /\ wk[w].pc = "dial" /\ UNCHANGED owed
             /\ wk' = [wk EXCEPT ![w].pc = "write", ![w].sock = "open", ![w].open = @ + 1]
    <3>1. PICK r : r = [wk[w] EXCEPT !.pc = "write", !.sock = "open", !.open = @ + 1]
      OBVIOUS
    <3>2. wk[w].open = 0
      BY <1>1, <2>3 DEF SocketOK, WorkerRec
    <3>3. r \in WorkerRec /\ SocketOK(r) /\ Hand(r) = InHand(w)
      BY <1>1, <2>3, <3>1, <3>2 DEF SocketOK, Hand, InHand, WorkerRec
    <3>4. wk' = [wk EXCEPT ![w] = r]
      BY <1>1, <2>3, <3>1
    <3>5. QED
      BY <2>3, <3>3, <3>4
  <2>4. CASE /\ wk[w].pc \in {"dial", "write"} /\ wk' = [wk EXCEPT ![w].pc = "select"]
             /\ Counted(w[1])
    <3>1. PICK r : r = [wk[w] EXCEPT !.pc = "select"]
      OBVIOUS
    <3>2. r \in WorkerRec /\ SocketOK(r)
      BY <1>1, <3>1 DEF SocketOK, WorkerRec
    <3>3. Hand(r) = InHand(w) - 1
      BY <1>1, <2>4, <3>1, OutputsAssumption DEF Hand, InHand, WorkerRec
    <3>4. QED
      BY <1>1, <2>4, <3>1, <3>2, <3>3 DEF Counted
  <2>5. CASE WriteError(w)
    <3>1. PICK y, f : y = CloseSock(wk[w]) /\ f = [y EXCEPT !.sock = "nil"]
      OBVIOUS
    <3>2. f \in WorkerRec /\ f.open = 0 /\ f.sock = "nil" /\ f.buffer = wk[w].buffer
      <4>1. y \in WorkerRec /\ y.open = 0 /\ y.buffer = wk[w].buffer
        BY <1>1, <3>1, Closing
      <4>2. QED
        BY <3>1, <4>1 DEF WorkerRec
    <3>3. wk[w].pc = "write" /\ wk[w].attempt \in 0..1 /\ Again(wk[w].attempt) = wk[w].attempt + 1
      BY <1>1, <2>5 DEF WriteError, Again, WorkerRec
    <3>4. CASE Again(wk[w].attempt) < 2
      <4>1. PICK r : r = [f EXCEPT !.pc = "dial", !.attempt = Again(wk[w].attempt)]
        OBVIOUS
      <4>2. Again(wk[w].attempt) \in 0..1
        BY <3>3, <3>4
      <4>3. r \in WorkerRec /\ SocketOK(r)
        <5>1. PICK n \in 0..1 : n = Again(wk[w].attempt)
          BY <4>2
        <5>2. r = [f EXCEPT !.pc = "dial", !.attempt = n]
          BY <4>1, <5>1
        <5>3. r \in WorkerRec
          BY <3>2, <5>2 DEF WorkerRec
        <5>4. SocketOK(r)
          BY <3>2, <5>2 DEF WorkerRec, SocketOK
        <5>5. QED
          BY <5>3, <5>4
      <4>4. Hand(r) = InHand(w)
        BY <3>2, <3>3, <4>1 DEF Hand, InHand, WorkerRec
      <4>5. wk' = [wk EXCEPT ![w] = r] /\ owed' = owed
        BY <2>5, <3>1, <3>4, <4>1 DEF WriteError
      <4>6. QED
        BY <4>3, <4>4, <4>5
    <3>5. CASE ~(Again(wk[w].attempt) < 2)
      <4>1. PICK r : r = [f EXCEPT !.pc = "select"]
        OBVIOUS
      <4>2. r \in WorkerRec /\ SocketOK(r)
        BY <3>2, <4>1 DEF SocketOK, WorkerRec
      <4>3. Hand(r) = InHand(w) - 1
        BY <1>1, <3>2, <3>3, <4>1, OutputsAssumption DEF Hand, InHand, WorkerRec
      <4>4. wk' = [wk EXCEPT ![w] = r] /\ Counted(w[1])
        BY <2>5, <3>1, <3>5, <4>1 DEF WriteError
      <4>5. QED
        BY <4>2, <4>3, <4>4 DEF Counted
    <3>6. QED
      BY <3>4, <3>5
  <2>6. QED
    BY <2>1, <2>2, <2>3, <2>4, <2>5 DEF WorkerStep, Dial, WriteOK
<1>5. QED
  BY <1>2, <1>3, <1>4, WorkerMoves

LEMMA OutputsStep == OutInv /\ [OutNext]_outvars => OutInv'
<1> SUFFICES ASSUME OutInv, [OutNext]_outvars PROVE OutInv'
  OBVIOUS
<1>1. CASE SetOutputs
  BY <1>1, SetOutputsStep
<1>2. CASE StopAll
  BY <1>2, StopAllStep
<1>3. CASE Dispatch
  BY <1>3, DispatchStep
<1>4. CASE \E g \in 1..MaxGen : StopStep(g)
  BY <1>4, StopLooksStep, StopClosesStep, StopReturnsStep DEF StopStep
<1>5. CASE \E w \in Workers : WorkerStep(w)
  BY <1>5, WorkerStepInv
<1>6. CASE UNCHANGED outvars
  <2>1. OutShape'
    BY <1>6 DEF outvars, OutInv, OutShape, OutTypeOK, StopperOK
  <2>2. ASSUME NEW o \in Outs
        PROVE  owed'[o] = Total(Hands', WorkersOf(o)) /\ owed'[o] <= dispatched'
    <3>1. Total(Hands', WorkersOf(o)) = Total(Hands, WorkersOf(o))
      BY <1>6, NoHandChanges DEF outvars, WorkersOf, InHand
    <3>2. QED
      BY <1>6, <3>1 DEF outvars, OutInv, HandsOwe
  <2>3. QED
    BY <2>1, <2>2 DEF OutInv, HandsOwe
<1>7. QED
  BY <1>1, <1>2, <1>3, <1>4, <1>5, <1>6 DEF OutNext

LEMMA HandsOweAll == OutInv => OutTypeOK /\ EveryMessageCounted
  BY FoldOfHands DEF OutInv, OutShape, HandsOwe, EveryMessageCounted

\* The variables keep their types.
THEOREM OutTypeCorrect == OutInit /\ [][OutNext]_outvars => []OutTypeOK
<1>1. OutInv => OutTypeOK
  BY HandsOweAll
<1>2. QED
  BY <1>1, OutStarts, OutputsStep, PTL

\* Every message an output was given is counted once, as sent or as failed, or waits in a
\* worker (Dispatch, worker.run, deliver and stop, output.go), for any outputs, buffers
\* and generations.
THEOREM MessagesCounted == OutInit /\ [][OutNext]_outvars => []EveryMessageCounted
<1>1. OutInv => EveryMessageCounted
  BY HandsOweAll
<1>2. QED
  BY <1>1, OutStarts, OutputsStep, PTL

-----------------------------------------------------------------------------
(* Fleet.                                                                   *)

\* Secrets are numbers up to the last one generated.
Row(n)   == [there : BOOLEAN, secret : 0..n, files : SUBSET Paths]
Agent(n) == [pc : {"down", "register", "upserted", "answered", "wait", "fetch"},
             secret : 0..n, new : 0..n, files : SUBSET Paths, first : BOOLEAN]

\* A registration nobody waits for is one that failed, or that a restart left behind.
FleetInv ==
  /\ issued \in Nat /\ row \in Row(issued) /\ agent \in Agent(issued) /\ disk \in 0..issued
  /\ late \in Nat /\ late <= lost + restarts
  /\ tailing \subseteq Paths /\ present \subseteq Paths
  /\ edits \in 0..MaxEdits /\ lost \in 0..MaxLost /\ restarts \in 0..MaxRestarts

LEMMA SecretsStay ==
  ASSUME NEW n \in Nat
  PROVE  Row(n) \subseteq Row(n + 1) /\ Agent(n) \subseteq Agent(n + 1) /\ 0..n \subseteq 0..(n + 1)
  BY DEF Row, Agent

LEMMA FleetStarts == FleetInit => FleetInv
  BY FleetAssumption DEF FleetInit, FleetInv, NoRow, NoAgent, Row, Agent

LEMMA FleetInvType == FleetInv => FleetTypeOK
<1> SUFFICES ASSUME FleetInv PROVE FleetTypeOK
  OBVIOUS
<1>1. late \in 0..(MaxLost + MaxRestarts)
  BY FleetAssumption DEF FleetInv
<1>2. QED
  BY <1>1 DEF FleetInv, FleetTypeOK, Row, Agent

\* The steps of the agent that generate no secret.
LEMMA AgentMoves ==
  ASSUME FleetInv, agent' \in Agent(issued), UNCHANGED <<row, issued, present, edits>>,
         disk' \in 0..issued, tailing' \subseteq Paths,
         lost' \in 0..MaxLost, restarts' \in 0..MaxRestarts, late' \in Nat,
         \/ late' = late /\ lost' \in {lost, lost + 1} /\ restarts' = restarts
         \/ late' \in {late, late + 1} /\ lost' = lost + 1 /\ restarts' = restarts
         \/ late' \in {late, late + 1} /\ lost' = lost /\ restarts' = restarts + 1
  PROVE  FleetInv'
<1>1. /\ late \in Int /\ lost \in Int /\ restarts \in Int
  BY FleetAssumption DEF FleetInv
<1>2. late <= lost + restarts
  BY DEF FleetInv
<1>3. late' <= lost' + restarts'
  <2>1. CASE late' = late /\ lost' \in {lost, lost + 1} /\ restarts' = restarts
    <3>1. CASE lost' = lost
      BY <1>2, <2>1, <3>1
    <3>2. CASE lost' = lost + 1
      BY <1>1, <1>2, <2>1, <3>2
    <3>3. QED
      BY <2>1, <3>1, <3>2
  <2>2. CASE late' \in {late, late + 1} /\ lost' = lost + 1 /\ restarts' = restarts
    BY <1>1, <1>2, <2>2
  <2>3. CASE late' \in {late, late + 1} /\ lost' = lost /\ restarts' = restarts + 1
    BY <1>1, <1>2, <2>3
  <2>4. QED
    BY <2>1, <2>2, <2>3
<1>4. QED
  BY <1>3 DEF FleetInv

LEMMA MarkedType == \A files : FleetInv /\ Marked(files) => tailing' \subseteq Paths
  BY DEF FleetInv, Marked

\* Who waits again, and who registers.
LEMMA AgentRecords ==
  ASSUME FleetInv
  PROVE  /\ NoAgent \in Agent(issued)
         /\ \A s \in 0..issued : /\ [Waits EXCEPT !.secret = s] \in Agent(issued)
                                /\ [NoAgent EXCEPT !.pc = "register", !.secret = s, !.first = TRUE]
                                     \in Agent(issued)
         /\ Waits \in Agent(issued)
         /\ \A ok \in BOOLEAN : [agent EXCEPT !.pc = AfterBeat(ok)] \in Agent(issued)
         /\ [agent EXCEPT !.pc = "answered", !.files = row.files] \in Agent(issued)
<1>1. /\ issued \in Nat /\ agent \in Agent(issued) /\ agent.secret \in 0..issued
      /\ row.files \in SUBSET Paths
  BY DEF FleetInv, Agent, Row
<1>2. PICK n : n = NoAgent
  OBVIOUS
<1>3. n \in Agent(issued)
  BY <1>1, <1>2 DEF NoAgent, Agent
<1>4. PICK w : w = Waits
  OBVIOUS
<1>5. w = [n EXCEPT !.pc = "wait", !.secret = agent.secret]
  BY <1>2, <1>4 DEF Waits
<1>6. w \in Agent(issued)
  BY <1>1, <1>3, <1>5 DEF Agent
<1>7. ASSUME NEW s \in 0..issued
      PROVE  /\ [w EXCEPT !.secret = s] \in Agent(issued)
             /\ [n EXCEPT !.pc = "register", !.secret = s, !.first = TRUE] \in Agent(issued)
  BY <1>3, <1>6, <1>7 DEF Agent
<1>8. \A ok \in BOOLEAN : [agent EXCEPT !.pc = AfterBeat(ok)] \in Agent(issued)
  BY <1>1 DEF Agent, AfterBeat
<1>9. [agent EXCEPT !.pc = "answered", !.files = row.files] \in Agent(issued)
  BY <1>1 DEF Agent
<1>10. QED
  BY <1>2, <1>3, <1>4, <1>6, <1>7, <1>8, <1>9

LEMMA FleetStepInv == FleetInv /\ [FleetNext]_flvars => FleetInv'
<1> SUFFICES ASSUME FleetInv, [FleetNext]_flvars PROVE FleetInv'
  OBVIOUS
<1>t. /\ issued \in Nat /\ row \in Row(issued) /\ agent \in Agent(issued) /\ disk \in 0..issued
      /\ late \in Nat /\ late <= lost + restarts
      /\ tailing \subseteq Paths /\ present \subseteq Paths
      /\ edits \in 0..MaxEdits /\ lost \in 0..MaxLost /\ restarts \in 0..MaxRestarts
      /\ late \in Int /\ lost \in Int /\ restarts \in Int
      /\ MaxEdits \in Nat /\ MaxLost \in Nat /\ MaxRestarts \in Nat /\ LocalPaths \subseteq Paths
  BY FleetAssumption DEF FleetInv
<1>1. CASE Start
  <2>1. agent' \in Agent(issued)
    BY <1>1, <1>t, AgentRecords DEF Start
  <2>2. QED
    BY <1>1, <1>t, <2>1, AgentMoves DEF Start
<1>2. CASE Enroll \/ EnrollLate
  <2>1. issued' = issued + 1 /\ row' = [there |-> TRUE, secret |-> issued', files |-> row.files]
    BY <1>2 DEF Enroll, EnrollLate, Upsert
  <2>2. issued' \in Nat /\ row' \in Row(issued')
    BY <1>t, <2>1 DEF Row
  <2>3. agent \in Agent(issued') /\ disk \in 0..issued'
    BY <1>t, <2>1, SecretsStay
  <2>4. agent' \in Agent(issued') /\ late' \in Nat /\ late' <= late
    <3>1. CASE Enroll
      <4>1. agent' = [agent EXCEPT !.pc = "upserted", !.new = issued'] /\ late' = late
        BY <3>1 DEF Enroll
      <4>2. PICK n \in Nat : n = issued' /\ n \in 0..n
        BY <2>2
      <4>3. agent \in Agent(n) /\ agent' = [agent EXCEPT !.pc = "upserted", !.new = n]
        BY <2>3, <4>1, <4>2
      <4>4. agent' \in Agent(n)
        BY <4>2, <4>3 DEF Agent
      <4>5. QED
        BY <1>t, <4>1, <4>2, <4>4
    <3>2. CASE EnrollLate
      BY <1>t, <2>3, <3>2 DEF EnrollLate
    <3>3. QED
      BY <1>2, <3>1, <3>2
  <2>5. UNCHANGED <<disk, tailing, present, edits, lost, restarts>>
    BY <1>2 DEF Enroll, EnrollLate
  <2>6. late' <= lost + restarts
    BY <1>t, <2>4
  <2>7. QED
    BY <1>t, <2>2, <2>3, <2>4, <2>5, <2>6 DEF FleetInv
<1>3. CASE Answer
  <2>1. agent' \in Agent(issued)
    BY <1>3, AgentRecords DEF Answer
  <2>2. UNCHANGED <<row, issued, late, disk, tailing, present, edits, lost, restarts>>
    BY <1>3 DEF Answer
  <2>3. QED
    BY <1>t, <2>1, <2>2, AgentMoves
<1>4. CASE Registered
  <2>1. agent.new \in 0..issued
    BY <1>t DEF Agent
  <2>2. agent' \in Agent(issued) /\ disk' \in 0..issued
    BY <1>4, <1>t, <2>1, AgentRecords DEF Registered
  <2>3. tailing' \subseteq Paths
    BY <1>4, MarkedType DEF Registered
  <2>4. lost' \in {lost, lost + 1} /\ lost' \in 0..MaxLost
    BY <1>4, <1>t DEF Registered
  <2>5. UNCHANGED <<row, issued, late, present, edits, restarts>>
    BY <1>4 DEF Registered
  <2>6. QED
    BY <1>t, <2>2, <2>3, <2>4, <2>5, AgentMoves
<1>5. CASE RegisterFails
  <2>1. agent' \in Agent(issued) /\ tailing' \subseteq Paths
    BY <1>5, AgentRecords, MarkedType DEF RegisterFails
  <2>2. late' \in {late, late + 1} /\ lost' = lost + 1 /\ lost' \in 0..MaxLost
    BY <1>5, <1>t DEF RegisterFails
  <2>3. UNCHANGED <<row, issued, disk, present, edits, restarts>>
    BY <1>5 DEF RegisterFails
  <2>4. late' \in Nat
    BY <1>t, <2>2
  <2>5. QED
    BY <1>t, <2>1, <2>2, <2>3, <2>4, AgentMoves
<1>6. CASE Beat \/ BeatFails
  <2>1. agent' \in Agent(issued)
    BY <1>6, AgentRecords DEF Beat, BeatFails, Authentic
  <2>2. lost' \in {lost, lost + 1} /\ lost' \in 0..MaxLost
    <3>1. CASE Beat
      BY <1>t, <3>1 DEF Beat
    <3>2. CASE BeatFails
      BY <1>t, <3>2 DEF BeatFails
    <3>3. QED
      BY <1>6, <3>1, <3>2
  <2>3. UNCHANGED <<row, issued, late, disk, tailing, present, edits, restarts>>
    BY <1>6 DEF Beat, BeatFails
  <2>4. QED
    BY <1>t, <2>1, <2>2, <2>3, AgentMoves
<1>7. CASE Fetch \/ FetchFails
  <2>1. agent' \in Agent(issued)
    BY <1>7, AgentRecords DEF Fetch, FetchFails
  <2>2. tailing' \subseteq Paths
    BY <1>7, <1>t, MarkedType DEF Fetch, FetchFails
  <2>3. lost' \in {lost, lost + 1} /\ lost' \in 0..MaxLost
    <3>1. CASE Fetch
      BY <1>t, <3>1 DEF Fetch
    <3>2. CASE FetchFails
      BY <1>t, <3>2 DEF FetchFails
    <3>3. QED
      BY <1>7, <3>1, <3>2
  <2>4. UNCHANGED <<row, issued, late, disk, present, edits, restarts>>
    BY <1>7 DEF Fetch, FetchFails
  <2>5. QED
    BY <1>t, <2>1, <2>2, <2>3, <2>4, AgentMoves
<1>8. CASE Restart
  <2>1. agent' \in Agent(issued) /\ tailing' \subseteq Paths
    BY <1>8, AgentRecords DEF Restart
  <2>2. late' \in {late, late + 1} /\ restarts' = restarts + 1 /\ restarts' \in 0..MaxRestarts
    BY <1>8, <1>t DEF Restart
  <2>3. UNCHANGED <<row, issued, disk, present, edits, lost>>
    BY <1>8 DEF Restart
  <2>4. late' \in Nat
    BY <1>t, <2>2
  <2>5. QED
    BY <1>t, <2>1, <2>2, <2>3, <2>4, AgentMoves
<1>9. CASE Configure \/ Delete
  <2>1. row' \in Row(issued)
    <3>1. CASE Configure
      BY <1>t, <3>1 DEF Configure, Row
    <3>2. CASE Delete
      BY <1>t, <3>2 DEF Delete, Row, NoRow
    <3>3. QED
      BY <1>9, <3>1, <3>2
  <2>2. edits' \in 0..MaxEdits
    BY <1>9, <1>t DEF Configure, Delete
  <2>3. UNCHANGED <<issued, late, agent, disk, tailing, present, lost, restarts>>
    BY <1>9 DEF Configure, Delete
  <2>4. QED
    BY <1>t, <2>1, <2>2, <2>3 DEF FleetInv
<1>10. CASE \E p \in Paths : Appears(p)
  BY <1>10, <1>t DEF Appears, FleetInv
<1>11. CASE UNCHANGED flvars
  BY <1>11, <1>t DEF flvars, FleetInv
<1>12. QED
  BY <1>1, <1>2, <1>3, <1>4, <1>5, <1>6, <1>7, <1>8, <1>9, <1>10, <1>11 DEF FleetNext, Round

-----------------------------------------------------------------------------
(* Docker.                                                                  *)

\* The containers a goroutine follows.
Followed == {c \in Containers : followers[c] = 1}

Inspecting == watch \in {"inspect", "inspectEvent"}

\* Start events are no more than starts.
EventsCounted == events \in Seq(Containers) /\ Len(events) <= starts

\* The flag of a container is set while it is followed, and while startFollow inspects
\* it, before there is a follower.
FlagIsSet ==
  /\ followers \in [Containers -> 0..1]
  /\ Followed \subseteq following
  /\ Inspecting => \E c \in Containers \ Followed : todo.at = {c} /\ c \in following

\* The wait group counts the goroutine of Start and every follower.
GroupCounts ==
  wg = Cardinality(Followed) + IF watch = "ended" THEN 0 ELSE 1

NoneAfterStop == stop = "nil" => watch = "ended" /\ Followed = {}

DockerInv ==
  DockerTypeOK /\ EventsCounted /\ FlagIsSet /\ GroupCounts /\ NoneAfterStop

LEMMA FollowedFinite == IsFiniteSet(Followed) /\ Cardinality(Followed) \in Nat
<1>1. IsFiniteSet(Followed)
  BY DockerAssumption, FS_Subset DEF Followed
<1>2. QED
  BY <1>1, FS_CardinalityType

LEMMA DockerStarts == DockerInit => DockerInv
<1> SUFFICES ASSUME DockerInit PROVE DockerInv
  OBVIOUS
<1>1. Followed = {}
  BY DEF DockerInit, Followed
<1>2. GroupCounts
  BY <1>1, FS_EmptySet DEF GroupCounts, DockerInit
<1>3. DockerTypeOK /\ EventsCounted
  BY DockerAssumption DEF DockerInit, DockerTypeOK, EventsCounted
<1>4. FlagIsSet /\ NoneAfterStop
  BY <1>1 DEF DockerInit, FlagIsSet, NoneAfterStop, Inspecting
<1>5. QED
  BY <1>2, <1>3, <1>4 DEF DockerInv

\* Steps that start no follower and end none.
LEMMA FollowersKept ==
  ASSUME DockerInv, followers' = followers, wg' = wg,
         watch' = "ended" <=> watch = "ended", stop' \in {stop, "waits", "error"},
         following \subseteq following',
         Inspecting' => \E c \in Containers \ Followed : todo'.at = {c} /\ c \in following'
  PROVE  FlagIsSet' /\ GroupCounts' /\ NoneAfterStop'
<1>1. Followed' = Followed
  BY DEF Followed
<1>2. FlagIsSet'
  BY <1>1 DEF DockerInv, FlagIsSet
<1>3. QED
  BY <1>1, <1>2 DEF DockerInv, GroupCounts, NoneAfterStop

\* startFollow takes the container on only when its flag was not set: nobody follows it.
LEMMA StartFollowStep ==
  ASSUME DockerInv, NEW c \in Containers, NEW next \in {"each", "events"},
         NEW busy \in {"inspect", "inspectEvent"}, StartFollow(c, next, busy),
         UNCHANGED <<followers, wg, stop>>, watch # "ended"
  PROVE  /\ FlagIsSet' /\ GroupCounts' /\ NoneAfterStop'
         /\ watch' \in {next, busy} /\ following' \subseteq Containers
         /\ todo' \in [rest : SUBSET Containers, at : SUBSET Containers]
<1>1. /\ watch' = IF c \in following THEN next ELSE busy
      /\ following' = following \cup {c}
      /\ todo'.rest = todo.rest \ {c} /\ todo'.at = {c} \ following
  BY DEF StartFollow
<1>2. c \notin following => c \notin Followed
  BY DEF DockerInv, FlagIsSet
<1>3. Inspecting' => \E k \in Containers \ Followed : todo'.at = {k} /\ k \in following'
  BY <1>1, <1>2 DEF Inspecting
<1>4. watch' # "ended" /\ following \subseteq following'
  BY <1>1
<1>5. FlagIsSet' /\ GroupCounts' /\ NoneAfterStop'
  BY <1>3, <1>4, FollowersKept
<1>6. todo' \in [rest : SUBSET Containers, at : SUBSET Containers]
  BY DEF StartFollow, DockerInv, DockerTypeOK
<1>7. QED
  BY <1>1, <1>5, <1>6 DEF DockerInv, DockerTypeOK

LEMMA DockerStep ==
  ASSUME DockerInv, [DockerNext]_dkvars
  PROVE  DockerInv'
<1>t. DockerTypeOK /\ EventsCounted
  BY DEF DockerInv
<1> USE DockerAssumption
<1>1. CASE ContainerStarts \/ ContainerDies
  <2>1. UNCHANGED <<watch, todo, following, followers, wg, stop>>
    BY <1>1 DEF ContainerStarts, ContainerDies
  <2>2. FlagIsSet' /\ GroupCounts' /\ NoneAfterStop'
    BY <2>1, FollowersKept DEF DockerInv, FlagIsSet, Inspecting
  <2>3. DockerTypeOK' /\ EventsCounted'
    <3>1. CASE ContainerDies
      BY <1>t, <2>1, <3>1 DEF ContainerDies, DockerTypeOK, EventsCounted
    <3>2. CASE ContainerStarts
      <4>1. PICK c \in Containers \ up :
              /\ starts < MaxStarts /\ starts' = starts + 1 /\ up' = up \cup {c}
              /\ events' = IF Subscribed THEN Append(events, c) ELSE events
        BY <3>2 DEF ContainerStarts
      <4>2. events' \in Seq(Containers) /\ Len(events') <= Len(events) + 1
        BY <1>t, <4>1 DEF EventsCounted
      <4>3. starts \in Nat /\ Len(events) \in Nat /\ Len(events') \in Nat
        BY <1>t, <4>2 DEF DockerTypeOK, EventsCounted
      <4>4. EventsCounted' /\ starts' \in 0..MaxStarts /\ Len(events') <= MaxStarts
        BY <1>t, <4>1, <4>2, <4>3 DEF EventsCounted, DockerTypeOK
      <4>5. QED
        BY <1>t, <2>1, <4>1, <4>4 DEF DockerTypeOK
    <3>3. QED
      BY <1>1, <3>1, <3>2
  <2>4. QED
    BY <2>2, <2>3 DEF DockerInv
<1>2. CASE WatchEnds
  <2>1. /\ watch # "ended" /\ watch' = "ended" /\ wg' = wg - 1
        /\ UNCHANGED <<up, starts, todo, events, following, followers, stop>>
    BY <1>2 DEF WatchEnds
  <2>2. Followed' = Followed
    BY <2>1 DEF Followed
  <2>3. GroupCounts' /\ wg' \in Nat
    BY <2>1, <2>2, FollowedFinite DEF DockerInv, GroupCounts
  <2>4. FlagIsSet' /\ NoneAfterStop'
    BY <2>1, <2>2 DEF DockerInv, FlagIsSet, NoneAfterStop, Inspecting
  <2>5. DockerTypeOK' /\ EventsCounted'
    BY <1>t, <2>1, <2>3 DEF DockerTypeOK, EventsCounted
  <2>6. QED
    BY <2>3, <2>4, <2>5 DEF DockerInv
<1>3. CASE WatchAgain \/ List \/ Subscribe \/ EventsEnd
  <2>1. /\ UNCHANGED <<up, starts, following, followers, wg, stop>>
        /\ watch # "ended" /\ watch' \in {"top", "list", "each", "events", "pause"}
    BY <1>3 DEF WatchAgain, List, Subscribe, EventsEnd
  <2>2. FlagIsSet' /\ GroupCounts' /\ NoneAfterStop'
    BY <2>1, FollowersKept DEF Inspecting
  <2>3. todo' \in [rest : SUBSET Containers, at : SUBSET Containers]
    BY <1>3, <1>t DEF WatchAgain, List, Subscribe, EventsEnd, DockerTypeOK
  <2>4. events' \in Seq(Containers) /\ Len(events') <= Len(events)
    <3>1. events' = events \/ events' = <<>>
      BY <1>3 DEF WatchAgain, List, Subscribe, EventsEnd
    <3>2. Len(events) \in Nat
      BY <1>t DEF EventsCounted
    <3>3. CASE events' = <<>>
      <4>1. events' \in Seq(Containers) /\ Len(events') = 0
        BY <3>3
      <4>2. QED
        BY <3>2, <4>1
    <3>4. CASE events' = events
      BY <1>t, <3>2, <3>4 DEF EventsCounted
    <3>5. QED
      BY <3>1, <3>3, <3>4
  <2>5. starts \in Nat /\ Len(events) \in Nat /\ Len(events') \in Nat
    BY <1>t, <2>4 DEF EventsCounted, DockerTypeOK
  <2>6. DockerTypeOK' /\ EventsCounted'
    BY <1>t, <2>1, <2>3, <2>4, <2>5 DEF DockerTypeOK, EventsCounted
  <2>7. QED
    BY <2>2, <2>6 DEF DockerInv
<1>4. CASE FollowListed
  <2>1. watch = "each" /\ UNCHANGED <<up, starts, events, followers, wg, stop>>
    BY <1>4 DEF FollowListed
  <2>2. CASE todo.rest = {}
    <3>1. watch' = "subscribe" /\ UNCHANGED <<todo, following>>
      BY <1>4, <2>2 DEF FollowListed
    <3>2. FlagIsSet' /\ GroupCounts' /\ NoneAfterStop'
      BY <2>1, <3>1, FollowersKept DEF Inspecting
    <3>3. QED
      BY <1>t, <2>1, <3>1, <3>2 DEF DockerInv, DockerTypeOK, EventsCounted
  <2>3. CASE todo.rest # {}
    <3>1. PICK c \in todo.rest : StartFollow(c, "each", "inspect")
      BY <1>4, <2>3 DEF FollowListed
    <3>2. c \in Containers
      BY <1>t DEF DockerTypeOK
    <3>3. QED
      BY <1>t, <2>1, <3>1, <3>2, StartFollowStep DEF DockerInv, DockerTypeOK, EventsCounted
  <2>4. QED
    BY <2>2, <2>3
<1>5. CASE FollowStarted
  <2>1. /\ watch = "events" /\ events # <<>> /\ events' = Tail(events)
        /\ StartFollow(Head(events), "events", "inspectEvent")
        /\ UNCHANGED <<up, starts, followers, wg, stop>>
    BY <1>5 DEF FollowStarted
  <2>2. /\ Head(events) \in Containers /\ events' \in Seq(Containers)
        /\ Len(events') = Len(events) - 1 /\ Len(events) \in Nat
    BY <1>t, <2>1 DEF EventsCounted
  <2>3. EventsCounted' /\ Len(events') <= MaxStarts
    BY <1>t, <2>1, <2>2 DEF EventsCounted, DockerTypeOK
  <2>4. QED
    BY <1>t, <2>1, <2>2, <2>3, StartFollowStep DEF DockerInv, DockerTypeOK
<1>6. CASE Spawn
  <2>1. /\ Inspecting /\ wg' = wg + 1 /\ watch' \in {"each", "events"}
        /\ followers' = [c \in Containers |-> followers[c] + IF c \in todo.at THEN 1 ELSE 0]
        /\ todo' = [todo EXCEPT !.at = {}]
        /\ UNCHANGED <<up, starts, events, following, stop>>
    BY <1>6 DEF Spawn, Inspecting, Counter
  <2>2. PICK c \in Containers \ Followed : todo.at = {c} /\ c \in following
    BY <2>1 DEF DockerInv, FlagIsSet
  <2>3. followers' \in [Containers -> 0..1] /\ Followed' = Followed \cup {c}
    BY <2>1, <2>2 DEF DockerInv, FlagIsSet, Followed
  <2>4. Cardinality(Followed') = Cardinality(Followed) + 1
    BY <2>2, <2>3, FollowedFinite, FS_AddElement
  <2>5. watch # "ended" /\ watch' # "ended"
    BY <2>1 DEF Inspecting
  <2>6. GroupCounts' /\ wg' \in Nat
    BY <2>1, <2>4, <2>5, FollowedFinite DEF DockerInv, GroupCounts
  <2>7. FlagIsSet' /\ NoneAfterStop'
    BY <2>1, <2>2, <2>3, <2>5 DEF DockerInv, FlagIsSet, NoneAfterStop, Inspecting
  <2>8. DockerTypeOK' /\ EventsCounted'
    BY <1>t, <2>1, <2>3, <2>6 DEF DockerTypeOK, EventsCounted
  <2>9. QED
    BY <2>6, <2>7, <2>8 DEF DockerInv
<1>7. CASE FollowEnds
  <2>1. PICK c \in Containers :
          /\ followers[c] > 0
          /\ followers' = [followers EXCEPT ![c] = @ - 1]
          /\ following' = following \ {c}
    BY <1>7 DEF FollowEnds
  <2>2. wg' = wg - 1 /\ UNCHANGED <<up, starts, watch, todo, events, stop>>
    BY <1>7 DEF FollowEnds
  <2>3. /\ c \in Followed /\ Followed' = Followed \ {c}
        /\ followers' \in [Containers -> 0..1]
    BY <2>1 DEF DockerInv, FlagIsSet, Followed
  <2>4. Cardinality(Followed') = Cardinality(Followed) - 1
    BY <2>3, FollowedFinite, FS_RemoveElement
  <2>5. IsFiniteSet(Followed') /\ Cardinality(Followed') \in Nat
    BY <2>3, FollowedFinite, FS_RemoveElement, FS_CardinalityType
  <2>6. GroupCounts' /\ wg' \in Nat
    BY <2>2, <2>4, <2>5, FollowedFinite DEF DockerInv, GroupCounts
  <2>7. FlagIsSet'
    BY <2>1, <2>2, <2>3 DEF DockerInv, FlagIsSet, Inspecting
  <2>8. NoneAfterStop'
    BY <2>2, <2>3 DEF DockerInv, NoneAfterStop
  <2>9. DockerTypeOK' /\ EventsCounted'
    BY <1>t, <2>1, <2>2, <2>3, <2>6 DEF DockerTypeOK, EventsCounted
  <2>10. QED
    BY <2>6, <2>7, <2>8, <2>9 DEF DockerInv
<1>8. CASE Stop \/ StopGivesUp
  <2>1. /\ stop' \in {"waits", "error"}
        /\ UNCHANGED <<up, starts, watch, todo, events, following, followers, wg>>
    BY <1>8 DEF Stop, StopGivesUp
  <2>2. FlagIsSet' /\ GroupCounts' /\ NoneAfterStop'
    BY <2>1, FollowersKept DEF DockerInv, FlagIsSet, Inspecting
  <2>3. QED
    BY <1>t, <2>1, <2>2 DEF DockerInv, DockerTypeOK, EventsCounted
<1>9. CASE StopReturnsNil
  <2>1. /\ wg = 0 /\ stop' = "nil"
        /\ UNCHANGED <<up, starts, watch, todo, events, following, followers, wg>>
    BY <1>9 DEF StopReturnsNil
  <2>2. Followed' = Followed
    BY <2>1 DEF Followed
  <2>3. watch = "ended" /\ Cardinality(Followed) = 0
    BY <2>1, FollowedFinite DEF DockerInv, GroupCounts
  <2>4. Followed = {}
    BY <2>3, FollowedFinite, FS_EmptySet
  <2>5. FlagIsSet' /\ GroupCounts' /\ NoneAfterStop'
    BY <2>1, <2>2, <2>3, <2>4
       DEF DockerInv, FlagIsSet, GroupCounts, NoneAfterStop, Inspecting
  <2>6. QED
    BY <1>t, <2>1, <2>5 DEF DockerInv, DockerTypeOK, EventsCounted
<1>10. CASE UNCHANGED dkvars
  <2>1. FlagIsSet' /\ GroupCounts' /\ NoneAfterStop'
    BY <1>10, FollowersKept DEF DockerInv, FlagIsSet, Inspecting, dkvars
  <2>2. QED
    BY <1>t, <1>10, <2>1 DEF DockerInv, DockerTypeOK, EventsCounted, dkvars
<1>11. QED
  BY <1>1, <1>2, <1>3, <1>4, <1>5, <1>6, <1>7, <1>8, <1>9, <1>10 DEF DockerNext

\* However the list, the start events and the ends of containers interleave, no container
\* has two followers, and a Stop that returned without an error has left no goroutine of
\* the input (docker.go:67-79, 194-215).
THEOREM OneFollower == DockerSpec => []OneFollowerNoneAfterStop
<1>1. DockerInv => OneFollowerNoneAfterStop
  BY DEF DockerInv, FlagIsSet, NoneAfterStop, Followed, OneFollowerNoneAfterStop
<1>2. DockerInv /\ [DockerNext]_dkvars => DockerInv'
  BY DockerStep
<1>3. QED
  BY DockerStarts, <1>1, <1>2, PTL DEF DockerSpec

-----------------------------------------------------------------------------
(* GelfChunks.                                                              *)

Chunk == [id : Ids, seq : Nat, at : Nat]

PartMaps == UNION {[D -> Nat] : D \in SUBSET Nat}

Seqs(id) == 0..(Count[id] - 1)

Plain(id) == \A s \in Seqs(id) : <<id, s>> \notin EmptyChunks

\* Datagrams that arrived, for chunks of the message, each in its place.
PartsOK(parts, id) ==
  /\ parts \in PartMaps /\ DOMAIN parts \subseteq Seqs(id)
  /\ \A s \in DOMAIN parts :
       /\ parts[s] \in 1..Len(datagrams)
       /\ datagrams[parts[s]].id = id /\ datagrams[parts[s]].seq = s

\* They came in the time that begins at ts.
InTime(parts, ts) ==
  \A s \in DOMAIN parts :
    ts <= datagrams[parts[s]].at /\ datagrams[parts[s]].at <= ts + Timeout

\* A message that waits counts its parts, and they came since it began to wait.
WaitingOK(p, id) ==
  /\ p \in [parts : PartMaps, received : Int, ts : Nat] /\ p.ts <= now
  /\ PartsOK(p.parts, id) /\ InTime(p.parts, p.ts)
  /\ Plain(id) => p.received = Cardinality(DOMAIN p.parts)

EmittedOK(e) ==
  /\ PartsOK(e.parts, e.id)
  /\ \E ts \in Nat : InTime(e.parts, ts)
  /\ Plain(e.id) => DOMAIN e.parts = Seqs(e.id)

\* No datagram serves two parts.
Apart(f, g) == \A s \in DOMAIN f, t \in DOMAIN g : f[s] # g[t]

GelfShape ==
  /\ now \in Nat /\ datagrams \in Seq(Chunk) /\ DOMAIN msgs \subseteq Ids
  /\ emitted \in Seq([id : Ids, parts : PartMaps])

MsgsOK == \A id \in DOMAIN msgs : WaitingOK(msgs[id], id)

AllEmittedOK == \A i \in 1..Len(emitted) : EmittedOK(emitted[i])

UsedOnce ==
  /\ \A i, k \in 1..Len(emitted) : i # k => Apart(emitted[i].parts, emitted[k].parts)
  /\ \A id \in DOMAIN msgs, i \in 1..Len(emitted) : Apart(msgs[id].parts, emitted[i].parts)

GelfInv == GelfShape /\ MsgsOK /\ AllEmittedOK /\ UsedOnce

-----------------------------------------------------------------------------
(* One chunk.                                                               *)

LEMMA SeqsOfMessage ==
  ASSUME NEW id \in Ids
  PROVE  IsFiniteSet(Seqs(id)) /\ Cardinality(Seqs(id)) = Count[id]
<1>1. Count[id] \in 1..128
  BY GelfAssumption
<1>2. PICK n \in 1..128 : n = Count[id]
  BY <1>1
<1>3. 0 \in Int /\ n - 1 \in Int /\ ~(0 > n - 1) /\ n - 1 - 0 + 1 = n
  OBVIOUS
<1>4. IsFiniteSet(0..(n - 1)) /\ Cardinality(0..(n - 1)) = n
  BY <1>3, FS_Interval
<1> QED BY <1>2, <1>4 DEF Seqs

\* Where a chunk goes: it takes a free place, under a number of its own.
LEMMA WithPartIs ==
  ASSUME NEW p, p.parts \in PartMaps, NEW id, NEW seq \in Nat, Len(datagrams) \in Nat,
         NEW w, w = WithPart(p, id, seq)
  PROVE  /\ w \in PartMaps
         /\ DOMAIN w \subseteq DOMAIN p.parts \cup {seq}
         /\ DOMAIN p.parts \subseteq DOMAIN w
         /\ \A s \in DOMAIN p.parts : w[s] = p.parts[s]
         /\ seq \in DOMAIN w \ DOMAIN p.parts => w[seq] = Len(datagrams) + 1
         /\ <<id, seq>> \notin EmptyChunks => seq \in DOMAIN w
<1>1. CASE seq \in DOMAIN p.parts \/ <<id, seq>> \in EmptyChunks
  BY <1>1 DEF WithPart
<1>2. CASE ~(seq \in DOMAIN p.parts \/ <<id, seq>> \in EmptyChunks)
  <2>1. w = [x \in {seq} \cup DOMAIN p.parts |->
               IF x = seq THEN Len(datagrams) + 1 ELSE p.parts[x]]
    BY <1>2 DEF WithPart, Put
  <2>2. PICK D \in SUBSET Nat : p.parts \in [D -> Nat]
    BY DEF PartMaps
  <2>3. w \in [{seq} \cup D -> Nat]
    BY <2>1, <2>2
  <2>4. w \in PartMaps
    BY <2>3 DEF PartMaps
  <2> QED BY <1>2, <2>1, <2>2, <2>4
<1> QED BY <1>1, <1>2

\* So it serves no part of what was made of earlier datagrams.
LEMMA AddedIsApart ==
  ASSUME NEW p, p.parts \in PartMaps, NEW id, NEW seq \in Nat, Len(datagrams) \in Nat,
         NEW w, w = WithPart(p, id, seq),
         NEW g, Apart(p.parts, g), \A t \in DOMAIN g : g[t] \in 1..Len(datagrams)
  PROVE  Apart(w, g)
<1>1. CASE seq \in DOMAIN p.parts \/ <<id, seq>> \in EmptyChunks
  BY <1>1 DEF WithPart
<1>2. CASE ~(seq \in DOMAIN p.parts \/ <<id, seq>> \in EmptyChunks)
  <2>1. w = [x \in DOMAIN p.parts \cup {seq} |->
               IF x = seq THEN Len(datagrams) + 1 ELSE p.parts[x]]
    BY <1>2 DEF WithPart, Put
  <2>2. \A t \in DOMAIN g : g[t] # Len(datagrams) + 1
    OBVIOUS
  <2> QED BY <1>2, <2>1, <2>2 DEF Apart
<1> QED BY <1>1, <1>2

\* What was true of the datagrams that served a part stays true when one more comes.
LEMMA OneMore ==
  ASSUME NEW c \in Chunk, datagrams \in Seq(Chunk), datagrams' = Append(datagrams, c)
  PROVE  /\ datagrams' \in Seq(Chunk)
         /\ Len(datagrams') = Len(datagrams) + 1 /\ Len(datagrams) \in Nat
         /\ datagrams'[Len(datagrams) + 1] = c
         /\ \A n \in 1..Len(datagrams) : datagrams'[n] = datagrams[n]
         /\ \A f, i : PartsOK(f, i) => PartsOK(f, i)'
         /\ \A f, i, ts : PartsOK(f, i) /\ InTime(f, ts) => InTime(f, ts)'
<1>1. /\ datagrams' \in Seq(Chunk)
      /\ Len(datagrams') = Len(datagrams) + 1 /\ Len(datagrams) \in Nat
      /\ datagrams'[Len(datagrams) + 1] = c
      /\ \A n \in 1..Len(datagrams) : datagrams'[n] = datagrams[n]
  BY AppendProperties, LenProperties
<1>2. \A f, i : PartsOK(f, i) => PartsOK(f, i)'
  BY <1>1 DEF PartsOK
<1>3. \A f, i, ts : PartsOK(f, i) /\ InTime(f, ts) => InTime(f, ts)'
  BY <1>1 DEF PartsOK, InTime
<1> QED BY <1>1, <1>2, <1>3

\* A message whose chunk comes, as it is found: waiting, not expired, or begun now.
LEMMA FoundIsWaiting ==
  ASSUME GelfInv, NEW id \in Ids, NEW old,
         old = IF id \in DOMAIN msgs \ Expired THEN msgs[id]
               ELSE [parts |-> NoParts, received |-> 0, ts |-> now]
  PROVE  /\ WaitingOK(old, id) /\ now <= old.ts + Timeout
         /\ \A i \in 1..Len(emitted) : Apart(old.parts, emitted[i].parts)
<1> USE GelfAssumption
<1>1. CASE id \in DOMAIN msgs \ Expired
  <2>1. WaitingOK(msgs[id], id)
    BY <1>1 DEF GelfInv, MsgsOK
  <2>2. msgs[id].ts \in Nat /\ now \in Nat /\ Timeout \in Nat
    BY <2>1 DEF WaitingOK, GelfInv, GelfShape
  <2>3. now <= msgs[id].ts + Timeout
    BY <1>1, <2>2 DEF Expired
  <2> QED BY <1>1, <2>1, <2>3 DEF GelfInv, UsedOnce
<1>2. CASE id \notin DOMAIN msgs \ Expired
  <2>1. NoParts \in [{} -> Nat]
    BY DEF NoParts
  <2>2. NoParts \in PartMaps /\ DOMAIN NoParts = {}
    BY <2>1 DEF PartMaps
  <2>3. old = [parts |-> NoParts, received |-> 0, ts |-> now]
    BY <1>2
  <2>4. now \in Nat /\ Timeout \in Nat
    BY DEF GelfInv, GelfShape
  <2>5. Cardinality(DOMAIN old.parts) = 0
    BY <2>2, <2>3, FS_EmptySet
  <2> QED BY <2>2, <2>3, <2>4, <2>5 DEF WaitingOK, PartsOK, InTime, Apart
<1> QED BY <1>1, <1>2

\* With the chunk in it, it counts its parts still, and came in time.
LEMMA AddedIsWaiting ==
  ASSUME GelfShape, NEW id \in Ids, NEW seq \in Seqs(id),
         NEW old, WaitingOK(old, id), now <= old.ts + Timeout,
         NEW new, new = [parts |-> WithPart(old, id, seq),
                         received |-> Received(old, seq), ts |-> old.ts],
         datagrams' = Append(datagrams, [id |-> id, seq |-> seq, at |-> now]),
         now' = now
  PROVE  WaitingOK(new, id)'
<1> USE GelfAssumption
<1>1. PICK c \in Chunk : c = [id |-> id, seq |-> seq, at |-> now]
  <2>1. now \in Nat /\ seq \in Nat
    BY DEF GelfShape, Seqs
  <2>2. [id |-> id, seq |-> seq, at |-> now] \in [id : Ids, seq : Nat, at : Nat]
    BY <2>1
  <2> QED BY <2>2 DEF Chunk
<1>2. seq \in Nat /\ now \in Nat /\ Timeout \in Nat /\ old.ts \in Nat /\ old.received \in Int
  BY DEF Seqs, GelfShape, WaitingOK
<1>3. /\ Len(datagrams') = Len(datagrams) + 1 /\ Len(datagrams) \in Nat
      /\ datagrams'[Len(datagrams) + 1] = c
      /\ PartsOK(old.parts, id)' /\ InTime(old.parts, old.ts)'
  BY <1>1, OneMore DEF GelfShape, WaitingOK
<1>4. PICK w : w = WithPart(old, id, seq)
  OBVIOUS
<1>5. old.parts \in PartMaps
  BY DEF WaitingOK
<1>6. /\ w \in PartMaps
      /\ DOMAIN w \subseteq DOMAIN old.parts \cup {seq}
      /\ DOMAIN old.parts \subseteq DOMAIN w
      /\ \A s \in DOMAIN old.parts : w[s] = old.parts[s]
      /\ seq \in DOMAIN w \ DOMAIN old.parts => w[seq] = Len(datagrams) + 1
      /\ <<id, seq>> \notin EmptyChunks => seq \in DOMAIN w
  BY <1>2, <1>3, <1>4, <1>5, WithPartIs
<1>7. PICK r : r = Received(old, seq)
  OBVIOUS
<1>8. new = [parts |-> w, received |-> r, ts |-> old.ts] /\ r \in Int
  <2>1. new = [parts |-> w, received |-> r, ts |-> old.ts]
    BY <1>4, <1>7
  <2>2. r \in Int
    BY <1>2, <1>7 DEF Received
  <2> QED BY <2>1, <2>2
<1>9. ASSUME NEW s \in DOMAIN w
      PROVE  /\ s \in Seqs(id) /\ w[s] \in 1..Len(datagrams')
             /\ datagrams'[w[s]].id = id /\ datagrams'[w[s]].seq = s
             /\ old.ts <= datagrams'[w[s]].at /\ datagrams'[w[s]].at <= old.ts + Timeout
  <2>1. CASE s \in DOMAIN old.parts
    BY <1>3, <1>6, <2>1 DEF PartsOK, InTime
  <2>2. CASE s \notin DOMAIN old.parts
    <3>1. s = seq /\ w[s] = Len(datagrams) + 1
      BY <1>6, <2>2
    <3>2. old.ts <= now
      BY DEF WaitingOK
    <3> QED BY <1>1, <1>2, <1>3, <3>1, <3>2
  <2> QED BY <2>1, <2>2
<1>10. Plain(id) => r = Cardinality(DOMAIN w)
  <2> SUFFICES ASSUME Plain(id) PROVE r = Cardinality(DOMAIN w)
    OBVIOUS
  <2>1. DOMAIN w = DOMAIN old.parts \cup {seq}
    BY <1>6 DEF Plain
  <2>2. IsFiniteSet(DOMAIN old.parts)
    BY SeqsOfMessage, FS_Subset DEF WaitingOK, PartsOK
  <2>3. old.received = Cardinality(DOMAIN old.parts)
    BY DEF WaitingOK
  <2> QED BY <1>7, <2>1, <2>2, <2>3, FS_AddElement DEF Received
<1>11. PartsOK(w, id)' /\ InTime(w, old.ts)'
  BY <1>6, <1>9 DEF PartsOK, InTime
<1>12. old.ts <= now
  BY DEF WaitingOK
<1>13. new \in [parts : PartMaps, received : Int, ts : Nat]
  BY <1>2, <1>6, <1>8
<1>14. new.parts = w /\ new.received = r /\ new.ts = old.ts
  BY <1>8
<1> QED BY <1>10, <1>11, <1>12, <1>13, <1>14 DEF WaitingOK, Plain

-----------------------------------------------------------------------------
(* The steps.                                                               *)

\* A chunk may complete a message, which leaves what waits for what was emitted.
LEMMA AddKeeps ==
  ASSUME GelfInv, NEW id \in Ids, NEW seq \in Seqs(id), Add(id, seq)
  PROVE  GelfInv'
<1>1. PICK kept : kept = [i \in DOMAIN msgs \ Expired |-> msgs[i]]
  OBVIOUS
<1>2. PICK old : old = IF id \in DOMAIN kept THEN kept[id]
                       ELSE [parts |-> NoParts, received |-> 0, ts |-> now]
  OBVIOUS
<1>3. PICK w : w = WithPart(old, id, seq)
  OBVIOUS
<1>4. PICK new : new = [old EXCEPT !.parts = w, !.received = Received(old, seq)]
  OBVIOUS
<1>5. /\ datagrams' = Append(datagrams, [id |-> id, seq |-> seq, at |-> now])
      /\ \/ msgs' = Put(kept, id, new) /\ UNCHANGED emitted /\ new.received < Count[id]
         \/ /\ msgs' = [i \in DOMAIN kept \ {id} |-> kept[i]]
            /\ emitted' = Append(emitted, [id |-> id, parts |-> new.parts])
            /\ ~(new.received < Count[id])
      /\ now' = now
  BY <1>1, <1>2, <1>3, <1>4, Zenon DEF Add
<1>6. /\ DOMAIN kept = DOMAIN msgs \ Expired
      /\ \A i \in DOMAIN kept : kept[i] = msgs[i]
  BY <1>1
<1>7. old = IF id \in DOMAIN msgs \ Expired THEN msgs[id]
            ELSE [parts |-> NoParts, received |-> 0, ts |-> now]
  BY <1>2, <1>6
<1>8. /\ WaitingOK(old, id) /\ now <= old.ts + Timeout
      /\ \A i \in 1..Len(emitted) : Apart(old.parts, emitted[i].parts)
  BY <1>7, FoundIsWaiting
<1>9. PICK r : r = Received(old, seq)
  OBVIOUS
<1>10. new = [parts |-> w, received |-> r, ts |-> old.ts]
  <2>1. new = [old EXCEPT !.parts = w, !.received = r]
    BY <1>4, <1>9
  <2>2. PICK o \in [parts : PartMaps, received : Int, ts : Nat] : o = old
    BY <1>8 DEF WaitingOK
  <2>3. r \in Int
    BY <1>9, <2>2 DEF Received
  <2>4. new = [o EXCEPT !.parts = w, !.received = r]
    BY <2>1, <2>2, Zenon
  <2> QED BY <2>2, <2>3, <2>4
<1>11. GelfShape
  BY DEF GelfInv
<1>12. WaitingOK(new, id)'
  BY <1>3, <1>5, <1>8, <1>9, <1>10, <1>11, AddedIsWaiting
<1>13. new.parts = w /\ new.received = r
  BY <1>10
<1>14. [id |-> id, seq |-> seq, at |-> now] \in Chunk
  <2>1. now \in Nat /\ seq \in Nat
    BY <1>11 DEF GelfShape, Seqs
  <2> QED BY <2>1 DEF Chunk
<1>15. /\ datagrams' \in Seq(Chunk) /\ Len(datagrams) \in Nat
       /\ \A f, i : PartsOK(f, i) => PartsOK(f, i)'
       /\ \A f, i, ts : PartsOK(f, i) /\ InTime(f, ts) => InTime(f, ts)'
  BY <1>5, <1>11, <1>14, OneMore DEF GelfShape
<1>16. \A i \in DOMAIN kept : WaitingOK(kept[i], i)'
  <2> SUFFICES ASSUME NEW i \in DOMAIN kept PROVE WaitingOK(kept[i], i)'
    OBVIOUS
  <2>1. PICK p : p = kept[i]
    OBVIOUS
  <2>2. WaitingOK(p, i)
    BY <1>6, <2>1 DEF GelfInv, MsgsOK
  <2>3. WaitingOK(p, i)'
    BY <1>5, <1>15, <2>2 DEF WaitingOK, Plain
  <2> QED BY <2>1, <2>3
<1>17. \A e : EmittedOK(e) => EmittedOK(e)'
  BY <1>15 DEF EmittedOK, Plain
<1>18. \A i \in 1..Len(emitted) : EmittedOK(emitted[i])
  BY DEF GelfInv, AllEmittedOK
<1>19. seq \in Nat /\ old.parts \in PartMaps /\ Len(datagrams) \in Nat
  BY <1>8, <1>15 DEF Seqs, WaitingOK
<1>20. \A i \in 1..Len(emitted) : Apart(old.parts, emitted[i].parts)
  BY <1>8
<1>21. \A i \in 1..Len(emitted) : Apart(w, emitted[i].parts)
  <2> SUFFICES ASSUME NEW i \in 1..Len(emitted) PROVE Apart(w, emitted[i].parts)
    OBVIOUS
  <2>1. \A t \in DOMAIN emitted[i].parts : emitted[i].parts[t] \in 1..Len(datagrams)
    BY <1>18 DEF EmittedOK, PartsOK
  <2>2. PICK g : g = emitted[i].parts
    OBVIOUS
  <2>3. Apart(w, g)
    BY <1>3, <1>19, <1>20, <2>1, <2>2, AddedIsApart
  <2> QED BY <2>2, <2>3
<1>22. /\ \A i, k \in 1..Len(emitted) : i # k => Apart(emitted[i].parts, emitted[k].parts)
       /\ \A i \in DOMAIN kept, k \in 1..Len(emitted) : Apart(kept[i].parts, emitted[k].parts)
  BY <1>6 DEF GelfInv, UsedOnce
<1>23. now' \in Nat /\ DOMAIN kept \subseteq Ids /\ emitted \in Seq([id : Ids, parts : PartMaps])
  BY <1>5, <1>6, <1>11 DEF GelfShape
<1>24. CASE msgs' = Put(kept, id, new) /\ UNCHANGED emitted
  <2>1. /\ DOMAIN msgs' = DOMAIN kept \cup {id}
        /\ \A i \in DOMAIN msgs' : msgs'[i] = IF i = id THEN new ELSE kept[i]
    BY <1>24 DEF Put
  <2>2. emitted' = emitted
    BY <1>24
  <2>3. GelfShape'
    BY <1>15, <1>23, <2>1, <2>2 DEF GelfShape
  <2>4. MsgsOK'
    <3> SUFFICES ASSUME NEW i \in DOMAIN msgs' PROVE WaitingOK(msgs[i], i)'
      BY DEF MsgsOK
    <3>1. CASE i = id
      BY <1>12, <2>1, <3>1
    <3>2. CASE i # id
      BY <1>16, <2>1, <3>2
    <3> QED BY <3>1, <3>2
  <2>5. AllEmittedOK'
    BY <1>17, <1>18, <2>2 DEF AllEmittedOK
  <2>6. UsedOnce'
    <3>1. ASSUME NEW i \in DOMAIN msgs', NEW k \in 1..Len(emitted)
          PROVE  Apart(msgs'[i].parts, emitted[k].parts)
      <4>1. CASE i = id
        BY <1>13, <1>21, <2>1, <4>1
      <4>2. CASE i # id
        BY <1>22, <2>1, <4>2
      <4> QED BY <4>1, <4>2
    <3> QED BY <1>22, <2>2, <3>1 DEF UsedOnce, Apart
  <2> QED BY <2>3, <2>4, <2>5, <2>6 DEF GelfInv
<1>25. CASE /\ msgs' = [i \in DOMAIN kept \ {id} |-> kept[i]]
            /\ emitted' = Append(emitted, [id |-> id, parts |-> new.parts])
            /\ ~(new.received < Count[id])
  <2>1. /\ DOMAIN msgs' = DOMAIN kept \ {id}
        /\ \A i \in DOMAIN msgs' : msgs'[i] = kept[i]
    BY <1>25
  <2>2. PICK e : e = [id |-> id, parts |-> w]
    OBVIOUS
  <2>3. e \in [id : Ids, parts : PartMaps] /\ e.id = id /\ e.parts = w
    BY <1>12, <1>13, <2>2 DEF WaitingOK
  <2>4. /\ emitted' \in Seq([id : Ids, parts : PartMaps])
        /\ Len(emitted') = Len(emitted) + 1 /\ Len(emitted) \in Nat
        /\ \A i \in 1..Len(emitted) : emitted'[i] = emitted[i]
        /\ emitted'[Len(emitted) + 1] = e
    BY <1>13, <1>23, <1>25, <2>2, <2>3, AppendProperties, LenProperties
  <2>5. GelfShape'
    BY <1>15, <1>23, <2>1, <2>4 DEF GelfShape
  <2>6. MsgsOK'
    BY <1>16, <2>1 DEF MsgsOK
  <2>7. EmittedOK(e)'
    <3>1. PartsOK(e.parts, e.id)' /\ InTime(e.parts, new.ts)' /\ new.ts \in Nat
      BY <1>12, <1>13, <2>3 DEF WaitingOK
    <3>2. ASSUME Plain(id) PROVE DOMAIN w = Seqs(id)
      <4>1. r = Cardinality(DOMAIN w) /\ DOMAIN w \in SUBSET Seqs(id)
        BY <1>12, <1>13, <3>2 DEF WaitingOK, PartsOK, Plain
      <4>2. PICK S : S = Seqs(id)
        OBVIOUS
      <4>3. PICK D : D = DOMAIN w
        OBVIOUS
      <4>4. IsFiniteSet(S) /\ Cardinality(S) = Count[id]
        BY <4>2, SeqsOfMessage
      <4>5. /\ Cardinality(D) <= Cardinality(S) /\ Cardinality(D) \in Nat /\ Cardinality(S) \in Nat
            /\ Cardinality(S) = Cardinality(D) => S = D
        BY <4>1, <4>2, <4>3, <4>4, FS_Subset, FS_CardinalityType
      <4>6. ~(Cardinality(D) < Cardinality(S))
        BY <1>13, <1>25, <4>1, <4>3, <4>4
      <4> QED BY <4>2, <4>3, <4>5, <4>6
    <3> QED BY <2>3, <3>1, <3>2 DEF EmittedOK, Plain
  <2>8. AllEmittedOK'
    <3> SUFFICES ASSUME NEW i \in 1..Len(emitted') PROVE EmittedOK(emitted[i])'
      BY DEF AllEmittedOK
    <3>1. CASE i \in 1..Len(emitted)
      BY <1>17, <1>18, <2>4, <3>1
    <3>2. CASE i = Len(emitted) + 1
      BY <2>4, <2>7, <3>2
    <3> QED BY <2>4, <3>1, <3>2
  <2>9. UsedOnce'
    <3>1. ASSUME NEW i \in 1..Len(emitted'), NEW k \in 1..Len(emitted'), i # k
          PROVE  Apart(emitted'[i].parts, emitted'[k].parts)
      <4>1. CASE i \in 1..Len(emitted) /\ k \in 1..Len(emitted)
        BY <1>22, <2>4, <3>1, <4>1
      <4>2. CASE i = Len(emitted) + 1 /\ k \in 1..Len(emitted)
        BY <1>21, <2>3, <2>4, <4>2
      <4>3. CASE i \in 1..Len(emitted) /\ k = Len(emitted) + 1
        <5>1. Apart(w, emitted'[i].parts) /\ emitted'[k].parts = w
          BY <1>21, <2>3, <2>4, <4>3
        <5> QED BY <5>1 DEF Apart
      <4> QED BY <2>4, <3>1, <4>1, <4>2, <4>3
    <3>2. ASSUME NEW i \in DOMAIN msgs', NEW k \in 1..Len(emitted')
          PROVE  Apart(msgs'[i].parts, emitted'[k].parts)
      <4>1. CASE k \in 1..Len(emitted)
        BY <1>22, <2>1, <2>4, <4>1
      <4>2. CASE k = Len(emitted) + 1
        <5>1. PartsOK(msgs[i].parts, i)' /\ i # id
          BY <2>1, <2>6 DEF MsgsOK, WaitingOK
        <5>2. PartsOK(w, id)' /\ emitted'[k].parts = w
          BY <2>3, <2>4, <2>7, <4>2 DEF EmittedOK
        <5> QED BY <5>1, <5>2 DEF PartsOK, Apart
      <4> QED BY <2>4, <4>1, <4>2
    <3> QED BY <3>1, <3>2 DEF UsedOnce, Apart
  <2> QED BY <2>5, <2>6, <2>8, <2>9 DEF GelfInv
<1> QED BY <1>5, <1>24, <1>25

\* Time only makes what waits older.
LEMMA PassesKeeps ==
  ASSUME GelfInv, Passes
  PROVE  GelfInv'
<1>1. /\ now' = now + 1 /\ datagrams' = datagrams
      /\ msgs' = msgs /\ emitted' = emitted
  BY DEF Passes
<1>2. GelfShape'
  BY <1>1 DEF GelfInv, GelfShape
<1>3. MsgsOK'
  <2> SUFFICES ASSUME NEW id \in DOMAIN msgs PROVE WaitingOK(msgs[id], id)'
    BY <1>1 DEF MsgsOK
  <2>1. PICK p : p = msgs[id]
    OBVIOUS
  <2>2. WaitingOK(p, id) /\ now \in Nat
    BY <2>1 DEF GelfInv, MsgsOK, GelfShape
  <2>3. p.ts \in Nat /\ p.ts <= now
    BY <2>2 DEF WaitingOK
  <2>4. p.ts <= now'
    BY <1>1, <2>2, <2>3
  <2>5. WaitingOK(p, id)'
    BY <1>1, <2>2, <2>4 DEF WaitingOK, PartsOK, InTime, Plain
  <2> QED BY <1>1, <2>1, <2>5
<1>4. AllEmittedOK' /\ UsedOnce'
  BY <1>1 DEF GelfInv, AllEmittedOK, UsedOnce, EmittedOK, PartsOK, InTime, Plain, Apart
<1> QED BY <1>2, <1>3, <1>4 DEF GelfInv

LEMMA InitWaitsForNone == GelfInit => GelfInv
<1> SUFFICES ASSUME GelfInit PROVE GelfInv
  OBVIOUS
<1>1. now = 0 /\ datagrams = <<>> /\ msgs = <<>> /\ emitted = <<>>
  BY DEF GelfInit
<1>2. datagrams \in Seq(Chunk) /\ emitted \in Seq([id : Ids, parts : PartMaps]) /\ Len(emitted) = 0
  BY <1>1, EmptySeq
<1>3. DOMAIN msgs = {}
  BY <1>1
<1> QED BY <1>1, <1>2, <1>3 DEF GelfInv, GelfShape, MsgsOK, AllEmittedOK, UsedOnce

LEMMA GelfStep == GelfInv /\ [GelfNext]_gfvars => GelfInv'
<1> SUFFICES ASSUME GelfInv, [GelfNext]_gfvars PROVE GelfInv'
  OBVIOUS
<1>1. CASE Passes
  BY <1>1, PassesKeeps
<1>2. ASSUME NEW id \in Ids, NEW seq \in 0..(Count[id] - 1), Add(id, seq)
      PROVE  GelfInv'
  BY <1>2, AddKeeps DEF Seqs
<1>3. CASE UNCHANGED gfvars
  BY <1>3 DEF gfvars, GelfInv, GelfShape, MsgsOK, AllEmittedOK, UsedOnce, WaitingOK,
              EmittedOK, PartsOK, InTime, Plain, Apart
<1> QED BY <1>1, <1>2, <1>3 DEF GelfNext

\* What was emitted is whole: its parts fill the places, and came while it waited.
LEMMA InvIsWhole == GelfInv => WholeAndOnce
<1> SUFFICES ASSUME GelfInv, NEW i \in DOMAIN emitted,
                    Plain(emitted[i].id)
             PROVE  /\ DOMAIN emitted[i].parts = Seqs(emitted[i].id)
                    /\ \A s \in DOMAIN emitted[i].parts :
                         /\ datagrams[emitted[i].parts[s]].id = emitted[i].id
                         /\ datagrams[emitted[i].parts[s]].seq = s
                         /\ \A t \in DOMAIN emitted[i].parts :
                              datagrams[emitted[i].parts[s]].at
                                - datagrams[emitted[i].parts[t]].at <= Timeout
                         /\ \A k \in DOMAIN emitted \ {i} :
                              emitted[i].parts[s] \notin Range(emitted[k].parts)
  BY DEF WholeAndOnce, Plain, Seqs
<1>1. emitted \in Seq([id : Ids, parts : PartMaps]) /\ datagrams \in Seq(Chunk)
  BY DEF GelfInv, GelfShape
<1>2. DOMAIN emitted = 1..Len(emitted)
  BY <1>1, LenProperties
<1>3. EmittedOK(emitted[i])
  BY <1>2 DEF GelfInv, AllEmittedOK
<1>4. PICK e : e = emitted[i]
  OBVIOUS
<1>5. PICK ts \in Nat : InTime(e.parts, ts)
  BY <1>3, <1>4 DEF EmittedOK
<1>6. PartsOK(e.parts, e.id) /\ DOMAIN e.parts = Seqs(e.id)
  BY <1>3, <1>4 DEF EmittedOK
<1>7. ASSUME NEW s \in DOMAIN e.parts, NEW t \in DOMAIN e.parts
      PROVE  datagrams[e.parts[s]].at - datagrams[e.parts[t]].at <= Timeout
  <2>1. e.parts[s] \in 1..Len(datagrams) /\ e.parts[t] \in 1..Len(datagrams)
    BY <1>6 DEF PartsOK
  <2>2. datagrams[e.parts[s]] \in Chunk /\ datagrams[e.parts[t]] \in Chunk
    BY <1>1, <2>1, ElementOfSeq
  <2>3. datagrams[e.parts[s]].at \in Nat /\ datagrams[e.parts[t]].at \in Nat
    BY <2>2 DEF Chunk
  <2>4. ts <= datagrams[e.parts[t]].at /\ datagrams[e.parts[s]].at <= ts + Timeout
    BY <1>5 DEF InTime
  <2> QED BY <2>3, <2>4, GelfAssumption
<1>8. ASSUME NEW s \in DOMAIN e.parts, NEW k \in DOMAIN emitted \ {i}
      PROVE  e.parts[s] \notin Range(emitted[k].parts)
  BY <1>2, <1>4 DEF GelfInv, UsedOnce, Apart, Range
<1> QED BY <1>4, <1>6, <1>7, <1>8 DEF PartsOK

-----------------------------------------------------------------------------

\* Of the messages put together no chunk is missing, misplaced, stale or used twice,
\* for any number of messages, chunks and datagrams (WholeAndOnce).
THEOREM WholeOnce == GelfSpec => []WholeAndOnce
  BY InitWaitsForNone, GelfStep, InvIsWhole, PTL DEF GelfSpec

\* A message that waits has a chunk, and not all of them.
GelfBounds ==
  /\ now <= MaxTime /\ Len(datagrams) <= MaxDelivered
  /\ \A id \in DOMAIN msgs : msgs[id].received \in 1..(Count[id] - 1)

LEMMA AddBounds ==
  ASSUME GelfInv, GelfBounds, NEW id \in Ids, NEW seq \in Seqs(id), Add(id, seq)
  PROVE  GelfBounds'
<1>1. PICK kept : kept = [i \in DOMAIN msgs \ Expired |-> msgs[i]]
  OBVIOUS
<1>2. PICK old : old = IF id \in DOMAIN kept THEN kept[id]
                       ELSE [parts |-> NoParts, received |-> 0, ts |-> now]
  OBVIOUS
<1>3. PICK r : r = Received(old, seq)
  OBVIOUS
<1>4. PICK new : new = [old EXCEPT !.parts = WithPart(old, id, seq), !.received = r]
  OBVIOUS
<1>5. /\ datagrams' = Append(datagrams, [id |-> id, seq |-> seq, at |-> now])
      /\ \/ msgs' = Put(kept, id, new) /\ new.received < Count[id]
         \/ msgs' = [i \in DOMAIN kept \ {id} |-> kept[i]]
      /\ now' = now /\ Len(datagrams) < MaxDelivered
  BY <1>1, <1>2, <1>3, <1>4, Zenon DEF Add
<1>6. now' <= MaxTime /\ Len(datagrams') <= MaxDelivered
  <2>1. Len(datagrams) \in Nat /\ MaxDelivered \in Nat
    BY GelfAssumption, LenProperties DEF GelfInv, GelfShape
  <2>2. Len(datagrams') = Len(datagrams) + 1
    BY <1>5 DEF GelfInv, GelfShape
  <2>3. QED
    BY <1>5, <2>1, <2>2 DEF GelfBounds
<1>7. \A i \in DOMAIN kept : i \in DOMAIN msgs /\ kept[i] = msgs[i]
  BY <1>1
<1>8. new.received = r /\ r \in Nat /\ 1 <= r
  <2>1. CASE id \in DOMAIN kept
    <3>1. old = msgs[id] /\ id \in DOMAIN msgs
      BY <1>2, <1>7, <2>1
    <3>2. old \in [parts : PartMaps, received : Int, ts : Nat] /\ old.received \in 1..(Count[id] - 1)
      BY <3>1 DEF GelfInv, MsgsOK, WaitingOK, GelfBounds
    <3>3. Count[id] \in Int
      BY GelfAssumption
    <3>4. r \in Nat /\ 1 <= r
      BY <1>3, <3>2, <3>3 DEF Received
    <3>5. QED
      BY <1>4, <3>2, <3>4
  <2>2. CASE id \notin DOMAIN kept
    <3>1. old = [parts |-> NoParts, received |-> 0, ts |-> now]
      BY <1>2, <2>2
    <3>2. DOMAIN old.parts = {} /\ old.received = 0
      BY <3>1 DEF NoParts
    <3>3. r = 1
      BY <1>3, <3>2 DEF Received
    <3>4. QED
      BY <1>4, <3>1, <3>3
  <2>3. QED
    BY <2>1, <2>2
<1>9. ASSUME NEW i \in DOMAIN msgs'
      PROVE  msgs'[i].received \in 1..(Count[i] - 1)
  <2>1. CASE i \in DOMAIN kept /\ msgs'[i] = kept[i]
    BY <1>7, <2>1 DEF GelfBounds
  <2>2. CASE i = id /\ msgs'[i] = new /\ new.received < Count[id]
    <3>1. Count[id] \in Int
      BY GelfAssumption
    <3>2. QED
      BY <1>8, <2>2, <3>1
  <2>3. CASE msgs' = Put(kept, id, new) /\ new.received < Count[id]
    BY <2>1, <2>2, <2>3 DEF Put
  <2>4. CASE msgs' = [k \in DOMAIN kept \ {id} |-> kept[k]]
    BY <2>1, <2>4
  <2>5. QED
    BY <1>5, <2>3, <2>4
<1>10. QED
  BY <1>6, <1>9 DEF GelfBounds

LEMMA GelfStepBounds == GelfInv /\ GelfBounds /\ [GelfNext]_gfvars => GelfBounds'
<1> SUFFICES ASSUME GelfInv, GelfBounds, [GelfNext]_gfvars PROVE GelfBounds'
  OBVIOUS
<1>1. CASE Passes
  <2>1. now \in Nat /\ MaxTime \in Nat
    BY GelfAssumption DEF GelfInv, GelfShape
  <2>2. QED
    BY <1>1, <2>1 DEF Passes, GelfBounds
<1>2. ASSUME NEW id \in Ids, NEW seq \in 0..(Count[id] - 1), Add(id, seq)
      PROVE  GelfBounds'
  BY <1>2, AddBounds DEF Seqs
<1>3. CASE UNCHANGED gfvars
  BY <1>3 DEF gfvars, GelfBounds
<1>4. QED
  BY <1>1, <1>2, <1>3 DEF GelfNext

LEMMA GelfBoundsType == GelfInv /\ GelfBounds => GelfTypeOK
<1> SUFFICES ASSUME GelfInv, GelfBounds PROVE GelfTypeOK
  OBVIOUS
<1>1. /\ now \in Nat /\ datagrams \in Seq(Chunk) /\ DOMAIN msgs \subseteq Ids
      /\ emitted \in Seq([id : Ids, parts : PartMaps]) /\ MaxTime \in Nat
      /\ DOMAIN datagrams = 1..Len(datagrams) /\ DOMAIN emitted = 1..Len(emitted)
  BY GelfAssumption, LenProperties DEF GelfInv, GelfShape
<1>2. ASSUME NEW p, NEW id, PartsOK(p, id)
      PROVE  IsPartsOf(p, id)
  BY <1>1, <1>2 DEF PartsOK, IsPartsOf, Seqs, Range
<1>3. \A id \in DOMAIN msgs : IsPartsOf(msgs[id].parts, id) /\ msgs[id].ts \in 0..now
  <2> SUFFICES ASSUME NEW id \in DOMAIN msgs
               PROVE  IsPartsOf(msgs[id].parts, id) /\ msgs[id].ts \in 0..now
    OBVIOUS
  <2>1. WaitingOK(msgs[id], id)
    BY DEF GelfInv, MsgsOK
  <2>2. PICK p : p = msgs[id]
    OBVIOUS
  <2>3. p \in [parts : PartMaps, received : Int, ts : Nat] /\ p.ts <= now
    BY <2>1, <2>2 DEF WaitingOK
  <2>4. p.ts \in 0..now
    BY <1>1, <2>3
  <2>5. IsPartsOf(msgs[id].parts, id)
    BY <1>2, <2>1 DEF WaitingOK
  <2>6. QED
    BY <2>2, <2>4, <2>5
<1>4. \A i \in DOMAIN emitted : IsPartsOf(emitted[i].parts, emitted[i].id)
  BY <1>1, <1>2 DEF GelfInv, AllEmittedOK, EmittedOK
<1>5. QED
  BY <1>1, <1>3, <1>4 DEF GelfTypeOK, GelfBounds

-----------------------------------------------------------------------------
(* The modules side by side.                                                *)

EdgeInv == OutInv /\ FleetInv /\ DockerInv /\ GelfInv /\ GelfBounds

LEMMA EdgeStarts == MCInit => EdgeInv
<1> SUFFICES ASSUME MCInit PROVE EdgeInv
  OBVIOUS
<1>1. GelfBounds
  BY GelfAssumption DEF MCInit, GelfInit, GelfBounds
<1>2. QED
  BY <1>1, OutStarts, FleetStarts, DockerStarts, InitWaitsForNone DEF MCInit, EdgeInv

LEMMA EdgeStep == EdgeInv /\ [MCNext]_mcvars => EdgeInv'
<1> SUFFICES ASSUME EdgeInv, [MCNext]_mcvars PROVE EdgeInv'
  OBVIOUS
<1>1. [OutNext]_outvars /\ [FleetNext]_flvars /\ [DockerNext]_dkvars /\ [GelfNext]_gfvars
  BY DEF MCNext, OutStep, FleetStep, mcvars
<1>2. OutInv' /\ FleetInv'
  BY <1>1, OutputsStep, FleetStepInv DEF EdgeInv
<1>3. DockerInv'
  BY <1>1, DockerStep DEF EdgeInv
<1>4. GelfInv' /\ GelfBounds'
  BY <1>1, GelfStep, GelfStepBounds DEF EdgeInv
<1>5. QED
  BY <1>2, <1>3, <1>4 DEF EdgeInv

\* Every component keeps its types, whichever of them the behaviour exercises: what the
\* run of MCEdge checks of its instance, for all values of the constants.
THEOREM EdgeTypes == MCSpec => []TypeOK
<1>1. DockerInv => DockerTypeOK
  BY DEF DockerInv
<1>2. EdgeInv => TypeOK
  BY <1>1, HandsOweAll, FleetInvType, GelfBoundsType DEF EdgeInv, TypeOK
<1>3. QED
  BY EdgeStarts, EdgeStep, <1>2, PTL DEF MCSpec

=============================================================================
