------------------------------ MODULE Outputs ------------------------------
(***************************************************************************)
(* The outputs (internal/output/output.go): a worker for every output, with   *)
(* a buffer and a connection.  SetOutputs starts a new generation of workers   *)
(* and then stops the old one, one worker after the other; stop touches the   *)
(* worker's connection without a lock.                                       *)
(***************************************************************************)
EXTENDS Integers, FiniteSetsExt

CONSTANTS
  Outs,        \* outputs
  Setups,      \* the enabled outputs of each generation
  Wanted,      \* the streams each output forwards
  OutStreams,  \* the streams of messages
  BufferSize,  \* bufferSize
  MaxOutMsgs,  \* bound: messages dispatched
  MaxGen       \* bound: times the outputs are set

ASSUME OutputsAssumption ==
  /\ BufferSize \in Nat \ {0} /\ MaxOutMsgs \in Nat /\ MaxGen \in Nat
  /\ Wanted \in [Outs -> SUBSET OutStreams] /\ Setups \in [1..MaxGen -> SUBSET Outs]

Workers == {w \in Outs \X (1..MaxGen) : w[1] \in Setups[w[2]]}

VARIABLES
  gen,        \* generations started
  running,    \* Manager.running: the generation that gets messages; 0 for none
  wk,         \* the workers
  stopper,    \* the loop that stops the workers of each generation
  owed,       \* messages each output was given, less MessagesOut and OutputFailures
  dispatched, \* messages dispatched
  alive       \* the process runs

outvars == <<gen, running, wk, stopper, owed, dispatched, alive>>

\* buffer: messages in the channel; sock: the connection in w.conn, which stop may
\* have closed; open: connections of the worker's that nobody has closed.
NoWorker  == [pc |-> "none", buffer |-> 0, attempt |-> 0, sock |-> "nil", open |-> 0,
              done |-> FALSE]
NoStopper == [pc |-> "idle", todo |-> {}, at |-> {}, last |-> FALSE]

OutTypeOK ==
  /\ gen \in 0..MaxGen /\ running \in 0..MaxGen /\ dispatched \in 0..MaxOutMsgs
  /\ wk \in [Workers -> [pc : {"none", "select", "dial", "write", "ended"},
                         buffer : 0..BufferSize, attempt : 0..1,
                         sock : {"nil", "open", "closed"}, open : 0..1, done : BOOLEAN]]
  /\ stopper \in [1..MaxGen -> [pc : {"idle", "stop", "close", "over", "panicked"},
                                todo : SUBSET Outs, at : SUBSET Outs, last : BOOLEAN]]
  /\ owed \in [Outs -> 0..MaxOutMsgs]
  /\ alive \in BOOLEAN

OutInit ==
  /\ gen = 0 /\ running = 0 /\ dispatched = 0 /\ alive = TRUE
  /\ wk = [w \in Workers |-> NoWorker]
  /\ stopper = [g \in 1..MaxGen |-> NoStopper]
  /\ owed = [o \in Outs |-> 0]

-----------------------------------------------------------------------------
(* The manager.                                                             *)

\* The old generation is stopped after the lock has been released.
StopOld(final) ==
  stopper' = IF running = 0 THEN stopper
             ELSE [stopper EXCEPT ![running] =
                     [NoStopper EXCEPT !.pc = "stop", !.todo = Setups[running], !.last = final]]

SetOutputs ==
  /\ gen < MaxGen /\ gen' = gen + 1 /\ running' = gen + 1
  /\ wk' = [w \in Workers |-> IF w[2] = gen + 1 THEN [NoWorker EXCEPT !.pc = "select"]
                              ELSE wk[w]]
  /\ StopOld(FALSE)
  /\ UNCHANGED <<owed, dispatched, alive>>

\* Stop, from shutdown.
StopAll ==
  /\ running # 0 /\ running' = 0
  /\ StopOld(TRUE)
  /\ UNCHANGED <<gen, wk, owed, dispatched, alive>>

Full(w) == wk[w].buffer = BufferSize

Overflows_NotCounted(takers) ==      \* mutant: an overflow is dropped, not counted
  {}

Overflows(takers) == {o \in takers : Full(<<o, running>>)}

\* A full buffer drops the message.
Dispatch ==
  /\ dispatched < MaxOutMsgs /\ dispatched' = dispatched + 1 /\ running # 0
  /\ \E s \in OutStreams :
       LET takers == {o \in Setups[running] : s \in Wanted[o]} IN
       /\ owed' = [o \in Outs |->
                     owed[o] + IF o \in takers \ Overflows(takers) THEN 1 ELSE 0]
       /\ wk' = [w \in Workers |->
                   IF w[1] \in takers /\ w[2] = running /\ ~Full(w)
                   THEN [wk[w] EXCEPT !.buffer = @ + 1] ELSE wk[w]]
  /\ UNCHANGED <<gen, running, stopper, alive>>

-----------------------------------------------------------------------------
(* worker.stop, for the workers of generation g.                             *)

\* close(done), then the first look at w.conn,
StopLooks(g) ==
  /\ stopper[g].pc = "stop" /\ stopper[g].todo # {}
  /\ \E o \in stopper[g].todo :
       /\ wk' = [wk EXCEPT ![<<o, g>>].done = TRUE]
       /\ stopper' = [stopper EXCEPT
            ![g].todo = @ \ {o},
            ![g].at = IF wk[<<o, g>>].sock = "nil" THEN {} ELSE {o},
            ![g].pc = IF wk[<<o, g>>].sock = "nil" THEN "stop" ELSE "close"]
  /\ UNCHANGED <<gen, running, owed, dispatched, alive>>

CloseSock(w) ==
  [w EXCEPT !.sock = IF @ = "open" THEN "closed" ELSE @,
            !.open = IF w.sock = "open" THEN 0 ELSE @]

\* and then the second.  The worker may have cleared it in between: the call on a nil
\* connection panics, unless the first look's value is used again.
StopCloses(g) ==
  /\ stopper[g].pc = "close"
  /\ \E o \in stopper[g].at :
       \/ /\ wk' = [wk EXCEPT ![<<o, g>>] = CloseSock(@)]
          /\ stopper' = [stopper EXCEPT ![g].pc = "stop", ![g].at = {}]
          /\ UNCHANGED alive
       \/ /\ wk[<<o, g>>].sock = "nil"
          /\ stopper' = [stopper EXCEPT ![g].pc = "panicked", ![g].at = {}]
          /\ alive' = ~stopper[g].last   \* the HTTP server recovers from a handler's panic
          /\ UNCHANGED wk
  /\ UNCHANGED <<gen, running, owed, dispatched>>

StopReturns(g) ==
  /\ stopper[g].pc = "stop" /\ stopper[g].todo = {}
  /\ stopper' = [stopper EXCEPT ![g].pc = "over"]
  /\ UNCHANGED <<gen, running, wk, owed, dispatched, alive>>

-----------------------------------------------------------------------------
(* worker.run.                                                              *)

\* MessagesOut or OutputFailures is increased.
Counted(o) == owed' = [owed EXCEPT ![o] = @ - 1]

\* select takes either of two cases that are ready.
Quit(w) ==
  /\ wk[w].pc = "select" /\ wk[w].done
  /\ wk' = [wk EXCEPT ![w].pc = "ended"]
  /\ UNCHANGED <<gen, running, stopper, owed, dispatched, alive>>

TakeMsg(w) ==
  /\ wk[w].pc = "select" /\ wk[w].buffer > 0
  /\ wk' = [wk EXCEPT ![w].buffer = @ - 1, ![w].attempt = 0,
                      ![w].pc = IF wk[w].sock = "nil" THEN "dial" ELSE "write"]
  /\ UNCHANGED <<gen, running, stopper, owed, dispatched, alive>>

Dial(w) ==
  /\ wk[w].pc = "dial"
  /\ \/ /\ wk' = [wk EXCEPT ![w].pc = "write", ![w].sock = "open", ![w].open = @ + 1]
        /\ UNCHANGED owed
     \/ /\ wk' = [wk EXCEPT ![w].pc = "select"]
        /\ Counted(w[1])
  /\ UNCHANGED <<gen, running, stopper, dispatched, alive>>

WriteOK(w) ==
  /\ wk[w].pc = "write" /\ wk[w].sock = "open"
  /\ wk' = [wk EXCEPT ![w].pc = "select"]
  /\ Counted(w[1])
  /\ UNCHANGED <<gen, running, stopper, dispatched, alive>>

Again_Always(attempt) == 0           \* mutant: the attempts are not counted
Again(attempt) == attempt + 1

\* The connection is given up and the message tried once more on a new one.  (The
\* peer may have got all of it: then it gets it twice.)
WriteError(w) ==
  /\ wk[w].pc = "write"
  /\ LET n     == Again(wk[w].attempt)
         fresh == [CloseSock(wk[w]) EXCEPT !.sock = "nil"]
     IN IF n < 2 THEN /\ wk' = [wk EXCEPT ![w] = [fresh EXCEPT !.pc = "dial", !.attempt = n]]
                      /\ UNCHANGED owed
        ELSE /\ wk' = [wk EXCEPT ![w] = [fresh EXCEPT !.pc = "select"]]
             /\ Counted(w[1])
  /\ UNCHANGED <<gen, running, stopper, dispatched, alive>>

-----------------------------------------------------------------------------
WorkerStep(w) == alive /\ (Quit(w) \/ TakeMsg(w) \/ Dial(w) \/ WriteOK(w) \/ WriteError(w))
StopStep(g)   == alive /\ (StopLooks(g) \/ StopCloses(g) \/ StopReturns(g))

OutNext ==
  \/ alive /\ (SetOutputs \/ StopAll \/ Dispatch)
  \/ \E g \in 1..MaxGen : StopStep(g)
  \/ \E w \in Workers : WorkerStep(w)

-----------------------------------------------------------------------------
(* Properties.                                                              *)

InHand(w) == wk[w].buffer + IF wk[w].pc \in {"dial", "write"} THEN 1 ELSE 0

\* "overflow is dropped and counted rather than blocking ingest" (output.go:3-4):
\* every message an output was given is counted once, as sent or as failed, or
\* waits in a worker; those of a worker that was stopped wait for ever.
EveryMessageCounted ==
  \A o \in Outs :
    owed[o] = MapThenSumSet(InHand, {w \in Workers : w[1] = o})

\* A worker that was replaced ends, however its peer behaves and whatever it has
\* buffered, if the loop that stops its generation is not ended by a panic.
ReplacedWorkersEnd ==
  \A g \in 1..MaxGen :
    stopper[g].pc = "stop" ~> \/ \A o \in Setups[g] : wk[<<o, g>>].pc = "ended"
                              \/ stopper[g].pc = "panicked" \/ ~alive

=============================================================================
