--------------------------- MODULE LifecycleProofs ---------------------------
(***************************************************************************)
(* Proofs about module Lifecycle, for every batch size, retry limit, set of *)
(* days and faults, and number of restarts: no work on closed stores; its   *)
(* behaviours are behaviours of module Ingest, so what is proved there of   *)
(* the processor holds however the server is stopped and started again; and *)
(* a shutdown leaves nothing to process.                                    *)
(***************************************************************************)
EXTENDS Lifecycle, IngestProofs, TLAPS

Ended == ppc \in {"done", "failed"}

\* The one value of procDone is sent when the processor ends, and the stores are
\* closed by who received it: shutdown has no other way past its last wait.
ReceivedOnce ==
  /\ taken => Ended
  /\ main = "close" => taken
  /\ ~storeOpen => taken

\* A processor that has returned takes no step.
LEMMA ProcessorIsOver ==
  ASSUME Ended, Processor
  PROVE  FALSE
<1>1. ppc \in {"next", "gather", "store", "retry", "dispatch", "commit", "save"}
  BY DEF Processor, Take, RunReturns, RunFails, GatherEnds, StoreDay, StoreFails,
         Retry, Abandon, Dispatch, Commit, Save
<1> QED
  BY <1>1 DEF Ended

\* Work keeps what shutdown waits for.
LEMMA WorkStep ==
  ASSUME ReceivedOnce, Work
  PROVE  ReceivedOnce'
<1>1. UNCHANGED mvars
  BY DEF Work
<1>2. CASE Processor
  BY <1>1, <1>2, ProcessorIsOver DEF ReceivedOnce, mvars
<1>3. CASE Publish
  BY <1>1, <1>3 DEF Publish, pvars, ReceivedOnce, Ended, mvars
<1>4. CASE \E n \in put : EvictBelow(n)
  BY <1>1, <1>4 DEF EvictBelow, pvars, ReceivedOnce, Ended, mvars
<1> QED
  BY <1>2, <1>3, <1>4 DEF Work

\* Each step of Run and shutdown: only three move main to "close" or receive.
LEMMA RunStep ==
  ASSUME ReceivedOnce, RunSteps
  PROVE  ReceivedOnce'
<1> USE DEF ReceivedOnce, Ended
<1>1. CASE StartAll \/ StartAllFails \/ ServerFails \/ ContextDone
  BY <1>1 DEF StartAll, StartAllFails, ServerFails, ContextDone, vars, pvars
<1>2. CASE ProcessorEnds
  BY <1>2 DEF ProcessorEnds, vars, pvars
<1>3. CASE StopHTTP \/ StopInputs
  BY <1>3 DEF StopHTTP, StopInputs, vars, pvars
<1>4. CASE ShutJournal
  BY <1>4 DEF ShutJournal, CloseJournal, pvars
<1>5. CASE Drained \/ Forced
  BY <1>5 DEF Drained, Forced, vars, pvars
<1>6. CASE ForceStop
  BY <1>6 DEF ForceStop, pvars
<1>7. CASE CloseStores
  BY <1>7 DEF CloseStores, vars, pvars
<1> QED
  BY <1>1, <1>2, <1>3, <1>4, <1>5, <1>6, <1>7 DEF RunSteps

LEMMA ReceivedOnceNext ==
  ASSUME ReceivedOnce, [LifeNext]_lvars
  PROVE  ReceivedOnce'
<1>1. CASE Work
  BY <1>1, WorkStep
<1>2. CASE RunSteps
  BY <1>2, RunStep
<1>3. CASE Traffic \/ Expire
  BY <1>3 DEF Traffic, Expire, vars, pvars, ReceivedOnce, Ended
<1>4. CASE Signal \/ Exit \/ GraceOver
  BY <1>4 DEF Signal, Exit, GraceOver, vars, pvars, mvars, ReceivedOnce, Ended
<1>5. CASE Boot
  BY <1>5 DEF Boot, ReceivedOnce
<1>6. CASE UNCHANGED lvars
  BY <1>6 DEF lvars, vars, pvars, mvars, ReceivedOnce, Ended
<1> QED
  BY <1>1, <1>2, <1>3, <1>4, <1>5, <1>6 DEF LifeNext

\* The processor never works on a closed store or a stopped output, whatever
\* fails, however often the server is stopped, cut short or started again.
THEOREM StoresOutliveProcessor == LifeSpec => []StoreOutlivesProcessor
<1>1. LifeInit => ReceivedOnce
  BY DEF LifeInit, ReceivedOnce
<1>2. ReceivedOnce /\ [LifeNext]_lvars => ReceivedOnce'
  BY ReceivedOnceNext
<1>3. ReceivedOnce => StoreOutlivesProcessor
  BY DEF ReceivedOnce, Ended, StoreOutlivesProcessor
<1> QED
  BY <1>1, <1>2, <1>3, PTL DEF LifeSpec

-----------------------------------------------------------------------------
(* The life cycle implements module Ingest.                                 *)

\* procCancel is called when the journal has been closed, as Ingest has it.
JournalShut == main \in {"drain", "forced", "close"} => closed

LEMMA JournalShutNext ==
  ASSUME JournalShut, [LifeNext]_lvars
  PROVE  JournalShut'
<1> USE DEF JournalShut
<1>1. CASE Work
  <2>1. main' = main
    BY <1>1 DEF Work, mvars
  <2>2. closed' = closed
    BY <1>1 DEF Work, Processor, Publish, EvictBelow, Take, RunReturns, RunFails, GatherEnds,
                StoreDay, StoreFails, Retry, Abandon, Dispatch, Commit, Save
  <2>3. QED
    BY <2>1, <2>2
<1>2. CASE StartAll \/ StartAllFails \/ ServerFails \/ ProcessorEnds \/ ContextDone
  BY <1>2 DEF StartAll, StartAllFails, ServerFails, ProcessorEnds, ContextDone
<1>3. CASE StopHTTP \/ StopInputs \/ ShutJournal
  BY <1>3 DEF StopHTTP, StopInputs, ShutJournal, CloseJournal
<1>4. CASE Drained \/ ForceStop \/ Forced \/ CloseStores
  BY <1>4 DEF Drained, ForceStop, Forced, CloseStores, vars
<1>5. CASE Traffic \/ Expire \/ Signal \/ Exit \/ GraceOver
  BY <1>5 DEF Traffic, Expire, Signal, Exit, GraceOver, vars, mvars
<1>6. CASE Boot
  BY <1>6 DEF Boot
<1>7. CASE UNCHANGED lvars
  BY <1>7 DEF lvars, vars, mvars
<1>8. QED
  BY <1>1, <1>2, <1>3, <1>4, <1>5, <1>6, <1>7 DEF LifeNext, RunSteps

\* Every step is one of the processor, the inputs, procCancel or Close, a restart, or
\* none that module Ingest sees.
LEMMA StepImplements ==
  ASSUME JournalShut, [LifeNext]_lvars
  PROVE  [Next]_vars
<1>1. CASE Work
  BY <1>1 DEF Work, Next
<1>2. CASE StartAll \/ StartAllFails \/ ServerFails \/ ProcessorEnds \/ ContextDone
           \/ StopHTTP \/ StopInputs \/ Drained \/ Forced \/ CloseStores
  BY <1>2 DEF StartAll, StartAllFails, ServerFails, ProcessorEnds, ContextDone, StopHTTP,
              StopInputs, Drained, Forced, CloseStores
<1>3. CASE ShutJournal
  BY <1>3 DEF ShutJournal, Next
<1>4. CASE ForceStop
  <2>1. /\ closed /\ cancelled' = TRUE
        /\ UNCHANGED <<qvars, closed, pvars, svars, hvars>>
    BY <1>4 DEF ForceStop, JournalShut
  <2>2. CASE cancelled = TRUE
    BY <2>1, <2>2 DEF vars
  <2>3. CASE cancelled # TRUE
    BY <2>1, <2>3 DEF Cancel, Next
  <2>4. QED
    BY <2>2, <2>3
<1>5. CASE Traffic \/ Expire \/ Signal \/ Exit \/ GraceOver
  BY <1>5 DEF Traffic, Expire, Signal, Exit, GraceOver
<1>6. CASE Boot
  <2>1. StartAgain
    BY <1>6 DEF Boot
  <2>2. Kill
    BY <2>1, LifecycleAssumption DEF Kill
  <2>3. QED
    BY <2>2 DEF Next
<1>7. CASE UNCHANGED lvars
  BY <1>7 DEF lvars
<1>8. QED
  BY <1>1, <1>2, <1>3, <1>4, <1>5, <1>6, <1>7 DEF LifeNext, RunSteps

\* Run, shutdown and the service wrapper use the processor, the journal and the store
\* in no way that module Ingest does not allow (app.go:288-379, svc.go:33-70).
THEOREM LifeImplementsIngest == LifeSpec => Spec
<1>1. LifeInit => Init /\ JournalShut
  BY DEF LifeInit, JournalShut
<1>2. JournalShut /\ [LifeNext]_lvars => JournalShut'
  BY JournalShutNext
<1>3. JournalShut /\ [LifeNext]_lvars => [Next]_vars
  BY StepImplements
<1>4. QED
  BY <1>1, <1>2, <1>3, PTL DEF LifeSpec, Spec

\* Forced stops, the wrapper's grace and restarts lose no record unnoticed either.
COROLLARY LifeLosesNothing == LifeSpec => []NothingLost
<1>1. QED
  BY LifeImplementsIngest, NoSilentLoss, PTL

\* Nor do they put a record into the store twice in one life of the process,
COROLLARY LifeStoresOnce == LifeSpec => []OncePerLife
<1>1. QED
  BY LifeImplementsIngest, NoDuplicates, PTL

\* or hand to the outputs what the store does not have.
COROLLARY LifeForwardsStored == LifeSpec => []ForwardedIsStored
<1>1. QED
  BY LifeImplementsIngest, OutputsGetStored, PTL

-----------------------------------------------------------------------------
(* Types, and the drain.                                                    *)

ControlOK ==
  /\ main \in Steps /\ svc \in {"waiting", "stopping", "exited"}
  /\ failed \in BOOLEAN /\ taken \in BOOLEAN /\ expired \in BOOLEAN
  /\ handlers \in BOOLEAN /\ conns \in BOOLEAN /\ storeOpen \in BOOLEAN

LEMMA ControlNext ==
  ASSUME ControlOK, [LifeNext]_lvars
  PROVE  ControlOK'
<1> USE DEF ControlOK, Steps
<1>1. CASE Work
  BY <1>1 DEF Work, mvars
<1>2. CASE StartAll \/ StartAllFails \/ ServerFails \/ ContextDone
  BY <1>2 DEF StartAll, StartAllFails, ServerFails, ContextDone
<1>3. CASE ProcessorEnds
  BY <1>3 DEF ProcessorEnds
<1>4. CASE StopHTTP \/ StopInputs \/ ShutJournal
  BY <1>4 DEF StopHTTP, StopInputs, ShutJournal
<1>5. CASE Drained \/ ForceStop \/ Forced \/ CloseStores
  BY <1>5 DEF Drained, ForceStop, Forced, CloseStores
<1>6. CASE Traffic
  BY <1>6 DEF Traffic
<1>7. CASE Expire \/ Signal \/ Exit \/ GraceOver
  BY <1>7 DEF Expire, Signal, Exit, GraceOver, mvars
<1>8. CASE Boot
  BY <1>8 DEF Boot
<1>9. CASE UNCHANGED lvars
  BY <1>9 DEF lvars, mvars
<1>10. QED
  BY <1>1, <1>2, <1>3, <1>4, <1>5, <1>6, <1>7, <1>8, <1>9 DEF LifeNext, RunSteps

\* Every variable keeps its type through every start, failure, stop and restart.
THEOREM LifeTypeCorrect == LifeSpec => []LifeTypeOK
<1>1. LifeInit => ControlOK
  BY DEF LifeInit, ControlOK, Steps
<1>2. ControlOK /\ [LifeNext]_lvars => ControlOK'
  BY ControlNext
<1>3. TypeOK /\ ControlOK => LifeTypeOK
  BY DEF ControlOK, LifeTypeOK
<1>4. QED
  BY <1>1, <1>2, <1>3, LifeImplementsIngest, TypeCorrect, PTL DEF LifeSpec

\* When the stores have been closed and no read error ended the processor, every record
\* of the journal is below the mark a restart begins at, though inputs published until
\* the journal closed and though the deadline cut the drain short (app.go:332-365).
THEOREM ShutdownDrains == LifeSpec => []GracefulDrain
<1>1. LifeInit => ReceivedOnce
  BY DEF LifeInit, ReceivedOnce
<1>2. ReceivedOnce /\ [LifeNext]_lvars => ReceivedOnce'
  BY ReceivedOnceNext
<1>3. ReceivedOnce /\ DrainInv => GracefulDrain
  BY DoneIsDrained DEF ReceivedOnce, Ended, GracefulDrain
<1>4. QED
  BY <1>1, <1>2, <1>3, LifeImplementsIngest, DrainAlways, PTL DEF LifeSpec

=============================================================================
