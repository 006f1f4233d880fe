------------------------------ MODULE Lifecycle ------------------------------
(***************************************************************************)
(* The life of the server process: App.Run and shutdown (internal/app), the *)
(* processor they start and drain (module Ingest, extended here), and the   *)
(* service wrapper that starts Run, waits for a signal and ends the process *)
(* (internal/svc).  The wrapper's own wait, kardianos/service, is not in    *)
(* the repository: it starts the program, blocks until the service manager  *)
(* or a signal says stop, calls Stop, and then the process ends.            *)
(***************************************************************************)
EXTENDS Ingest

\* The process may end, by itself or at the wrapper's hands: Boot is Ingest's Kill.
ASSUME LifecycleAssumption == "kill" \in Faults

VARIABLES
  main,      \* where Run and shutdown are
  failed,    \* Run is returning an error
  taken,     \* the one value sent on procDone has been received
  expired,   \* shutdownTimeout has passed since shutdown began
  handlers,  \* HTTP requests are in flight
  conns,     \* connections of the inputs are open
  storeOpen, \* the stores are not closed, nor the outputs stopped
  svc        \* the wrapper: "waiting", "stopping", or the process "exited"

mvars == <<main, failed, taken, expired, handlers, conns, storeOpen>>
lvars == <<vars, mvars, svc>>

Steps == {"start", "serve", "http", "inputs", "journal", "drain", "forced",
          "close", "returned"}

LifeTypeOK ==
  /\ TypeOK
  /\ main \in Steps /\ svc \in {"waiting", "stopping", "exited"}
  /\ failed \in BOOLEAN /\ taken \in BOOLEAN /\ expired \in BOOLEAN
  /\ handlers \in BOOLEAN /\ conns \in BOOLEAN /\ storeOpen \in BOOLEAN

LifeInit ==
  /\ Init
  /\ main = "start" /\ svc = "waiting"
  /\ failed = FALSE /\ taken = FALSE /\ expired = FALSE
  /\ handlers = FALSE /\ conns = FALSE /\ storeOpen = TRUE

Alive == svc # "exited"

-----------------------------------------------------------------------------
(* Run.                                                                     *)

\* StartAll binds every input; then the processor and the HTTP server start.
StartAll ==
  /\ main = "start" /\ main' = "serve"
  /\ UNCHANGED <<vars, failed, taken, expired, handlers, conns, storeOpen, svc>>

\* An input cannot be started: those before it are stopped and Run returns the
\* error, with no shutdown.
StartAllFails ==
  /\ main = "start" /\ main' = "returned" /\ failed' = TRUE
  /\ UNCHANGED <<vars, taken, expired, handlers, conns, storeOpen, svc>>

\* shutdown begins because the HTTP server failed,
ServerFails ==
  /\ main = "serve" /\ main' = "http" /\ failed' = TRUE
  /\ UNCHANGED <<vars, taken, expired, handlers, conns, storeOpen, svc>>

\* because the processor returned, its result being received here,
ProcessorEnds ==
  /\ main = "serve" /\ ppc \in {"done", "failed"} /\ ~taken
  /\ main' = "http" /\ taken' = TRUE /\ failed' = (ppc = "failed")
  /\ UNCHANGED <<vars, expired, handlers, conns, storeOpen, svc>>

\* or because the service manager asked for it.
ContextDone ==
  /\ main = "serve" /\ svc = "stopping" /\ main' = "http"
  /\ UNCHANGED <<vars, failed, taken, expired, handlers, conns, storeOpen, svc>>

\* Clients come and go.
Traffic ==
  /\ \/ handlers' = ~handlers /\ (main = "serve" \/ handlers) /\ UNCHANGED conns
     \/ conns' = ~conns /\ (main \in {"serve", "http"} \/ conns) /\ UNCHANGED handlers
  /\ main \notin {"start"} /\ ~(main = "returned" /\ storeOpen)
  /\ UNCHANGED <<vars, main, failed, taken, expired, storeOpen, svc>>

-----------------------------------------------------------------------------
(* shutdown.                                                                *)

Draining == main \in {"http", "inputs", "journal", "drain"}

Expire ==
  /\ Draining /\ ~expired /\ expired' = TRUE
  /\ UNCHANGED <<vars, main, failed, taken, handlers, conns, storeOpen, svc>>

\* server.Shutdown waits for the requests in flight, up to the deadline.
StopHTTP ==
  /\ main = "http" /\ (~handlers \/ expired)
  /\ main' = "inputs"
  /\ UNCHANGED <<vars, failed, taken, expired, handlers, conns, storeOpen, svc>>

\* StopAll closes the listeners and waits for the connections, likewise.
StopInputs_NoDeadline ==             \* mutant: conns.Wait() without the select
  /\ main = "inputs" /\ ~conns
  /\ main' = "journal"
  /\ UNCHANGED <<vars, failed, taken, expired, handlers, conns, storeOpen, svc>>

StopInputs ==
  /\ main = "inputs" /\ (~conns \/ expired)
  /\ main' = "journal"
  /\ UNCHANGED <<vars, failed, taken, expired, handlers, conns, storeOpen, svc>>

ShutJournal ==
  /\ main = "journal" /\ main' = "drain"
  /\ CloseJournal
  /\ UNCHANGED <<failed, taken, expired, handlers, conns, storeOpen, svc>>

Drained_NoWait ==                    \* mutant: a default case in the select
  /\ main = "drain" /\ main' = "close" /\ UNCHANGED taken
  /\ UNCHANGED <<vars, failed, expired, handlers, conns, storeOpen, svc>>

\* The processor's result arrives in time,
Drained ==
  /\ main = "drain" /\ ppc \in {"done", "failed"} /\ ~taken
  /\ main' = "close" /\ taken' = TRUE
  /\ UNCHANGED <<vars, failed, expired, handlers, conns, storeOpen, svc>>

\* or the deadline does, and the processor is told to stop.
ForceStop_NoWait ==                  \* mutant: no <-procDone after procCancel()
  /\ main = "drain" /\ expired
  /\ main' = "close" /\ cancelled' = TRUE
  /\ UNCHANGED <<qvars, closed, pvars, svars, hvars, failed, taken, expired,
                 handlers, conns, storeOpen, svc>>

ForceStop ==
  /\ main = "drain" /\ expired
  /\ main' = "forced" /\ cancelled' = TRUE
  /\ UNCHANGED <<qvars, closed, pvars, svars, hvars, failed, taken, expired,
                 handlers, conns, storeOpen, svc>>

\* <-procDone, without a deadline.
Forced ==
  /\ main = "forced" /\ ppc \in {"done", "failed"} /\ ~taken
  /\ main' = "close" /\ taken' = TRUE
  /\ UNCHANGED <<vars, failed, expired, handlers, conns, storeOpen, svc>>

\* The outputs stop, the stores close, and Run returns.
CloseStores ==
  /\ main = "close" /\ main' = "returned"
  /\ storeOpen' = FALSE
  /\ UNCHANGED <<vars, failed, taken, expired, handlers, conns, svc>>

-----------------------------------------------------------------------------
(* The service wrapper.                                                     *)

\* program.Stop cancels Run's context.
Signal ==
  /\ svc = "waiting" /\ svc' = "stopping"
  /\ UNCHANGED <<vars, mvars>>

\* It waits for Run to return; then the process ends.  A Run that returned by
\* itself was only logged.
Exit ==
  /\ svc = "stopping" /\ main = "returned"
  /\ svc' = "exited"
  /\ UNCHANGED <<vars, mvars>>

\* It waits no longer than stopGrace.  That is longer than shutdownTimeout, so
\* every wait of shutdown that has a deadline is over by then.
GraceOver ==
  /\ svc = "stopping" /\ main = "forced"
  /\ svc' = "exited"
  /\ UNCHANGED <<vars, mvars>>

\* The process is started again.
Boot ==
  /\ svc = "exited" /\ StartAgain
  /\ main' = "start" /\ svc' = "waiting"
  /\ failed' = FALSE /\ taken' = FALSE /\ expired' = FALSE
  /\ handlers' = FALSE /\ conns' = FALSE /\ storeOpen' = TRUE

-----------------------------------------------------------------------------
\* What the processor and the inputs do while the process lives.  An input's
\* connection that outlives StopAll can still publish.
Work ==
  /\ main \notin {"start"} /\ ~(main = "returned" /\ storeOpen)
  /\ \/ Processor
     \/ (main \in {"serve", "http"} \/ conns) /\ Publish
     \/ (main \in {"serve", "http"} \/ conns) /\ \E n \in put : EvictBelow(n)
  /\ UNCHANGED <<mvars, svc>>

RunSteps ==
  \/ StartAll \/ StartAllFails \/ ServerFails \/ ProcessorEnds \/ ContextDone
  \/ StopHTTP \/ StopInputs \/ ShutJournal \/ Drained \/ ForceStop \/ Forced
  \/ CloseStores

LifeNext ==
  \/ Alive /\ (Work \/ RunSteps \/ Traffic \/ Expire \/ Signal \/ Exit \/ GraceOver)
  \/ Boot

LifeSpec == LifeInit /\ [][LifeNext]_lvars

\* Every goroutine that can go on does, and time passes; clients need not go,
\* and no read of the journal is made to fail.
LifeFairSpec ==
  /\ LifeSpec
  /\ WF_lvars(Alive /\ Processor /\ Work /\ ppc' # "failed")
  /\ WF_lvars(Alive /\ main # "serve" /\ RunSteps)
  /\ WF_lvars(Alive /\ (ContextDone \/ ProcessorEnds))
  /\ WF_lvars(Alive /\ Expire) /\ WF_lvars(Exit) /\ WF_lvars(GraceOver)

-----------------------------------------------------------------------------
(* Properties.                                                              *)

\* The processor never works on a closed store or a stopped output, not even
\* when its drain is cut short (app.go:288-289).
StoreOutlivesProcessor ==
  Alive /\ ppc \notin {"next", "gather", "done", "failed"} => storeOpen

\* Unless a read error ended the processor, shutdown leaves no record in the journal
\* that the next start would have to process, though inputs may publish until it
\* closes, and though the deadline may cut the drain short: what is left then is read
\* and given up, not kept (app.go:288-289, 353-359).
GracefulDrain ==
  ~storeOpen /\ ppc # "failed" => \A n \in put : n < mark

\* A stop that the service manager asks for ends the process, although requests
\* and connections may stay open for ever (svc.go:49-62).
StopCompletes == svc = "stopping" ~> svc = "exited"

\* "shutdown drains subsystems in order, bounded by shutdownTimeout"
\* (app.go:332): whatever began it.
ShutdownBounded == main = "http" ~> main = "returned" \/ ~Alive

=============================================================================
