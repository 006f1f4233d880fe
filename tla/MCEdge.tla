------------------------------- MODULE MCEdge -------------------------------
(***************************************************************************)
(* Instances of Outputs, Fleet, Docker and GelfChunks for TLC.  A behaviour   *)
(* exercises one of them, named by part; the others keep one state.          *)
(***************************************************************************)
EXTENDS Outputs, Fleet, Docker, GelfChunks

CONSTANT Parts

VARIABLE part
mcvars == <<part, outvars, flvars, dkvars, gfvars>>

\* Two outputs are replaced by none; messages of stream "a" go to both of them.
MCSetups == <<{"o1", "o2"}, {}>>
MCWanted == [o \in Outs |-> IF o = "o1" THEN {"a", "b"} ELSE {"a"}]

\* A message of three chunks, one of two, and one whose second chunk is empty.
MCCount == [id \in Ids |-> IF id = "m" THEN 3 ELSE 2]
MCEmptyChunks == {<<"e", 1>>}

-----------------------------------------------------------------------------
OutStep(A)   == part = "outputs" /\ A /\ UNCHANGED <<part, flvars, dkvars, gfvars>>
FleetStep(A) == part = "fleet" /\ A /\ UNCHANGED <<part, outvars, dkvars, gfvars>>

MCInit == part \in Parts /\ OutInit /\ FleetInit /\ DockerInit /\ GelfInit

MCNext ==
  \/ OutStep(OutNext)
  \/ FleetStep(FleetNext)
  \/ part = "docker" /\ DockerNext /\ UNCHANGED <<part, outvars, flvars, gfvars>>
  \/ part = "gelf" /\ GelfNext /\ UNCHANGED <<part, outvars, flvars, dkvars>>

\* Workers and the loops that stop them are goroutines whose calls have deadlines; so
\* have the agent's calls.
MCSpec ==
  /\ MCInit /\ [][MCNext]_mcvars
  /\ \A w \in Workers : WF_mcvars(OutStep(WorkerStep(w)))
  /\ \A g \in 1..MaxGen : WF_mcvars(OutStep(StopStep(g)))
  /\ WF_mcvars(FleetStep(Round))

TypeOK ==
  CASE part = "outputs" -> OutTypeOK
    [] part = "fleet"   -> FleetTypeOK
    [] part = "docker"  -> DockerTypeOK
    [] OTHER            -> GelfTypeOK

=============================================================================
