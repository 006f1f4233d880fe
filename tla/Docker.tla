------------------------------- MODULE Docker -------------------------------
(***************************************************************************)
(* The Docker input (internal/input/docker.go): one goroutine lists the       *)
(* containers and then reads the stream of start events, a goroutine for       *)
(* each container follows its logs, and Stop waits for all of them.           *)
(***************************************************************************)
EXTENDS Integers, Sequences, FiniteSets

CONSTANTS
  Containers,
  MaxStarts    \* bound: times a container is started

ASSUME DockerAssumption == IsFiniteSet(Containers) /\ MaxStarts \in Nat

VARIABLES
  up,         \* the containers that run
  starts,     \* times one was started
  watch,      \* where the goroutine of Start is
  todo,       \* the rest of the list, and the container startFollow is at
  events,     \* start events in the open stream
  following,  \* Docker.following
  followers,  \* goroutines in followLogs, by container
  wg,         \* the wait group's counter
  stop        \* what Stop does

dkvars == <<up, starts, watch, todo, events, following, followers, wg, stop>>

\* Stop cancels the context as its first step.
Cancelled == stop # "no"

\* The stream of events is open in watch, or while startFollow serves it.
Subscribed == watch \in {"events", "inspectEvent"}

DockerTypeOK ==
  /\ up \subseteq Containers /\ starts \in 0..MaxStarts
  /\ watch \in {"top", "list", "each", "inspect", "subscribe", "events", "inspectEvent",
                "pause", "ended"}
  /\ todo \in [rest : SUBSET Containers, at : SUBSET Containers]
  /\ Len(events) <= MaxStarts /\ following \subseteq Containers
  /\ followers \in [Containers -> Nat] /\ wg \in Nat
  /\ stop \in {"no", "waits", "nil", "error"}

DockerInit ==
  /\ up = {} /\ starts = 0 /\ events = <<>> /\ stop = "no"
  /\ watch = "top" /\ wg = 1 /\ todo = [rest |-> {}, at |-> {}]
  /\ following = {} /\ followers = [c \in Containers |-> 0]

-----------------------------------------------------------------------------
(* The Docker engine.                                                       *)

ContainerStarts ==
  /\ starts < MaxStarts /\ starts' = starts + 1
  /\ \E c \in Containers \ up :
       /\ up' = up \cup {c}
       /\ events' = IF Subscribed THEN Append(events, c) ELSE events
  /\ UNCHANGED <<watch, todo, following, followers, wg, stop>>

ContainerDies ==
  /\ \E c \in up : up' = up \ {c}
  /\ UNCHANGED <<starts, watch, todo, events, following, followers, wg, stop>>

-----------------------------------------------------------------------------
(* watch.                                                                   *)

\* The goroutine ends when it looks at the context, in the loop or in a pause.
WatchEnds ==
  /\ watch \in {"top", "pause"} /\ Cancelled
  /\ watch' = "ended" /\ wg' = wg - 1
  /\ UNCHANGED <<up, starts, todo, events, following, followers, stop>>

WatchAgain ==
  /\ \/ watch = "top" /\ ~Cancelled /\ watch' = "list"
     \/ watch = "pause" /\ watch' = "top"
  /\ UNCHANGED <<up, starts, todo, events, following, followers, wg, stop>>

\* followExisting's request, which fails once the context is cancelled.
List ==
  /\ watch = "list"
  /\ \/ ~Cancelled /\ watch' = "each" /\ todo' = [todo EXCEPT !.rest = up]
     \/ watch' = "pause" /\ UNCHANGED todo
  /\ UNCHANGED <<up, starts, events, following, followers, wg, stop>>

\* startFollow: nothing for a container that is followed; else the flag is set and the
\* container inspected.
StartFollow_Unchecked(c, next, busy) ==   \* mutant: without the test of the flag
  /\ watch' = busy /\ following' = following \cup {c}
  /\ todo' = [rest |-> todo.rest \ {c}, at |-> {c}]

StartFollow(c, next, busy) ==
  /\ watch' = IF c \in following THEN next ELSE busy
  /\ following' = following \cup {c}
  /\ todo' = [rest |-> todo.rest \ {c}, at |-> {c} \ following]

FollowListed ==
  /\ watch = "each"
  /\ IF todo.rest = {} THEN watch' = "subscribe" /\ UNCHANGED <<todo, following>>
     ELSE \E c \in todo.rest : StartFollow(c, "each", "inspect")
  /\ UNCHANGED <<up, starts, events, followers, wg, stop>>

FollowStarted ==
  /\ watch = "events" /\ events # <<>>
  /\ StartFollow(Head(events), "events", "inspectEvent") /\ events' = Tail(events)
  /\ UNCHANGED <<up, starts, followers, wg, stop>>

Counter_NoAdd == wg               \* mutant: no wg.Add(1) before the goroutine
Counter == wg + 1

\* inspectTTY has returned, whatever it says; wg.Add and go.
Spawn ==
  /\ watch \in {"inspect", "inspectEvent"}
  /\ followers' = [c \in Containers |-> followers[c] + IF c \in todo.at THEN 1 ELSE 0]
  /\ wg' = Counter
  /\ watch' = IF watch = "inspect" THEN "each" ELSE "events"
  /\ todo' = [todo EXCEPT !.at = {}]
  /\ UNCHANGED <<up, starts, events, following, stop>>

\* followEvents: a container that starts between the list and the subscription is in
\* neither.
Subscribe ==
  /\ watch = "subscribe"
  /\ \/ ~Cancelled /\ watch' = "events"
     \/ watch' = "pause"
  /\ UNCHANGED <<up, starts, todo, events, following, followers, wg, stop>>

\* The stream ends, or the context; events in it are lost.
EventsEnd ==
  /\ watch = "events" /\ watch' = "pause" /\ events' = <<>>
  /\ UNCHANGED <<up, starts, todo, following, followers, wg, stop>>

-----------------------------------------------------------------------------
(* The followers, and Stop.                                                 *)

\* followLogs returns: the container died, the request or the stream failed, or the
\* context ended.  A start event that came before is spent by then.
FollowEnds ==
  /\ \E c \in Containers :
       /\ followers[c] > 0
       /\ followers' = [followers EXCEPT ![c] = @ - 1]
       /\ following' = following \ {c}
  /\ wg' = wg - 1
  /\ UNCHANGED <<up, starts, watch, todo, events, stop>>

Stop ==
  /\ stop = "no" /\ stop' = "waits"
  /\ UNCHANGED <<up, starts, watch, todo, events, following, followers, wg>>

StopReturnsNil ==
  /\ stop = "waits" /\ wg = 0 /\ stop' = "nil"
  /\ UNCHANGED <<up, starts, watch, todo, events, following, followers, wg>>

\* The caller's context ends first.
StopGivesUp ==
  /\ stop = "waits" /\ stop' = "error"
  /\ UNCHANGED <<up, starts, watch, todo, events, following, followers, wg>>

DockerNext ==
  \/ ContainerStarts \/ ContainerDies
  \/ WatchEnds \/ WatchAgain \/ List \/ FollowListed \/ FollowStarted \/ Spawn
  \/ Subscribe \/ EventsEnd \/ FollowEnds
  \/ Stop \/ StopReturnsNil \/ StopGivesUp

DockerSpec == DockerInit /\ [][DockerNext]_dkvars

-----------------------------------------------------------------------------
(* Properties.                                                              *)

\* A container's lines enter the journal once, by one follower, through lists that
\* are read again and events that announce what is followed already; and when Stop has
\* returned without an error nothing of the input is left that could publish
\* (docker.go:67-79, 194-215).
OneFollowerNoneAfterStop ==
  /\ \A c \in Containers : followers[c] <= 1
  /\ stop = "nil" => watch = "ended" /\ \A c \in Containers : followers[c] = 0

=============================================================================
