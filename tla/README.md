# A verification model of Tollan

Tollan is a log management server in one Go process: inputs receive messages
and append them to a disk journal, one processor goroutine decodes them, routes
them through pipelines and stores them in one SQLite database per UTC day, and
an HTTP API searches them. Retention, an event engine, outputs and a fleet of
agents work beside that path.

These modules model the path a message takes from `Append` to the outputs, the
life of the process around it, the files of the store and what searches make of
them, the two small languages, and what is reconfigured while the server runs.
Every definition that stands for code names its lines in `PROJECT.json` under
`map`.

## Inventory

Paths are below `src/internal/` unless they begin with another directory.

| Component | State it keeps | Operations | What makes it correct | Model |
|---|---|---|---|---|
| `journal/` | segment list, active file, `nextSeq`, `readNext`, `closed`, two channels; segment files and `committed.offset` on disk; the reader's file, offset and sequence | `Append`, `rotate`, `evictLocked`, `Commit`, `Sync`, `Close`, `recover`, `Reader.Next` | at least once, in order, bounded on disk, a wake-up is never lost, a closed journal drains | `IngestQueue`, `Journal` |
| `processing/` | the batch in hand | `Run`, `gather`, `processBatch`, `storeWithRetry` | no record disappears unaccounted, it makes progress, it ends | `Ingest` |
| `logstore/sqlite/` writing | open handles per day, rows | `Store`, `storeDay`, `db`, `Close` | a retry or a partly stored batch duplicates nothing | `Ingest`, `Partitions` |
| `logstore/sqlite/` pruning, `retention/` | partition files, their full-text index | `Sweep`, `DropBefore`, `DeleteStreamBefore` | what a policy lets go of is removed, and nothing else, whatever overlaps | `Partitions` |
| `logstore/sqlite/` searching | none | `Search`, `Histogram`, `Aggregate` | a search of the days equals one search of the union | `Search` |
| `search/query/`, `logstore/sqlite/compile.go` | none | `Parse`, `compileExpr` | precedence and negation; the SQL selects what the query means | `QueryLanguage`, `Compiler` |
| `app/`, `svc/`, `server/` | `procDone`, contexts, deadlines | `Run`, `shutdown`, `Start`, `Stop` | stops in order and in bounded time, nothing works on a closed store | `Lifecycle` |
| `app/` `Reload`, `api/config.go`, `api/contentpack.go`, `meta/entity.go`, `lookup/` | entities in SQLite; what is installed in router, policies, tables, engine, outputs | put, delete and import an entity; `Reload` | what is installed is what is stored | `Reload` |
| `pipeline/`, `stream/`, `schema/` | compiled rules and streams behind two locks | `SetPipelines`, `SetStreams`, `Process`, `Route` | what a condition means; a message is routed by one set of streams | `Message`, `ConditionLanguage`, `Rules` |
| `event/`, `notify/` | `lastFired` | `EvaluateAll`, `fire`, `dispatch` | one notification per grace period | `Events` |
| `output/` | workers, buffers, connections | `SetOutputs`, `Dispatch`, `Stop` | never blocks the processor, counts what it drops; old workers end | `Outputs` |
| `agentfleet/`, `api/agents.go`, `meta/agents.go`, `cmd/tollan-agent` | secret, tailed files; agents table | `register`, `heartbeat`, `fetchConfig`, `SetAgentConfig` | an agent converges to its configuration | `Fleet` |
| `input/docker.go` | followed containers, wait group | `watch`, `startFollow`, `Stop` | each container's log once; nothing publishes after `Stop` | `Docker` |
| `input/gelf.go` chunks | partial messages | `add` | a message is whole, once | `GelfChunks` |
| `input/` otherwise | listeners, connections | `StartAll`, `StopAll`, `Publish` | what is published is in the journal | start and stop in `Lifecycle` |
| `decode/`, `config/`, `metrics/`, `geoip/`, `auth/`, `crypto/`, `version/`, `web/` | - | formats, files, primitives, presentation | - | not modelled |

How they interact: inputs call `journalPublisher.Publish`, which is `Append`
under the journal's mutex, from many goroutines. The processor owns the only
`Reader`; it runs `Engine.Process` on each message, calls `Store`, then
`outputs.Dispatch` (never blocks), then `Journal.Commit`. `App.Run` starts them
and waits for the first of three channels; `shutdown` stops them one after
another under one deadline of 30 s. The service wrapper calls `Run` on a goroutine
and, on a stop, cancels its context and waits at most 35 s. Eviction is a side
effect of `Append` that changes the state the reader and `Commit` work on. Cron
starts retention sweeps and event evaluations in goroutines of their own, which
nothing waits for. API handlers write entities and call `App.Reload`, each on its
own goroutine.

What is hard: the reader reads segment files and the directory without the
mutex; `Commit` copies under the mutex and writes after; a crash can fall
between any two of these; a batch is several transactions; the processor's
context and the journal's closing both end the loop, in any order; the shutdown
steps have deadlines and the goroutines they wait for have none; files of
partitions are removed outside the lock that guards their handles; reloads,
sweeps and evaluations overlap with themselves; a worker's connection has two
owners; the agent's secret changes with every registration. `PROJECT.json` lists
each hazard at its line.

## Modules

| Module | What it is |
|---|---|
| `IngestQueue` | what the journal promises: put, evict, take, commit, save, restart over sequence numbers; no files |
| `Journal` | `journal.go` and `reader.go` with the file system under them |
| `Ingest` | processor and store, over `Queue == INSTANCE IngestQueue` |
| `Lifecycle` | `EXTENDS Ingest`; `App.Run`, `shutdown`, the service wrapper |
| `Partitions` | the files, handles and index of each day; a writer, sweeps, `Close` |
| `Search` | fan-out over days: page, histogram, aggregation, percentile |
| `QueryLanguage` | the parser of queries, and their grammar |
| `Compiler` | the trees of queries compiled to SQL, with SQLite's three-valued conditions |
| `Reload` | entities, and where `App.Reload` installs them |
| `Events` | evaluations, throttle and events |
| `Message` | columns and fields of a message, and the tests made on one |
| `ConditionLanguage` | the parser of conditions, their grammar, and what they say of a message |
| `Rules` | `EXTENDS Message, Reload`; actions, routing, one message beside the reloads |
| `Outputs` | manager, workers and the loop that stops them |
| `Fleet` | one agent, its row in the database, its administrator |
| `Docker`, `GelfChunks` | two inputs with state of their own |
| `JournalProofs`, `IngestProofs`, `LifecycleProofs`, `PartitionsProofs` | theorems, each about the module of its name |
| `SearchProofs` | theorems about `Search` and `Compiler` |
| `ServerProofs` | theorems about `Reload`, `Events` and `Rules` |
| `EdgeProofs` | theorems about `Outputs`, `Fleet`, `Docker`, `GelfChunks` and their composition `MCEdge` |
| `FoldLemmas` | what `FoldSet` computes of a finite set of numbers or sets, for the proofs about sums |
| `MCJournal`, `MCIngest`, `MCLifecycle`, `MCStorage`, `MCServer`, `MCEdge` | the modules TLC is started on; the `.cfg` files give the constants |

`Journal => IngestQueue` is checked and proved as a refinement (property
`ImplementsQueue`), so `Ingest` may use the small queue instead of the files, and
`Lifecycle` extends `Ingest` with the process around it, which is proved to
implement `Ingest`. `Rules` extends `Reload`: its message meets whatever the reloads
have installed. The other modules are about parts
that share no state with each other. `MCStorage`, `MCServer` and `MCEdge` each put
several of them into one run: a variable `part`, chosen in the initial state and
never changed, says which of them the behaviour exercises, and the others keep
one state. `TypeOK` there is that of the part.

### Journal

An `Append` holds `Journal.mu` throughout, but the reader sees its file writes
as they happen. So it is five steps: `AppendBegin` (the closed test, rotation,
`ensureActive`), `AppendWrite`, one `EvictOldest` for each turn of the eviction
loop, `AppendReturn` (the ping). Steps of others that take the mutex (`Snapshot`,
`Commit`, `Close`) wait for `apc = "idle"`; the reader's file steps do not.

`Reader.Next` is `ReadFrame`, or `NoFrame`, `Snapshot` (the part under the
mutex), `OpenSegment`, `Wake` or `WaitExpires`. `rpc` is where it is. A call
of `Next` begins at `"idle"`; the consumer commits between two calls. A file
keeps its content when its name is removed (`linked`), as an open descriptor
does.

A frame is a sequence number, the byte offset where it ends and whether it is
complete. Fragments come from a kill during a write (`KillTorn`) or a write that
fails (`ShortWrite`). What `highestSeq` makes of a fragment followed by bytes is
a choice: it may stop there, or take the following bytes as its payload.
`DecodeError` is the same choice in `readFrame`. After a power failure any number
of unsynced frames at the end of the newest file is left; the renamed
`committed.offset` is taken to be on disk. `Reopen` is `recover` and `NewReader`
together.

`id` numbers the calls of `Append`; it is history, as are `acked`, `batch`,
`done` and `gone`. `Owed == acked \ (gone \cup done)` is what the journal still
has to deliver.

### Ingest

The processor's program counter is `ppc`. `Take` is a successful `Next`, in `Run`
or in `gather`; it does not test the context, since the code does not while a
record is there. `GatherEnds` decodes the batch: each record gets a day, or is
dropped. `StoreDay(d)` is one committed transaction, in any order of days (a Go
map is iterated); `StoreFails` rolls back the current one and leaves the earlier
ones. `Retry`, `Abandon`, `Dispatch`, `Commit` and `Save` follow
`processBatch`. A row carries the UUID the message was given; the UUID is drawn
once per decoding, so per life of the process, which `NewId` is. `Save` may
leave the saved mark behind: writing the offset may fail.

The faults are kills of the process, not of the machine. A power failure takes what
`Append` has not synced and leaves `committed.offset` as it was renamed, so that new
records are numbered below the saved offset and the next start skips them
(`journal.go:151-154` corrects the cursor in memory only). After that the journal is
not the queue `Ingest` takes it for: `Journal` models it (`PowerLoss`),
`ImplementsQueue` is claimed without it, and nothing here is claimed with it.

### Lifecycle

`main` is the position of `Run` and `shutdown`, `svc` the service wrapper, and
`taken` says that the only value of `procDone` was received. `Work` is every step
of the processor and the inputs while the process lives; inputs may publish until
they are stopped, and a connection that outlives `StopAll` may publish after.
`Boot` is the start of the next process.

### Partitions

A handle is an `sql.DB`. `DB(d, h)` is `Store.db`: it returns the open handle or
opens one, which creates the file. `DropBefore` is two steps for each day,
`DropCloses` under the mutex and `DropRemoves` outside it; in between, or after,
someone may hold a handle whose file is gone (`linked`). What is written through it
reaches nobody. `DeleteStreamBefore` is `PruneBegins` (it lists the days),
`PruneOpens`, `PruneIndex`, `PruneRows`; `fts` and `table` change in different
steps, since they are two statements outside a transaction. The writer's
transaction holds the only connection of its handle, so these wait for it (`Busy`).
`CloseStore` does not wait for sweeps. `Crash` forgets the handles and keeps the
files. A batch is one message: `Ingest` has the batches.

### Search, QueryLanguage and Compiler

These are pure: a state is one request on one store, or one token sequence, or one
tree. `Page`, `Histogram`, `Accumulators` and `Percentiles` are what the code
computes, day by day; the properties compare them with operators over the union
of the rows. A sort is given by what it means: the member at a place is the one that so
many others precede (`InOrder`). `Parse` follows the functions of the parser, one operator for each;
`Derives` is the grammar in the comment of `ast.go`, as the set of all trees it
allows, so that the comparison also shows that it is unambiguous. `Walk` is
the compiler and SQLite's evaluation in one: a condition yields true, false
or NULL. It is a recursive function on `Exprs`, all trees up to a height, each `Levels[n]`
with operands from the levels below it; `Emit` is one call of `walk`, given the answers for
the operands. `CompilerAssumption` says, beside that, that a text is not empty and that
what is compared in a field that is no column is a number: `CAST ... AS REAL` makes 0 of a
text, which the grammar does not speak of.

### Reload

The entities of a kind are represented by the number of the write that made them
what they are; `live` has what each place got. `Steps` is the order of `Reload`,
one read and then one or two installs for each kind. A request is `Begin`, one
`Write` for each entity, then the steps. `GivesUp` is a client that disconnects
(the request's context ends) or a store that fails. Only an import can store a
pipeline that does not compile, since `putEntity` validates; `broken` then holds until the
last such pipeline is replaced or deleted, and which write that is, is a choice. `since` is
history: for each kind, what was stored when a reload last ran to its end alone and without
error, and all that was stored later.

### Events

`EvaluateAll` starts a job when cron is due, also while another runs. Each
definition is looked at (`Evaluate`, the throttle), queried (`Finds`), and each row
beyond the threshold is marked and rendered (`Fire`), inserted (`Inserts`) and sent
(`Dispatches`). `seen` and `checkedAt` are history: what had been fired when the
throttle was looked at.

### Message, ConditionLanguage and Rules

`CondOr` and the operators around it are the parser, `Readings` the grammar as the
set of trees. `Rules` takes from them that a condition compiles and holds of a message, as
`CondCompiles` and `CondHolds`; the run gives them `Compilable` and `HoldsOf` of
`ConditionLanguage`, and what is proved of `Rules` holds whatever conditions mean.
`Act` is the actions, on a message with four columns and a map of
fields. Patterns, lookups, conversions and extractions are tables. `FirstMatch` is the
loop of `Route`; a stream whose pattern does not compile, which `Reload` leaves out of the
list, is passed over there. One message goes
through `RunPre`, `RouteIt` and `RunStream`, each of which reads what `Reload` has put into
`live["rules"]` or `live["router"]` by then, under a lock of its own; `Reloading` is any step
of any request. `Configs[n]` is what write *n* leaves stored, as streams or as pipelines. Since
reloads overlap, and each lists the pipelines after it has installed the streams, the rules
may be newer than the router or older, and the two stages of rules from different moments.

### Outputs

`wk` has each worker with its buffer and connection, `stopper` the loop of
`SetOutputs` or `Stop` over the replaced generation. `worker.stop` reads `w.conn`
twice without a lock (`StopLooks`, `StopCloses`) while the worker dials, writes and
clears it. The race is a choice: the second read may find the old value or the
new one; if it is nil the call panics, which an HTTP handler survives and `shutdown`
does not.

### Fleet

`row` is the agent in the database, `agent` its process, `disk` the secret it
saved. A registration is `Enroll` and `Answer` on the server and `Registered` or
`RegisterFails` at the agent; a request that was given up may still be handled
later (`EnrollLate`). A heartbeat fails when the secrets differ, and then the
agent registers. `tailing` is the set of files a goroutine was started for.

### Docker and GelfChunks

`watch` is where the listing goroutine is, `following` the set of container ids,
`wg` the counter of the wait group, which `Stop` waits on. Docker itself starts and
stops containers at any time and may end the event stream. `GelfChunks` takes
chunks in any order, late, repeated or never; a payload is the number of the
datagram that brought it. All chunks of a message carry one count: `add` tests a chunk's
number against the count it carries itself and not against that of the message that waits
(`gelf.go:135`, `149`), so a later chunk of the same id with a larger count indexes past
`p.parts` and panics, which the model leaves out.

## Runs

Bounds are in the `.cfg` files.

| Run | Expect | Asks |
|---|---|---|
| `JournalKill` | pass | `RecoverableAfterKill`: at every state, a kill now leaves each owed record on disk at or above the saved offset and reachable. `NothingSkipped`: the running reader never moves past a record it has not delivered. `DiskBounded`. `NeverRedelivered`, `DeliveredInOrder`. `ImplementsQueue`. |
| `JournalFragments` | pass | with torn and short writes and failing rotations: `DamageConfined`, only records behind a fragment in the same file are lost |
| `JournalLive` | pass | `EventuallyProcessed`, `DrainsRecords`, with power failures, failing rotations and commits |
| `JournalTornLoss` | violation | a record acknowledged after a torn write is unreachable |
| `Ingest` | pass | `NothingLost`, `OncePerLife`, `ForwardedIsStored`, `NotStoredAgain`, `Progress`, `RunEnds`: two days, kills at any step, failing transactions and reads |
| `IngestStoreLoss` | violation | a batch that was not stored is committed |
| `Lifecycle` | pass | `StoreOutlivesProcessor`, `GracefulDrain`, `StopCompletes` over every way to start and stop, one restart |
| `LifecycleHang` | violation | shutdown after the processor's own end never returns |
| `Storage` | pass | `KeptUntilExpiry`: a stored message stays, with its index entry, until its policy ends. `SweepPrunes`: what had expired is gone after a sweep without errors. `PageOfUnion`, `ChartsOfUnion`, `NearestRank`: merging days is searching the union. `ParsesTheGrammar`. `SqlMeansTheQuery`. |
| `StorageIndex` | violation | a row deleted whose index entry stays |
| `Server` | pass | `ReloadsConverge`: an undisturbed reload leaves what is stored installed everywhere (`QuietIsCurrent`), and what had been replaced by then never comes back, however later reloads overlap (`NothingReturns`). `GraceKept`. `ConditionsMean`: conditions parse as their grammar says. `RoutedByTheRules`: a message is routed by its rules or by one set of streams, stored together, whatever reloads do meanwhile. |
| `Edge` | pass | `EveryMessageCounted`, `ReplacedWorkersEnd` (outputs), `OneFollowerNoneAfterStop` (Docker), `WholeAndOnce` (GELF), `AgentConverges` (agent) |

Every property of a passing run has a mutant: a change of one mapped definition
of the kind a slip in the code would be, under which TLC finds it violated. The
mutants stand before the definition they change, marked `mutant`.

### Bounds, and why they are enough

*Journal.* Sizes 1 and 2 with `MaxSeg = 2` make segments of one and of two
records; `MaxTotal = 3` makes the second rotation evict, and evict while the
reader has the file open, has only copied the list, or is behind by a whole
segment. Four appends give three segments, two of them evicted. Two faults
give a kill during the recovery from a kill. `JournalFragments` has a cap
(`MaxTotal = 20`) that is never reached: eviction is left out of it, since
`DamageConfined` is about what fragments cost and eviction of a segment reopened
under the same base is a known divergence (below).

*Ingest.* Two records and batches of at most two give a batch of two and two
batches of one; two days make partly stored batches; two attempts make one retry
after a partial store. One restart suffices for reading a record twice.

*Lifecycle.* One record, which inputs may publish before or after they were
stopped, and one day: batches and days matter to `Ingest` only.

*Storage.* Two sweeps (at start and nightly), three messages and one crash. When the clock
moves, one file is due, and in the other one message expires while its neighbour stays. So
there are states with a message to be kept while a sweep deletes from its file, while both
sweeps do, while the other file is removed and its writer still holds it, and while the
store stops. Requests have every page over up to five rows on
two days, with equal timestamps and missing values. Token sequences up to four
tokens over all connectives, five over some of them, and near misses of the longer
clauses; trees of two operators.

*Server.* Two requests, three writes and a restart: two reloads overlap and a third
repairs. Two evaluations, three rounds, a grace of two. Beside a message the same two
requests write streams and pipelines twice, or three times after an import, with three
configurations, the second of which does not compile, and finish their reloads
(`BesideReloads` in `MCServer`); messages with and without each field. Conditions as for queries.

*Edge.* Two outputs in a generation that is replaced, and two messages, of which the
second can overflow a buffer of one. Two containers and four starts: they die and
come back, before and after they are seen. Chunks of three messages, four datagrams, two ticks over a timeout of one. Two edits, two
failing calls and a restart of the agent.

`CHECK_DEADLOCK FALSE` in all runs: the appends, faults and lives are bounded, a
closed journal, an ended process and an answered request stop. Symmetry is used in
`Storage` and `Server` only, which check no liveness.

### Fairness

`Journal`: weak fairness for each step of an `Append` that holds the mutex and for
the processor's loop around `Next` (goroutines the Go scheduler runs). Nothing is
assumed of callers of `Append` and `Close`, nor of faults. `Commit` is strongly
fair: `gather` stops after `BatchSize` records or `BatchWait`, so a consumer
that gets to the point where it may commit again and again does commit, although
each further record disables and re-enables the step.

`Ingest`: weak fairness of `Processor` as a whole, one goroutine, but for
`RunFails`: that a read fails is possible, never owed (fairness that included it
would free a reader that waits for ever). That `Store` succeeds is not assumed.

`Lifecycle`: weak fairness of the processor (as in `Ingest`), of `Run`'s steps, of the deadline
(time passes) and of the wrapper. Nothing is assumed of clients (`Traffic`), of
the HTTP server failing or of a stop being requested.

`Edge`: weak fairness of each worker and of each loop that stops workers, whose
dials and writes have deadlines in the code, and of the agent's `Round`, whose
HTTP client has a timeout. Nothing is assumed of peers, of calls succeeding (their
failures are bounded), or of registrations that were given up.

## Theorems

TLAPS checks these for every value of the constants that the `ASSUME` of the module
allows, which the runs evaluate: sizes and limits are positive, bounds are natural
numbers, tables have the types of their columns, `Faults` is a set of the known
kinds. Some of the assumptions say more: a process can always be killed
(`LifecycleAssumption`; a process that shutdown abandons, or that the service manager
kills, ends that way), the containers are finitely many (`DockerAssumption`) and an
imported pack has an entity (`ReloadAssumption`). What is configured is lists
(`RulesAssumption`), and a tree has its operands among the lower ones
(`CompilerAssumption`, with what is said of texts and numbers above). The rows of a store are finitely many
with one id each, and `Scale`, the fraction that averages are kept in, is divisible by
any number of rows (`SearchAssumption`): the code's floating point is taken as exact.

The bounds on steps (`MaxPuts`, `MaxFaults`, `MaxLives` and the like) are parameters
in these theorems: a property that holds for all of them holds of behaviours of any
length.

### Journal

* `TypeCorrect: Spec => []TypeOK`, with all faults. `TypeOK` is not inductive:
  `AppendWrite` indexes the list at its length and the file map at the newest base.
  `TypeInv` adds that every listed segment has a file (`SegsHaveFiles`), that an
  `Append` past its first step or a handle means the list is not empty
  (`NewestListed`), and that the directory is finite, which `recover` needs to list it.
* `KillLosesNothing`, `NothingIsSkipped`, `InOrder`, `CommitsLast` (the runs'
  `RecoverableAfterKill`, `NothingSkipped`, `DeliveredInOrder`, `NeverRedelivered`)
  and `JournalImplementsQueue` (`ImplementsQueue`) assume `WholeWrites`: kills,
  failing rotations and failing commits at any step, but no write that leaves a
  fragment and no power failure. The code does not keep these promises after a
  fragment, as `JournalTornLoss` shows, and a power failure takes records that
  `Append` has returned and nothing has synced.

  The invariant is `JournalInv`. The list is the directory in ascending order
  (`ListedInOrder`); a file holds whole frames in ascending order, from its base on and
  below the base of the next (`FramesInOrder`); the newest file ends at `nextSeq`,
  but for the number a kill may leave unused (`NewestIsNext`); each call of `Append`
  has at most one frame, in one place (`CallsAreFrames`); `offset <= readNext`, and
  `rmax <= rseq <= nextSeq` (`CursorsInOrder`); of the records in the directory, those
  below `rseq` were delivered and those below `readNext` committed
  (`PassedIsDelivered`); and the reader's place in its file agrees with `rseq`, or, in
  a file that was evicted under it, what is left to read is above what it delivered
  (`ReaderInPlace`). The last is what a reader without the mutex needs: it decides by a
  copy of the list, and goes on in a file that has no name any more.

  One lemma for each action shows that it keeps `JournalInv`. `KillFinds` is about
  recovery: `recover` finds the list it had (an ascending enumeration of a finite
  directory is unique, `AscendingListsAll`) and the same `nextSeq`
  (`HighestOfWhole`). `FoundIsNext` is about the reader: the frame it finds is at or
  above every one it has delivered, and nothing it has not delivered is below it.

  For the refinement, `StoredSeqs` is the queue's `put`. `AppendWrite` is `Put`,
  `EvictOldest` is `Evict` of the second segment's base, which is a record's number,
  `ReadFrame` is `Take`, `Commit` is `Commit` of the last record delivered,
  `SaveOffset` is `Save`, `Kill` is `Restart`; everything else is a stutter.
* `DiskStaysBounded: CapHolds /\ Spec => []DiskBounded`, with all faults. `CapHolds`: a
  segment and a frame fit the cap. `Options` does not ask for it, since the newest segment
  is never evicted; the defaults (16 MiB, 1 GiB) satisfy it. The code compares the
  cap with the sizes in its list, which may say less than what is on disk: a failed write
  is not counted. The invariant (`DiskInv`) relates the two: what is on disk is at most
  what the list says and one frame for each fault so far (`DiskListed`); the list never
  says more of a file than it holds (`Covered`), so an eviction takes at least as much
  from the disk as from the list; and disk and cap differ by one frame for each fault,
  and one more while an `Append` evicts (`AtMost`). The sums are by `FoldLemmas`.
* `DamageStaysConfined: Spec /\ []~OverCap => []DamageConfined`, without power failures.
  After a fragment hardly anything of `JournalInv` is left: files hold frames that
  nobody can reach, sequence numbers are handed out again, a base is listed twice.
  What `DamageInv` keeps: the list names the files of the directory
  (`ListIsDirectory`); the frames that can be reached ascend (`FramesOrdered`), and what
  recovery may read of the first fragment is above what lies before it
  (`FragmentLast`); an acknowledged record has a frame (`AckedHaveFrames`); no cursor is
  above what recovery will find (`CursorsHeld`); and the reachable records below a
  cursor are delivered or done (`PassedDone`), for which the reader's place in its file
  has to agree with its sequence number (`ReaderAt`).
  `[]~OverCap` says that nothing is ever evicted. It is needed, not convenient: with
  eviction the statement is false (see below).

### Ingest and Lifecycle

* `IngestProofs!TypeCorrect: Spec => []TypeOK`, with `AttemptBound`: the bound of
  the retry counter at each place that reads it.
* `NoSilentLoss: Spec => []NothingLost`. `NothingLost` speaks of the
  saved mark. `LossInv` strengthens it: everything below the mark in memory, below
  the oldest record left, and everything the reader has passed except the batch in
  hand, is accounted for (`PassedIsAccounted`); the marks are in order
  (`MarksInOrder`); and for each position of the processor, which records of the
  batch are already stored or dropped (`BatchIsKnown`), with the days that are
  `left` while it stores.
* `OutputsGetStored` (`ForwardedIsStored`): before `Dispatch`, each record of the batch
  has its row under this life's id (`BatchHasRows`), which a forwarded one keeps.
* `NoDuplicates` (`OncePerLife`): the rows of this life are of records the reader has
  passed, and one of the batch is in the day the batch puts it in, so a retry of that
  day writes the same row (`StoredOnce`).
* `CommittedOnce` (`NotStoredAgain`): what the processor has yet to store is at or above
  the mark, or was evicted while the reader held its file (`AheadOfMark`).
* `LifecycleProofs!LifeImplementsIngest: LifeSpec => Spec`. `Run`, `shutdown` and the
  service wrapper use the processor and the journal only as `Ingest` allows; it needs
  that the journal is shut when shutdown drains (`JournalShut`). `LifeLosesNothing`,
  `LifeStoresOnce` and `LifeForwardsStored` follow: what was proved of `Ingest` holds
  through every start and stop.
* `StoresOutliveProcessor: LifeSpec => []StoreOutlivesProcessor`.
  The invariant `ReceivedOnce` links the two sides of `procDone`: its value has
  been received only if the processor has ended, shutdown reaches `Close` only
  with it received, and nothing else closes the stores. A processor that has
  ended takes no step (`ProcessorIsOver`), so its side cannot change until `Boot`.
* `ShutdownDrains` (`GracefulDrain`): with `DrainInv` of `IngestProofs`: the processor
  that returned did so on a closed journal that it had read to the end (`RanDry`), and
  everything it passed is below the mark (`PassedIsCommitted`). `LifeTypeCorrect`
  (`LifeTypeOK`).

### The other modules

* `PartitionsProofs`: `RetentionKeeps` (`KeptUntilExpiry`) and `RetentionPrunes`
  (`SweepPrunes`) from `PartInv`. A handle in use is on the file of its day, or on one
  that a sweep removed, and then of a day that is no longer kept (`HandlesOnFiles`,
  `WriterOnFile`): what is written through it would be removed anyway. Each sweep has
  before it whatever was due when it began and is still stored (`SweepOK`,
  `Pending`), which another sweep can only reduce.
* `ServerProofs!QuietConverges` (`ReloadsConverge`), from `ReloadInv`: a request that
  runs on its own and has met no error has installed what is stored at each place it
  has been through (`OwnWork`, `Done`), and after it nothing changes until a write
  (`SettledIsCurrent`). Of reloads that overlap, `SinceInv` says that whatever they have
  read and may still install was stored at that moment or later: no request that read
  before it is left when things settle.
* `ServerProofs!GraceHolds` (`GraceKept`), from `EventInv`: `lastFired` is not before any
  event of this life (`EventsMarked`), so an evaluation that gets past the throttle is
  out of the grace of every event it could see (`JobOK`); it fires for those only,
  and others may fire meanwhile.
* `ServerProofs!RoutingIsRight` (`RoutedByTheRules`), from `RouteInv`: a message past routing
  is what `Route` makes of it by the streams that were installed then, which `ReloadInv` makes
  those of one write, however the reloads overlap. The loop of `Route` is a recursive function,
  and what it gives from stream *n* on is the first that fits from there (`LoopStep`,
  `FirstMatchIs`).
* `SearchProofs`: `PagesOfUnion` (`PageOfUnion`), `DaysAddUp` (`ChartsOfUnion`) and
  `PercentilesAreNearest` (`NearestRank`), each `SearchTypeOK => ...`: a state is one
  request on one store. The days that `daysInRange` lists split the matches
  (`DaysAreSplit`), and a list in order has each row at its rank (`Places`).
  A day cut at `offset + limit` leaves out only rows that as many others precede
  (`DaysAreCut`), so the rows of the page are among those left, and two lists by rank
  agree on their timestamps as far as both hold the same rows.
  Accumulation from day to day is a fold, which its equation over sets of days
  determines (`FoldsAgree`); what it is after some days is what a query over the rows of
  those days gives (`Sums`, `Best`), because sums, counts and extremes of a union
  follow from those of its parts. For a percentile, the value at rank
  *n* is at most *x* exactly if *n* values are (`CountedUpTo`), and the rank the code
  computes is the least that makes *p* per cent (`IsRank`).
* `SearchProofs!CompilerIsRight` (`SqlMeansTheQuery`): `CompilerTypeOK => ...`, for trees of
  any height. That `Walk`, `Means` and `Names` satisfy their recursive equations is proved
  first (`Recursion`: a solution for the trees below a level extends to the level). Then
  each tree is `Sound`, by induction on levels (`OverTrees`), where the second half of the
  property carries the first through NOT: a condition that is not true on a message with all
  fields is false and not NULL. The proof showed that a comparison with `message` names a field
  like any other, while equality with it searches the text: `Named` had them alike.
* `EdgeProofs!MessagesCounted` (`EveryMessageCounted`) and `OutTypeCorrect`, from `OutInv`:
  what an output has been given and nobody has counted is what the hands and buffers of
  its workers, of all generations, add up to (`HandsOwe`); a connection that is open is the
  one its worker knows (`SocketOK`), and a generation is stopped after it is started
  (`StopperOK`).
* `EdgeProofs!OneFollower` (`OneFollowerNoneAfterStop`), from `DockerInv`: the flag in
  `following` is set before a follower starts and outlives it (`FlagIsSet`), and the
  wait group counts the followers and the goroutine of `Start` (`GroupCounts`), which is
  why `Stop` may conclude from zero that none is left.
* `EdgeProofs!WholeOnce` (`WholeAndOnce`), from `GelfInv`: a waiting message counts the
  parts it has, each from a datagram of its own, within the timeout (`MsgsOK`), and
  no datagram is used by two messages (`UsedOnce`).
* `EdgeProofs!EdgeTypes` (`TypeOK` of `MCEdge`): the types of all four. The agent's need that
  each secret it holds or is sent is one the server has issued.

## Only model-checked, and not modelled

Liveness and everything under fairness is checked by TLC only: it is outside the
proof system's reach (`EventuallyProcessed`, `DrainsRecords`, `Progress`, `RunEnds`,
`StopCompletes`, `ReplacedWorkersEnd`, `AgentConverges`). The library's induction
theorems cannot be used, so induction is done by hand where a proof needs it: over
numbers and finite sets as a least counterexample (`LeastOf`, `OverSubsets`), and for
sums by `FoldLemmas`; trees are taken by their height (`OverTrees`). What stays out of
reach are the parsers, which are RECURSIVE operators on token sequences: `ConditionsMean` of
`ConditionLanguage`, `ParsesTheGrammar` of `QueryLanguage`, and the type invariants of
`MCServer` and `MCStorage`, which extend them (that of `Partitions`, `Reload` and `Events`
is in the invariants above; that of `Rules` would need what `FoldLeft` makes of a list of
rules).

Left out, and why:

* a power failure seen by journal and store together: `Journal` has the journal's half; the
  store may lose rows that no checkpoint has synced (`store.go:56-61`), which nothing replays;
* a failing `os.Remove` in `evictLocked`: the next start lists the file again;
* errors of `os.Open` other than "not exist" in `openAndSeek`: in `Ingest` they
  are `RunFails`;
* `fsync` of the directory: a file created before a power failure keeps its name;
* the content of a fragment: approximated by the choice described above;
* decoders, lexers, patterns, encodings: text formats; a model of them would be their
  code again;
* searches beside `DropBefore`: a search that meets a closed or emptied partition
  reports an error or misses rows that had expired;
* the final order and limit of aggregation rows; the output that writes to standard
  output; the agent's journald collector (marked once, as files are);
* the reading of lines by the agent: what is not yet complete when it reads is
  shipped in pieces, and a line whose sending fails is dropped, on any schedule;
* acknowledgements of beats and HTTP inputs: each handler calls `Publish` and
  answers, one after the other;
* `auth/`, `crypto/`, `users`, `saved searches`: primitives, and single SQL statements.

## Where code and text disagree

* `journal.go:137` reopens a segment that ends in a fragment and appends after
  it; `journal.go:159` says a torn trailing record is tolerated
  (`JournalTornLoss`).
* `processor.go:156` commits regardless of the store's result; `store.go:56-58`
  says the journal commits only after a store succeeds (`IngestStoreLoss`).
* `app.go:354` waits for a value `app.go:323` has already taken; `app.go:332`
  says shutdown is bounded (`LifecycleHang`).
* `search.go:110` and `search.go:116` delete index entries and rows in two
  statements; `search.go:108-109` says that keeps the index consistent
  (`StorageIndex`).

Met while modelling and not given a run:

*Journal and processor.* `highestSeq` gives 0 for an empty segment and for record
0, so a kill between creating the first segment and writing to it leaves a number
unused, and a closed journal then never reports that it is drained
(`reader.go:52`; `DrainsRecords` and `RunEnds` are stated so as to allow it). A
segment created twice under one base, after a write that failed and a failed
rotation or a restart, lets the eviction of the older entry remove the active file
(`journal.go:273-274` says never), and records acknowledged after that are gone at the next
start; the proof of `DamageConfined` failed there first, and TLC shows it as a violation
of that property in 14 steps with the constants of `JournalFragments` but `MaxSeg = 3`,
`MaxTotal = 3`, `Sizes = {1, 2, 3}`, `Faults = {"torn"}`, `MaxFaults = 1`. A power failure leaves a `committed.offset`
above the numbers assigned next (`journal.go:151-154` corrects it in memory only).
`Depth` counts evicted and phantom numbers (`journal.go:306`). Once shutdown cancels
a slow drain, the processor gives up the whole backlog, batch by batch, after one
attempt each (`processor.go:172`). `svc.go:42` logs `Run`'s error and the process
stays, so `Restart=on-failure` (`svc.go:94`) does not apply.

*Searching.* Over several days, a day whose rows lack the value counts as 0 for
minimum and maximum, and averages are weighted by all rows, not by those that have
the value (`aggregate.go:162-197`); `ChartsOfUnion` claims them only where the days
have values. `NOT f:v` excludes messages without `f`, since the condition is NULL.
A range over a JSON field with bounds that are texts compares with 0. The order of
equal timestamps around a `LIMIT` is SQLite's choice.

*Configuration.* Two reloads that overlap can leave the older configuration
installed until the next one, or newer pipelines beside older streams; a reload's error or a client that disconnects is only
logged. An imported pipeline that does not compile keeps every later reload from
reaching the outputs, until it is replaced or deleted. Entities are listed by `updated_at DESC`, so editing a stream or
a pipeline changes its priority. A lookup table is never unloaded.

*Rules.* `rename` of a field to itself deletes it; `rename` and `remove` do not clear
a column; `coerce` of a column writes a field of that name which nothing reads;
`set("stream", "")` leaves routing to the rules. A message may meet the rules of one
configuration and the streams of another, newer or older.

*Outputs, agents, inputs.* The connection a worker opens after `stop` looked stays
open; `stop` may call `Close` on nil; what a replaced worker had buffered is gone
without being counted. A configuration's version can repeat; the agent does not look
at it. Files of the command line are looked up once; a file that cannot be opened
stays marked as tailed. The Docker input misses containers that start between the
list and the subscription until the stream ends, and a container that is restarted
before its follower has ended. A GELF chunk without a payload is not remembered and
counts each time it comes; a later chunk with a larger count than the first one of its
message panics (`gelf.go:149`), in the goroutine that reads the datagrams.

## Plan

The modules above cover the code's own logic, and the safety properties that can be
proved for all constants are, but for those of the two parsers. What would come next:

1. `Journal` with fragments and eviction, once a segment cannot be listed twice.
2. The parsers as recursive functions on positions, to prove that they agree with
   their grammars.
