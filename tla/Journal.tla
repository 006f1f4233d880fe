------------------------------- MODULE Journal -------------------------------
(***************************************************************************)
(* The disk-backed ingest journal: internal/journal/journal.go and          *)
(* reader.go, with the file system under them and the crashes they survive. *)
(*                                                                          *)
(* Three actors share it.  The inputs append, one at a time, holding        *)
(* Journal.mu from AppendBegin to AppendReturn.  The single consumer (the   *)
(* processor) alternates Reader.Next and Commit; Next reads the open        *)
(* segment file WITHOUT the mutex and takes it only to copy the state it    *)
(* decides on.  The environment kills the process, and makes a write fail.  *)
(*                                                                          *)
(* A frame is a record on disk.  Its bytes are abstracted to the byte       *)
(* offset it ends at; `full` is FALSE for the fragment that a write which   *)
(* did not complete leaves behind.  `id` numbers the Append calls, so that  *)
(* two records stored under the same sequence number are told apart.        *)
(***************************************************************************)
EXTENDS Integers, SequencesExt

CONSTANTS
  MaxSeg,      \* Options.MaxSegmentBytes
  MaxTotal,    \* Options.MaxTotalBytes
  Sizes,       \* the sizes, in bytes, that a frame may have
  Faults,      \* which of FaultKinds the environment may cause
  MaxPuts,     \* bound: Append calls that get to write
  MaxFaults,   \* bound: kills, failed writes and failed file operations
  None         \* the reader has no open file (Reader.file = nil)

FaultKinds ==
  {"kill",    \* the process is killed between two steps, and started again
   "torn",    \* it is killed during a write, which leaves a fragment
   "power",   \* the machine loses what was never synced, then starts again
   "short",   \* a write returns an error, with or without a fragment left
   "rotate",  \* Sync, Close or OpenFile fails while a segment is rotated
   "offset"}  \* writing committed.offset fails

ASSUME JournalAssumption ==
  /\ MaxSeg \in Nat \ {0} /\ MaxTotal \in Nat \ {0}
  /\ Sizes \subseteq Nat \ {0}
  /\ MaxPuts \in Nat /\ MaxFaults \in Nat
  /\ Faults \subseteq FaultKinds
  /\ None \notin Nat

VARIABLES
  \* Journal: the fields under mu, and the two channels.
  segs,      \* segments: base and accounted bytes, oldest to newest
  active,    \* "nil", "open", or "dead" (a handle whose Close failed)
  nextSeq, readNext, closed,
  notify,    \* the buffered ping of the notify channel
  apc,       \* the Append that holds mu: "idle", "write", "evict"
  asize,     \* the size of the frame being appended (its id is puts)
  \* The disk.
  files,     \* base -> the frames of the segment file created under it
  linked,    \* the bases whose file still has a name in the directory
  synced,    \* frames of the newest file that an fsync covered
  offset,    \* the content of committed.offset (0 when there is none)
  \* Reader, and the consumer that drives it.
  rpc,       \* "idle", "read", "open", "snap", "wait", "commit", "closed", "failed"
  rfile, roff, rseq,
  rseg,      \* the base chosen from the copied segment list, to be opened
  rmax,      \* one above the highest sequence delivered (maxSeq + 1 at Commit)
  cval,      \* the cursor value on its way to committed.offset
  \* History.
  puts, faults,
  acked,     \* ids whose Append returned without an error
  batch,     \* ids delivered since the last Commit
  done,      \* ids the consumer has called Commit for
  gone       \* ids evicted, or lost with the page cache

jvars == <<segs, active, nextSeq, readNext, closed, notify, apc, asize>>
dvars == <<files, linked, synced, offset>>
rvars == <<rpc, rfile, roff, rseq, rseg, rmax, cval>>
hvars == <<puts, faults, acked, batch, done, gone>>
vars  == <<jvars, dvars, rvars, hvars>>

Frame   == [seq : Nat, id : Nat, end : Nat, full : BOOLEAN]
Segment == [base : Nat, bytes : Nat]

TypeOK ==
  /\ segs \in Seq(Segment) /\ active \in {"nil", "open", "dead"}
  /\ nextSeq \in Nat /\ readNext \in Nat
  /\ closed \in BOOLEAN /\ notify \in BOOLEAN
  /\ apc \in {"idle", "write", "evict"} /\ asize \in Nat
  /\ DOMAIN files \subseteq Nat /\ files \in [DOMAIN files -> Seq(Frame)]
  /\ linked \subseteq DOMAIN files
  /\ synced \in Nat /\ offset \in Nat
  /\ rpc \in {"idle", "read", "snap", "open", "wait", "commit", "closed", "failed"}
  /\ rfile \in DOMAIN files \cup {None} /\ rseg \in Nat \cup {None}
  /\ roff \in Nat /\ rseq \in Nat /\ rmax \in Nat /\ cval \in Nat
  /\ puts \in Nat /\ faults \in Nat
  /\ acked \subseteq Nat /\ batch \subseteq Nat /\ done \subseteq Nat
  /\ gone \subseteq Nat

-----------------------------------------------------------------------------
(* Segment files.                                                           *)

FileSize(fs) == IF fs = <<>> THEN 0 ELSE fs[Len(fs)].end

Ids(fs) == {fs[i].id : i \in {k \in DOMAIN fs : fs[k].full}}

\* Frame i can be parsed: no fragment lies before it in the file.
Reachable(fs, i) == i \in DOMAIN fs /\ \A k \in 1..i : fs[k].full

Newest == segs[Len(segs)].base

\* A frame of n bytes is added at the end of the newest segment's file.
WriteFrame_Overwrites(n, whole) ==   \* mutant: reopened without O_APPEND
  files' = [files EXCEPT ![Newest] =
              <<[seq |-> nextSeq, id |-> puts, end |-> n, full |-> whole]>>]

WriteFrame(n, whole) ==
  files' = [files EXCEPT ![Newest] =
              Append(@, [seq |-> nextSeq, id |-> puts,
                         end |-> FileSize(@) + n, full |-> whole])]

\* highestSeq: the scan stops at a fragment, or reads the fragment's header
\* and takes the bytes that follow it for the rest of its payload; it yields 0
\* when there is no record at all.
HighestSeq(fs) ==
  LET scanned == {i \in DOMAIN fs : Reachable(fs, i)}
      torn    == {i \in DOMAIN fs : i - 1 \in scanned \cup {0} /\ ~fs[i].full /\ i < Len(fs)}
  IN  {fs[i].seq : i \in {k \in scanned : k + 1 \notin scanned} \cup torn}
        \cup (IF scanned = {} THEN {0} ELSE {})

\* The in-memory list recover() builds from the directory: every segment file
\* by ascending base, with the size of its file.
ListOf_NoSizes(bases, fs) ==         \* mutant: recovered files count for nothing
  [i \in DOMAIN bases |-> [base |-> bases[i], bytes |-> 0]]

ListOf(bases, fs) ==
  [i \in DOMAIN bases |-> [base |-> bases[i], bytes |-> FileSize(fs[bases[i]])]]

Ascending(bases) == \A i, j \in DOMAIN bases : i < j => bases[i] < bases[j]

\* All of the segments' accounted bytes (totalBytesLocked).
TotalBytes == FoldSeq(LAMBDA s, acc : s.bytes + acc, 0, segs)

-----------------------------------------------------------------------------
Init ==
  /\ segs = <<>> /\ active = "nil" /\ nextSeq = 0 /\ readNext = 0
  /\ closed = FALSE /\ notify = FALSE
  /\ apc = "idle" /\ asize = 0
  /\ files = <<>> /\ linked = {} /\ synced = 0 /\ offset = 0
  /\ rpc = "idle" /\ rfile = None /\ roff = 0 /\ rseq = 0
  /\ rseg = None /\ rmax = 0 /\ cval = 0
  /\ puts = 0 /\ faults = 0
  /\ acked = {} /\ batch = {} /\ done = {} /\ gone = {}

Fault(kind) ==
  /\ kind \in Faults /\ faults < MaxFaults
  /\ faults' = faults + 1

-----------------------------------------------------------------------------
(* Append, holding mu from its first step to its last.                      *)

\* ensureActive: a new segment begins at nextSeq.  O_CREATE without O_TRUNC keeps what
\* a file that still has the name holds; an evicted one has none.
CreateFile_Missing == UNCHANGED files   \* mutant: OpenFile's error is ignored

CreateFile ==
  files' = [b \in DOMAIN files \cup {nextSeq} |->
              IF b \in linked \cup (DOMAIN files \ {nextSeq}) THEN files[b] ELSE <<>>]

CreateSegment ==
  /\ active' = "open"
  /\ segs' = Append(segs, [base |-> nextSeq, bytes |-> 0])
  /\ CreateFile /\ linked' = linked \cup {nextSeq} /\ synced' = 0

MustRotate(size) ==
  /\ active # "nil"
  /\ segs[Len(segs)].bytes > 0
  /\ segs[Len(segs)].bytes + size > MaxSeg

\* Append up to the write: the segment the record goes to exists.
AppendBegin(size) ==
  /\ apc = "idle" /\ ~closed /\ puts < MaxPuts
  /\ \/ active = "open" /\ ~MustRotate(size)
        /\ UNCHANGED <<active, segs, linked, files, synced>>
     \/ active = "open" /\ MustRotate(size) /\ CreateSegment
     \/ active = "nil" /\ CreateSegment
  /\ apc' = "write" /\ puts' = puts + 1
  /\ asize' = size
  /\ UNCHANGED <<nextSeq, readNext, closed, notify, offset, rvars,
                 faults, acked, batch, done, gone>>

\* Rotating fails: at Sync (nothing changes, and Append returns the error), at
\* Close (the handle is dead but still set), or at OpenFile (no handle).
RotateFails(size) ==
  /\ apc = "idle" /\ ~closed /\ active = "open" /\ MustRotate(size)
  /\ Fault("rotate")
  /\ active' \in {"dead", "nil"}
  /\ synced' = Len(files[Newest])
  /\ UNCHANGED <<segs, nextSeq, readNext, closed, notify, apc, asize, files,
                 linked, offset, rvars, puts, acked, batch, done, gone>>

\* The frame is written and accounted for.  The reader may see it at once;
\* nextSeq and the list only once mu is free.
AppendWrite ==
  /\ apc = "write"
  /\ WriteFrame(asize, TRUE)
  /\ nextSeq' = nextSeq + 1
  /\ segs' = [segs EXCEPT ![Len(segs)].bytes = @ + asize]
  /\ apc' = "evict" /\ asize' = 0
  /\ UNCHANGED <<active, readNext, closed, notify, linked, synced, offset,
                 rvars, hvars>>

\* The write returns an error: Append returns it, and what was written stays
\* in the file, counted neither in bytes nor in nextSeq.
ShortWrite ==
  /\ apc = "write" /\ Fault("short")
  /\ \/ UNCHANGED files
     \/ \E n \in 1..(asize - 1) : WriteFrame(n, FALSE)
  /\ apc' = "idle" /\ asize' = 0
  /\ UNCHANGED <<segs, active, nextSeq, readNext, closed, notify, linked,
                 synced, offset, rvars, puts, acked, batch, done, gone>>

\* The read cursor only moves forward: past a batch, and past evicted data.
MovedTo_OneTooFar(cursor, seq) == IF cursor < seq THEN seq + 1 ELSE cursor   \* mutant

MovedTo_BatchOnly(cursor, seq) == IF apc = "evict" THEN cursor ELSE seq      \* mutant

MovedTo(cursor, seq) == IF cursor < seq THEN seq ELSE cursor

\* evictLocked, one turn of its loop: the oldest segment's file is removed and
\* the cursor moves past what it held.
OverCap == TotalBytes > MaxTotal /\ Len(segs) > 1

EvictOldest ==
  /\ apc = "evict" /\ OverCap
  /\ linked' = linked \ {segs[1].base}
  /\ segs' = Tail(segs)
  /\ readNext' = MovedTo(readNext, segs[2].base)
  /\ gone' = gone \cup Ids(files[segs[1].base])
  /\ UNCHANGED <<active, nextSeq, closed, notify, apc, asize, files, synced,
                 offset, rvars, puts, faults, acked, batch, done>>

\* The ping coalesces with one not yet taken.
Ping_Lost == UNCHANGED notify   \* mutant: an unbuffered channel, nobody waiting

Ping == notify' = TRUE

\* Append returns the sequence.
AppendReturn ==
  /\ apc = "evict" /\ ~OverCap
  /\ Ping /\ apc' = "idle"
  /\ acked' = acked \cup {puts}
  /\ UNCHANGED <<segs, active, nextSeq, readNext, closed, asize, dvars, rvars,
                 puts, faults, batch, done, gone>>

\* Close, once: the active file is synced and closed, waiting readers wake.
Close ==
  /\ apc = "idle" /\ ~closed
  /\ closed' = TRUE /\ active' = "nil"
  /\ synced' = IF active = "open" THEN Len(files[Newest]) ELSE synced
  /\ UNCHANGED <<segs, nextSeq, readNext, notify, apc, asize, files, linked,
                 offset, rvars, hvars>>

-----------------------------------------------------------------------------
(* Reader.Next, and the Commit the consumer calls between two calls of it.  *)

\* readFrame finds a complete frame at the read offset.
FrameAt ==
  rfile # None /\ roff < Len(files[rfile]) /\ files[rfile][roff + 1].full

\* readFrame, outside mu: the frame at the read offset is delivered.
ReadFrame ==
  /\ rpc \in {"idle", "read"} /\ FrameAt
  /\ LET f == files[rfile][roff + 1]
     IN  /\ rseq' = f.seq + 1 /\ rmax' = f.seq + 1
         /\ batch' = batch \cup {f.id}
  /\ roff' = roff + 1 /\ rpc' = "idle"
  /\ UNCHANGED <<jvars, dvars, rfile, rseg, cval, puts, faults, acked, done,
                 gone>>

\* No complete frame at the offset: the end of the file, or a fragment whose
\* length reaches beyond it.
NoFrame ==
  /\ rpc \in {"idle", "read"} /\ ~FrameAt
  /\ rpc' = "snap"
  /\ UNCHANGED <<jvars, dvars, rfile, roff, rseq, rseg, rmax, cval, hvars>>

\* A fragment with enough bytes after it to fill its length: the payload is
\* not JSON, and Next returns the error.  Run then returns it too; gather only
\* ends its batch, and the next call meets the same bytes.
DecodeError ==
  /\ rpc \in {"idle", "read"} /\ batch = {}
  /\ rfile # None /\ ~FrameAt /\ roff + 1 < Len(files[rfile])
  /\ rpc' = "failed"
  /\ UNCHANGED <<jvars, dvars, rfile, roff, rseq, rseg, rmax, cval, hvars>>

\* The segment openAndSeek picks for a target: the last of those, from the
\* oldest on, that begin at or below it.
SegmentFor(target) ==
  {segs[i].base : i \in {k \in DOMAIN segs :
     /\ \A m \in 1..k : segs[m].base <= target
     /\ k < Len(segs) => segs[k + 1].base > target}}

OpenAt(target) ==
  /\ rpc' = "open" /\ rseq' = target
  /\ rseg' = IF SegmentFor(target) = {} THEN None
             ELSE CHOOSE b \in SegmentFor(target) : TRUE

\* Under mu, Next copies closed, nextSeq and the list, and decides.
Snapshot ==
  /\ rpc = "snap" /\ apc = "idle"
  /\ \/ /\ closed /\ rseq >= nextSeq                    \* ErrClosed
        /\ rpc' = IF batch = {} THEN "closed" ELSE "idle"
        /\ UNCHANGED <<rseq, rseg>>
     \/ /\ ~(closed /\ rseq >= nextSeq)                  \* evicted: jump
        /\ segs # <<>> /\ rseq < segs[1].base
        /\ OpenAt(segs[1].base)
     \/ /\ segs # <<>> => rseq >= segs[1].base           \* more data: (re)open
        /\ rseq < nextSeq
        /\ OpenAt(rseq)
     \/ /\ segs # <<>> => rseq >= segs[1].base           \* caught up
        /\ rseq >= nextSeq /\ ~closed
        /\ rpc' = "wait"
        /\ UNCHANGED <<rseq, rseg>>
  /\ UNCHANGED <<jvars, dvars, rfile, roff, rmax, cval, hvars>>

\* The first frame at or above the target; a fragment stops the seek.
SeekPos_PastTarget(fs, target, n) == \* mutant: <= for <
  /\ \A k \in 1..n : fs[k].full /\ fs[k].seq <= target
  /\ n < Len(fs) => ~fs[n + 1].full \/ fs[n + 1].seq > target

SeekPos_None(fs, target, n) == n = 0 \* mutant: a reopened file is read again

SeekPos(fs, target, n) ==
  /\ \A k \in 1..n : fs[k].full /\ fs[k].seq < target
  /\ n < Len(fs) => ~fs[n + 1].full \/ fs[n + 1].seq >= target

\* openAndSeek, without mu: the segment may have been evicted since the copy,
\* and then the old file stays open and Next tries again.
OpenSegment ==
  /\ rpc = "open"
  /\ IF rseg \in linked
     THEN /\ rfile' = rseg
          /\ \E n \in 0..Len(files[rseg]) :
               SeekPos(files[rseg], rseq, n) /\ roff' = n
     ELSE UNCHANGED <<rfile, roff>>
  /\ rpc' = "read" /\ rseg' = None
  /\ UNCHANGED <<jvars, dvars, rseq, rmax, cval, hvars>>

\* The select: a ping is taken, or the closed channel is seen.
Selected_PingOnly == notify /\ notify' = FALSE   \* mutant: no case <-j.closedCh

Selected ==
  \/ notify /\ notify' = FALSE
  \/ closed /\ UNCHANGED notify

Wake ==
  /\ rpc = "wait" /\ Selected
  /\ rpc' = "read"
  /\ UNCHANGED <<segs, active, nextSeq, readNext, closed, apc, asize, dvars,
                 rfile, roff, rseq, rseg, rmax, cval, hvars>>

\* The select: the context's deadline (gather's BatchWait) ends the call.
WaitExpires ==
  /\ rpc = "wait" /\ batch # {}
  /\ rpc' = "idle"
  /\ UNCHANGED <<jvars, dvars, rfile, roff, rseq, rseg, rmax, cval, hvars>>

\* Commit(seq), under mu: the cursor moves, and its value is copied.
Commit ==
  /\ rpc = "idle" /\ apc = "idle" /\ batch # {}
  /\ readNext' = MovedTo(readNext, rmax)
  /\ cval' = readNext'
  /\ rpc' = "commit"
  /\ done' = done \cup batch /\ batch' = {}
  /\ UNCHANGED <<segs, active, nextSeq, closed, notify, apc, asize, dvars,
                 rfile, roff, rseq, rseg, rmax, puts, faults, acked, gone>>

\* Commit, after mu: the copy is written beside committed.offset and renamed.
SaveOffset ==
  /\ rpc = "commit"
  /\ offset' = cval
  /\ rpc' = "idle" /\ cval' = 0
  /\ UNCHANGED <<jvars, files, linked, synced, rfile, roff, rseq, rseg, rmax,
                 puts, faults, acked, batch, done, gone>>

\* The write or the rename fails: Commit returns the error, which is logged.
SaveOffsetFails ==
  /\ rpc = "commit" /\ Fault("offset")
  /\ rpc' = "idle" /\ cval' = 0
  /\ UNCHANGED <<jvars, dvars, rfile, roff, rseq, rseg, rmax, puts, acked,
                 batch, done, gone>>

-----------------------------------------------------------------------------
(* Restarts.                                                                *)

\* NewReader starts at the cursor, or at the oldest record that is left.
ReaderStart_Oldest(cursor, bases) == \* mutant: the cursor is ignored
  IF bases # <<>> THEN bases[1] ELSE cursor

ReaderStart(cursor, bases) ==
  IF bases # <<>> /\ cursor < bases[1] THEN bases[1] ELSE cursor

\* Open: recover(), then NewReader.  Everything in memory is rebuilt from the
\* segment files' content fs, the directory and the offset c.
Reopen(fs, c) ==
  \E bases \in [1..Cardinality(linked) -> linked] :
    /\ Ascending(bases)
    /\ segs' = ListOf(bases, fs)
    /\ active' = IF bases = <<>> THEN "nil" ELSE "open"
    /\ IF bases = <<>> THEN nextSeq' = 0
       ELSE LET last == bases[Len(bases)]
            IN  \E hi \in HighestSeq(fs[last]) :
                  nextSeq' = IF hi >= last THEN hi + 1 ELSE last
    /\ readNext' = IF c > nextSeq' THEN nextSeq' ELSE c
    /\ rseq' = ReaderStart(readNext', bases)
    /\ closed' = FALSE /\ notify' = FALSE /\ apc' = "idle" /\ asize' = 0
    /\ rpc' = "idle" /\ rfile' = None /\ roff' = 0 /\ rseg' = None
    /\ rmax' = rseq' /\ cval' = 0 /\ batch' = {}
    /\ UNCHANGED <<linked, puts, acked, done>>

\* Killed between two steps, at any of them.
Kill ==
  /\ Fault("kill")
  /\ UNCHANGED <<files, synced, offset, gone>>
  /\ Reopen(files, offset)

\* Killed during the write of a frame, of which the first n bytes are left.
KillTorn ==
  /\ apc = "write" /\ Fault("torn")
  /\ \E n \in 1..(asize - 1) : WriteFrame(n, FALSE)
  /\ UNCHANGED <<synced, offset, gone>>
  /\ Reopen(files', offset)

\* Power fails: of the newest file only the synced frames, and maybe some of
\* the later ones, are left.  Older files were synced when they were rotated.
PowerLoss ==
  /\ Fault("power") /\ segs # <<>>
  /\ \E n \in synced..Len(files[Newest]) :
       /\ files' = [files EXCEPT ![Newest] = SubSeq(@, 1, n)]
       /\ synced' = n
       /\ gone' = gone \cup (Ids(files[Newest]) \ Ids(files'[Newest]))
  /\ UNCHANGED offset
  /\ Reopen(files', offset)

-----------------------------------------------------------------------------
Next ==
  \/ \E size \in Sizes : AppendBegin(size) \/ RotateFails(size)
  \/ AppendWrite \/ ShortWrite \/ EvictOldest \/ AppendReturn
  \/ Close
  \/ ReadFrame \/ NoFrame \/ DecodeError \/ Snapshot \/ OpenSegment
  \/ Wake \/ WaitExpires
  \/ Commit \/ SaveOffset \/ SaveOffsetFails
  \/ Kill \/ KillTorn \/ PowerLoss

Spec == Init /\ [][Next]_vars

\* A goroutine that can go on does: the Append that holds mu, and the
\* processor's loop around Next.  gather ends after BatchSize records or after
\* BatchWait, so a Commit that stays possible again and again is made.
Fairness ==
  /\ WF_vars(AppendWrite) /\ WF_vars(EvictOldest) /\ WF_vars(AppendReturn)
  /\ WF_vars(ReadFrame) /\ WF_vars(NoFrame) /\ WF_vars(Snapshot)
  /\ WF_vars(OpenSegment) /\ WF_vars(Wake) /\ WF_vars(WaitExpires)
  /\ SF_vars(Commit) /\ WF_vars(SaveOffset \/ SaveOffsetFails)

FairSpec == Spec /\ Fairness

-----------------------------------------------------------------------------
(* Properties.                                                              *)

\* The records the journal still owes the consumer: Append returned their
\* sequence, they were not evicted, and Commit was not called for them.
Owed == acked \ (gone \cup done)

OnDisk(id, from) ==
  \E b \in linked : \E i \in DOMAIN files[b] :
    /\ files[b][i].id = id /\ files[b][i].seq >= from
    /\ Reachable(files[b], i)

\* At least once, across a restart (journal.go:3-6): if the process were
\* killed now, the reader of the next one would start at or before every record
\* it is owed, and could parse its way to it.
RecoverableAfterKill == \A id \in Owed : OnDisk(id, offset)

\* A fragment costs the records behind it in its own segment file, and no
\* other: every owed record is still in the directory, and is lost to the next
\* reader only if it has to be reached through a fragment.
BehindFragment(id) ==
  \E b \in linked : \E i \in DOMAIN files[b] :
    files[b][i].id = id /\ ~Reachable(files[b], i)
DamageConfined == \A id \in Owed : OnDisk(id, offset) \/ BehindFragment(id)

\* At least once, in this life: the reader never moves past a record it has
\* not delivered, whatever is rotated and evicted while it reads without mu.
NothingSkipped == \A id \in Owed \ batch : OnDisk(id, rseq)

\* A record still in the journal whose commit reached committed.offset is never
\* delivered again, by this process or by a later one (journal.go:333-334).
Persisted ==
  {id \in done \ gone : \E b \in DOMAIN files : \E i \in DOMAIN files[b] :
     files[b][i].id = id /\ files[b][i].seq < offset}
NeverRedelivered == [][(batch' \ batch) \cap Persisted = {}]_batch

\* Within the life of a process no record is delivered twice, and none after a
\* later one, although the reader reopens files, and may jump ahead and then
\* find more in a file evicted under it.
DeliveredInOrder == [][ReadFrame => rmax' > rmax]_vars

\* Between two Appends the directory holds no more than the cap; a kill that finds
\* an eviction half done leaves at most one frame more, which later Appends do not
\* let grow (journal.go:6-9).  The newest segment is never evicted, so it has to fit
\* the cap, as does a frame alone: CapHolds, which Options does not ask for.
DiskBytes == FoldSet(LAMBDA b, acc : FileSize(files[b]) + acc, 0, linked)
LargestFrame == CHOOSE s \in Sizes : \A t \in Sizes : t <= s
CapHolds == Sizes # {} /\ MaxSeg <= MaxTotal /\ \A s \in Sizes : s <= MaxTotal
DiskBounded == apc = "idle" => DiskBytes <= MaxTotal + faults * LargestFrame

\* Every record that Append accepted is processed, or evicted: no ping is lost
\* between the reader's decision to wait and the wait.
EventuallyProcessed ==
  \A id \in 1..MaxPuts : id \in acked ~> id \in done \cup gone

\* A record that nextSeq counts and no segment holds: recover() takes a segment
\* without a complete record for one that holds its first (journal.go:125-133).
Phantom ==
  /\ rseq < nextSeq
  /\ \A b \in linked : \A i \in DOMAIN files[b] : files[b][i].seq < rseq

\* A closed journal is drained, and Next says so, unless the reader is after a
\* phantom (reader.go:79-93, 97-102).
DrainsRecords == closed ~> (rpc = "closed" \/ ~closed \/ Phantom)

\* The code implements the queue that module IngestQueue describes.
Queue == INSTANCE IngestQueue WITH
  MaxNext <- MaxPuts + 1,
  put <- UNION {{files[b][i].seq : i \in DOMAIN files[b]} : b \in DOMAIN files},
  next <- nextSeq, low <- IF segs = <<>> THEN 0 ELSE segs[1].base,
  cursor <- rmax, mark <- readNext, saved <- offset

ImplementsQueue == Queue!Init /\ [][Queue!Next]_(Queue!vars)

=============================================================================
