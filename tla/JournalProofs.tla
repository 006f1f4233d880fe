---------------------------- MODULE JournalProofs ----------------------------
(***************************************************************************)
(* Theorems about Journal, for every segment size, cap, set of faults and   *)
(* bound.                                                                   *)
(***************************************************************************)
EXTENDS Journal, FoldLemmas, FiniteSetTheorems, SequenceTheorems, TLAPS

\* TypeOK is inductive together with what the code indexes by: the directory,
\* which recover() lists, is finite; every listed segment has a file; an Append
\* that goes on to write, and a handle, mean that the list has a newest segment.
SegsHaveFiles == \A i \in DOMAIN segs : segs[i].base \in DOMAIN files
NewestListed  == active # "nil" \/ apc # "idle" => segs # <<>>

TypeInv == TypeOK /\ IsFiniteSet(linked) /\ SegsHaveFiles /\ NewestListed

-----------------------------------------------------------------------------
(* Files.                                                                   *)

LEMMA FileSizeType ==
  ASSUME NEW fs \in Seq(Frame)
  PROVE  FileSize(fs) \in Nat
<1>1. CASE fs = <<>>
  BY <1>1 DEF FileSize
<1>2. CASE fs # <<>>
  <2>1. Len(fs) \in 1..Len(fs)
    BY <1>2, EmptySeq
  <2>2. fs[Len(fs)] \in Frame
    BY <2>1, ElementOfSeq
  <2> QED BY <1>2, <2>2 DEF FileSize, Frame
<1> QED BY <1>1, <1>2

LEMMA FrameFields ==
  ASSUME NEW fs \in Seq(Frame), NEW i \in DOMAIN fs
  PROVE  /\ fs[i].seq \in Nat /\ fs[i].id \in Nat
         /\ fs[i].end \in Nat /\ fs[i].full \in BOOLEAN
<1>1. fs[i] \in Frame
  BY LenProperties, ElementOfSeq
<1> QED BY <1>1 DEF Frame

LEMMA HighestSeqType ==
  ASSUME NEW fs \in Seq(Frame)
  PROVE  HighestSeq(fs) \subseteq Nat
<1>1. \A i \in DOMAIN fs : fs[i].seq \in Nat
  BY FrameFields
<1> QED BY <1>1 DEF HighestSeq, Reachable

LEMMA IdsType ==
  ASSUME NEW fs \in Seq(Frame)
  PROVE  Ids(fs) \subseteq Nat
<1>1. \A i \in DOMAIN fs : fs[i].id \in Nat
  BY FrameFields
<1> QED BY <1>1 DEF Ids

\* Writing keeps the names, and the frames of every file well formed.
LEMMA WriteFrameType ==
  ASSUME TypeOK, NEW n \in Nat, NEW whole \in BOOLEAN, WriteFrame(n, whole)
  PROVE  /\ DOMAIN files' = DOMAIN files
         /\ files' \in [DOMAIN files -> Seq(Frame)]
<1>1. ASSUME NEW b \in DOMAIN files
      PROVE  Append(files[b], [seq |-> nextSeq, id |-> puts,
                               end |-> FileSize(files[b]) + n, full |-> whole])
               \in Seq(Frame)
  <2> DEFINE frame == [seq |-> nextSeq, id |-> puts,
                       end |-> FileSize(files[b]) + n, full |-> whole]
  <2>1. files[b] \in Seq(Frame)
    BY <1>1 DEF TypeOK
  <2>2. FileSize(files[b]) + n \in Nat
    BY <2>1, FileSizeType
  <2>3. nextSeq \in Nat /\ puts \in Nat
    BY DEF TypeOK
  <2>4. frame \in Frame
    BY <2>2, <2>3 DEF Frame
  <2> HIDE DEF frame
  <2>5. Append(files[b], frame) \in Seq(Frame)
    BY <2>1, <2>4, AppendProperties
  <2> QED BY <2>5 DEF frame
<1> QED BY <1>1 DEF WriteFrame, TypeOK

-----------------------------------------------------------------------------
(* Reopening rebuilds well-typed memory from well-typed files.              *)

ReopenedOK ==
  /\ SegsHaveFiles' /\ NewestListed'
  /\ segs' \in Seq(Segment) /\ active' \in {"nil", "open", "dead"}
  /\ nextSeq' \in Nat /\ readNext' \in Nat
  /\ closed' \in BOOLEAN /\ notify' \in BOOLEAN
  /\ apc' \in {"idle", "write", "evict"} /\ asize' \in Nat
  /\ linked' = linked
  /\ rpc' = "idle" /\ rfile' = None /\ rseg' = None
  /\ roff' \in Nat /\ rseq' \in Nat /\ rmax' \in Nat /\ cval' \in Nat
  /\ puts' \in Nat /\ acked' \subseteq Nat /\ batch' \subseteq Nat /\ done' \subseteq Nat

LEMMA ReopenType ==
  ASSUME TypeInv,
         NEW fs, fs \in [DOMAIN files -> Seq(Frame)],
         NEW c \in Nat, Reopen(fs, c), DOMAIN files' = DOMAIN files
  PROVE  ReopenedOK
<1>1. Cardinality(linked) \in Nat
  BY FS_CardinalityType DEF TypeInv
<1>2. PICK bases \in [1..Cardinality(linked) -> linked] :
        /\ segs' = ListOf(bases, fs)
        /\ active' = IF bases = <<>> THEN "nil" ELSE "open"
        /\ IF bases = <<>> THEN nextSeq' = 0
           ELSE LET last == bases[Len(bases)]
                IN  \E hi \in HighestSeq(fs[last]) :
                      nextSeq' = IF hi >= last THEN hi + 1 ELSE last
        /\ readNext' = IF c > nextSeq' THEN nextSeq' ELSE c
        /\ rseq' = ReaderStart(readNext', bases)
        /\ closed' = FALSE /\ notify' = FALSE /\ apc' = "idle" /\ asize' = 0
        /\ rpc' = "idle" /\ rfile' = None /\ roff' = 0 /\ rseg' = None
        /\ rmax' = rseq' /\ cval' = 0 /\ batch' = {}
        /\ UNCHANGED <<linked, puts, acked, done>>
  BY DEF Reopen
<1>3. bases \in Seq(linked) /\ DOMAIN bases = 1..Len(bases) /\ Len(bases) \in Nat
  BY <1>1, <1>2
<1>4. \A i \in DOMAIN bases : bases[i] \in linked /\ bases[i] \in DOMAIN files /\ bases[i] \in Nat
  BY <1>2, <1>3 DEF TypeInv, TypeOK
<1>5. segs' \in Seq(Segment)
  <2>1. \A i \in 1..Len(bases) :
          [base |-> bases[i], bytes |-> FileSize(fs[bases[i]])] \in Segment
    BY <1>3, <1>4, FileSizeType DEF Segment
  <2> QED BY <1>2, <1>3, <2>1 DEF ListOf
<1>6. nextSeq' \in Nat
  <2>1. CASE bases = <<>>
    BY <1>2, <2>1
  <2>2. CASE bases # <<>>
    <3>1. Len(bases) \in DOMAIN bases
      BY <1>3, <2>2
    <3>2. bases[Len(bases)] \in Nat /\ fs[bases[Len(bases)]] \in Seq(Frame)
      BY <3>1, <1>4
    <3> QED BY <1>2, <2>2, <3>2, HighestSeqType
  <2> QED BY <2>1, <2>2
<1>7. readNext' \in Nat
  BY <1>2, <1>6
<1>8. rseq' \in Nat
  BY <1>2, <1>3, <1>4, <1>7 DEF ReaderStart
<1>9. SegsHaveFiles'
  BY <1>2, <1>3, <1>4 DEF ListOf, SegsHaveFiles
<1>10. NewestListed'
  BY <1>2, <1>3 DEF ListOf, NewestListed
<1> QED BY <1>2, <1>5, <1>6, <1>7, <1>8, <1>9, <1>10 DEF ReopenedOK, TypeInv, TypeOK

-----------------------------------------------------------------------------
(* Type correctness.                                                        *)

LEMMA InitTypeInv == Init => TypeInv
<1> SUFFICES ASSUME Init PROVE TypeInv
  OBVIOUS
<1>1. segs \in Seq(Segment)
  BY DEF Init
<1>2. DOMAIN files = {} /\ files \in [DOMAIN files -> Seq(Frame)]
  BY DEF Init
<1>3. linked \subseteq DOMAIN files /\ IsFiniteSet(linked)
  BY FS_EmptySet DEF Init
<1>4. SegsHaveFiles /\ NewestListed
  BY DEF Init, SegsHaveFiles, NewestListed
<1> QED BY <1>1, <1>2, <1>3, <1>4 DEF Init, TypeInv, TypeOK

LEMMA SegmentFields ==
  ASSUME TypeOK, NEW i \in DOMAIN segs
  PROVE  segs[i] \in Segment /\ segs[i].base \in Nat /\ segs[i].bytes \in Nat
<1>1. segs[i] \in Segment
  BY LenProperties, ElementOfSeq DEF TypeOK
<1> QED BY <1>1 DEF Segment

LEMMA NewestFile ==
  ASSUME TypeInv, segs # <<>>
  PROVE  /\ Len(segs) \in DOMAIN segs
         /\ Newest \in DOMAIN files /\ Newest \in Nat
         /\ files[Newest] \in Seq(Frame) /\ Len(files[Newest]) \in Nat
<1>1. Len(segs) \in DOMAIN segs
  BY DEF TypeInv, TypeOK
<1>2. Newest \in DOMAIN files
  BY <1>1 DEF TypeInv, SegsHaveFiles, Newest
<1>3. files[Newest] \in Seq(Frame)
  BY <1>2 DEF TypeInv, TypeOK
<1> QED BY <1>1, <1>2, <1>3 DEF TypeInv, TypeOK

\* A step that restarts the process, with the files it leaves.
LEMMA RestartTypeInv ==
  ASSUME TypeInv, NEW fs, fs = files', Reopen(fs, offset), offset' = offset,
         DOMAIN files' = DOMAIN files, files' \in [DOMAIN files -> Seq(Frame)],
         synced' \in Nat, faults' \in Nat, gone' \subseteq Nat
  PROVE  TypeInv'
<1>1. offset \in Nat
  BY DEF TypeInv, TypeOK
<1>2. ReopenedOK
  BY <1>1, ReopenType
<1> QED BY <1>1, <1>2 DEF ReopenedOK, TypeInv, TypeOK

LEMMA FaultType ==
  ASSUME TypeOK, NEW kind, Fault(kind)
  PROVE  faults' \in Nat
<1>1. faults \in Nat
  BY DEF TypeOK
<1>2. faults' = faults + 1
  BY DEF Fault
<1> QED BY <1>1, <1>2

LEMMA AppendBeginType ==
  ASSUME TypeInv, NEW size \in Sizes, AppendBegin(size)
  PROVE  TypeInv'
<1>1. size \in Nat
  BY JournalAssumption
<1>u. /\ apc' = "write" /\ puts' \in Nat /\ asize' \in Nat
      /\ UNCHANGED <<nextSeq, readNext, closed, notify, offset, rpc, rfile, roff,
                     rseq, rseg, rmax, cval, faults, acked, batch, done, gone>>
  <2>1. puts \in Nat
    BY DEF TypeInv, TypeOK
  <2> QED BY <1>1, <2>1 DEF AppendBegin, rvars
<1>2. CASE active = "open" /\ UNCHANGED <<active, segs, linked, files, synced>>
  <2>1. segs # <<>>
    BY <1>2 DEF TypeInv, NewestListed
  <2> QED BY <1>u, <1>2, <2>1 DEF TypeInv, TypeOK, SegsHaveFiles, NewestListed
<1>3. CASE CreateSegment
  <2>0. /\ segs \in Seq(Segment) /\ [base |-> nextSeq, bytes |-> 0] \in Segment
        /\ segs' = Append(segs, [base |-> nextSeq, bytes |-> 0])
    BY <1>3 DEF CreateSegment, TypeInv, TypeOK, Segment
  <2>1. /\ segs' \in Seq(Segment) /\ segs' # <<>>
        /\ \A i \in DOMAIN segs' : \/ i \in DOMAIN segs /\ segs'[i] = segs[i]
                                   \/ segs'[i] = [base |-> nextSeq, bytes |-> 0]
    BY <2>0
  <2>2. /\ DOMAIN files' = DOMAIN files \cup {nextSeq}
        /\ files' \in [DOMAIN files' -> Seq(Frame)]
    <3>1. \A b \in DOMAIN files : files[b] \in Seq(Frame)
      BY DEF TypeInv, TypeOK
    <3>2. <<>> \in Seq(Frame)
      OBVIOUS
    <3>3. linked \subseteq DOMAIN files
      BY DEF TypeInv, TypeOK
    <3> QED BY <1>3, <3>1, <3>2, <3>3 DEF CreateSegment, CreateFile
  <2>3. linked' \subseteq DOMAIN files' /\ IsFiniteSet(linked')
    BY <1>3, <2>2, FS_AddElement DEF CreateSegment, TypeInv, TypeOK
  <2>4. SegsHaveFiles'
    BY <2>1, <2>2 DEF SegsHaveFiles, TypeInv
  <2>5. NewestListed'
    BY <2>1 DEF NewestListed
  <2>6. rfile' \in DOMAIN files' \cup {None} /\ DOMAIN files' \subseteq Nat
    BY <1>u, <2>2 DEF TypeInv, TypeOK
  <2>7. active' = "open" /\ synced' \in Nat
    BY <1>3 DEF CreateSegment
  <2> QED
    BY <1>u, <2>1, <2>2, <2>3, <2>4, <2>5, <2>6, <2>7 DEF TypeInv, TypeOK
<1> QED BY <1>2, <1>3 DEF AppendBegin

LEMMA AppendWriteType ==
  ASSUME TypeInv, AppendWrite
  PROVE  TypeInv'
<1>1. /\ DOMAIN files' = DOMAIN files
      /\ files' \in [DOMAIN files -> Seq(Frame)]
  BY WriteFrameType DEF AppendWrite, TypeInv, TypeOK
<1>2. segs # <<>>
  BY DEF AppendWrite, TypeInv, NewestListed
<1>3. Len(segs) \in DOMAIN segs /\ segs[Len(segs)].bytes + asize \in Nat
  <2>1. Len(segs) \in DOMAIN segs
    BY <1>2, NewestFile
  <2>2. segs[Len(segs)].bytes \in Nat /\ asize \in Nat
    BY <2>1, SegmentFields DEF TypeInv, TypeOK
  <2> QED BY <2>1, <2>2
<1>4. /\ segs' \in Seq(Segment) /\ segs' # <<>> /\ DOMAIN segs' = DOMAIN segs
      /\ \A i \in DOMAIN segs : segs'[i].base = segs[i].base
  <2> DEFINE grown == [segs[Len(segs)] EXCEPT !.bytes = @ + asize]
  <2>1. segs' = [segs EXCEPT ![Len(segs)] = grown]
    BY DEF AppendWrite
  <2>2. grown \in Segment /\ grown.base = segs[Len(segs)].base
    <3>1. segs[Len(segs)] \in Segment
      BY <1>3, SegmentFields DEF TypeInv
    <3> QED BY <1>3, <3>1 DEF Segment
  <2> HIDE DEF grown
  <2>3. segs \in Seq(Segment)
    BY DEF TypeInv, TypeOK
  <2> QED BY <1>2, <1>3, <2>1, <2>2, <2>3, ExceptSeq
<1>5. SegsHaveFiles' /\ NewestListed'
  BY <1>1, <1>4 DEF SegsHaveFiles, NewestListed, TypeInv
<1>6. /\ nextSeq' \in Nat /\ apc' = "evict" /\ asize' = 0
      /\ UNCHANGED <<active, readNext, closed, notify, linked, synced, offset,
                     rvars, hvars>>
  BY DEF AppendWrite, TypeInv, TypeOK
<1> QED
  BY <1>1, <1>4, <1>5, <1>6 DEF rvars, hvars, TypeInv, TypeOK

LEMMA ShortWriteType ==
  ASSUME TypeInv, ShortWrite
  PROVE  TypeInv'
<1>1. /\ DOMAIN files' = DOMAIN files
      /\ files' \in [DOMAIN files -> Seq(Frame)]
  <2>1. CASE UNCHANGED files
    BY <2>1 DEF TypeInv, TypeOK
  <2>2. CASE \E n \in 1..(asize - 1) : WriteFrame(n, FALSE)
    <3>1. PICK n \in 1..(asize - 1) : WriteFrame(n, FALSE)
      BY <2>2
    <3>2. n \in Nat
      BY <3>1 DEF TypeInv, TypeOK
    <3> QED BY <3>1, <3>2, WriteFrameType DEF TypeInv
  <2> QED BY <2>1, <2>2 DEF ShortWrite
<1>2. SegsHaveFiles' /\ NewestListed'
  BY <1>1 DEF ShortWrite, SegsHaveFiles, NewestListed, TypeInv
<1>3. faults' \in Nat
  BY FaultType DEF ShortWrite, TypeInv
<1> QED BY <1>1, <1>2, <1>3 DEF ShortWrite, rvars, TypeInv, TypeOK

LEMMA EvictOldestType ==
  ASSUME TypeInv, EvictOldest
  PROVE  TypeInv'
<1>1. Len(segs) > 1 /\ segs \in Seq(Segment)
  BY DEF EvictOldest, OverCap, TypeInv, TypeOK
<1>2. /\ segs' \in Seq(Segment) /\ segs' # <<>>
      /\ \A i \in DOMAIN segs' : i + 1 \in DOMAIN segs /\ segs'[i] = segs[i + 1]
  BY <1>1 DEF EvictOldest
<1>3. 1 \in DOMAIN segs /\ 2 \in DOMAIN segs
  BY <1>1
<1>4. segs[1].base \in DOMAIN files /\ segs[2].base \in Nat
  BY <1>3, SegmentFields DEF TypeInv, SegsHaveFiles
<1>5. linked' \subseteq DOMAIN files' /\ IsFiniteSet(linked')
  BY FS_RemoveElement DEF EvictOldest, TypeInv, TypeOK
<1>6. gone' \subseteq Nat
  <2>1. files[segs[1].base] \in Seq(Frame)
    BY <1>4 DEF TypeInv, TypeOK
  <2> QED BY <2>1, IdsType DEF EvictOldest, TypeInv, TypeOK
<1>7. SegsHaveFiles' /\ NewestListed'
  BY <1>2 DEF EvictOldest, SegsHaveFiles, NewestListed, TypeInv
<1> QED
  BY <1>2, <1>4, <1>5, <1>6, <1>7 DEF EvictOldest, MovedTo, rvars, TypeInv, TypeOK

LEMMA SnapshotType ==
  ASSUME TypeInv, Snapshot
  PROVE  TypeInv'
<1>1. ASSUME NEW target, target \in Nat, OpenAt(target)
      PROVE  rseq' \in Nat /\ rseg' \in Nat \cup {None} /\ rpc' = "open"
  <2>1. SegmentFor(target) \subseteq Nat
    BY SegmentFields DEF SegmentFor, TypeInv
  <2> QED BY <1>1, <2>1 DEF OpenAt
<1>2. segs # <<>> => segs[1].base \in Nat
  <2>1. segs # <<>> => 1 \in DOMAIN segs
    BY DEF TypeInv, TypeOK
  <2> QED BY <2>1, SegmentFields DEF TypeInv
<1>3. /\ rseq' \in Nat /\ rseg' \in Nat \cup {None}
      /\ rpc' \in {"open", "wait", "closed", "idle"}
  BY <1>1, <1>2 DEF Snapshot, TypeInv, TypeOK
<1> QED
  BY <1>3 DEF Snapshot, jvars, dvars, hvars, TypeInv, TypeOK, SegsHaveFiles, NewestListed

LEMMA PowerLossType ==
  ASSUME TypeInv, PowerLoss
  PROVE  TypeInv'
<1>1. PICK n \in synced..Len(files[Newest]) :
        /\ files' = [files EXCEPT ![Newest] = SubSeq(@, 1, n)]
        /\ synced' = n
        /\ gone' = gone \cup (Ids(files[Newest]) \ Ids(files'[Newest]))
  BY DEF PowerLoss
<1>2. /\ Newest \in DOMAIN files /\ files[Newest] \in Seq(Frame)
      /\ n \in Nat /\ n <= Len(files[Newest])
  <2>1. segs # <<>>
    BY DEF PowerLoss
  <2>2. /\ Newest \in DOMAIN files /\ files[Newest] \in Seq(Frame)
        /\ Len(files[Newest]) \in Nat
    BY <2>1, NewestFile
  <2>3. synced \in Nat
    BY DEF TypeInv, TypeOK
  <2>4. n \in Nat /\ n <= Len(files[Newest])
    BY <2>2, <2>3
  <2> QED BY <2>2, <2>4
<1>3. SubSeq(files[Newest], 1, n) \in Seq(Frame)
  BY <1>2
<1>4. /\ DOMAIN files' = DOMAIN files
      /\ files' \in [DOMAIN files -> Seq(Frame)]
  BY <1>1, <1>3 DEF TypeInv, TypeOK
<1>5. gone' \subseteq Nat
  BY <1>1, <1>2, IdsType DEF TypeInv, TypeOK
<1>6. faults' \in Nat
  BY FaultType DEF PowerLoss, TypeInv
<1> QED BY <1>1, <1>2, <1>4, <1>5, <1>6, RestartTypeInv DEF PowerLoss

LEMMA NextTypeInv == TypeInv /\ [Next]_vars => TypeInv'
<1> SUFFICES ASSUME TypeInv, [Next]_vars PROVE TypeInv'
  OBVIOUS
<1>1. ASSUME NEW size \in Sizes, AppendBegin(size) PROVE TypeInv'
  BY <1>1, AppendBeginType
<1>2. ASSUME NEW size \in Sizes, RotateFails(size) PROVE TypeInv'
  <2>1. segs # <<>>
    BY <1>2 DEF RotateFails, TypeInv, NewestListed
  <2>2. Len(files[Newest]) \in Nat
    BY <2>1, NewestFile
  <2>3. faults' \in Nat
    BY <1>2, FaultType DEF RotateFails, TypeInv
  <2> QED
    BY <1>2, <2>1, <2>2, <2>3
    DEF RotateFails, rvars, TypeInv, TypeOK, SegsHaveFiles, NewestListed
<1>3. CASE AppendWrite
  BY <1>3, AppendWriteType
<1>4. CASE ShortWrite
  BY <1>4, ShortWriteType
<1>5. CASE EvictOldest
  BY <1>5, EvictOldestType
<1>6. CASE AppendReturn
  BY <1>6 DEF AppendReturn, Ping, dvars, rvars, TypeInv, TypeOK, SegsHaveFiles, NewestListed
<1>7. CASE Close
  <2>1. synced' \in Nat
    BY <1>7, NewestFile DEF Close, TypeInv, TypeOK, NewestListed
  <2> QED
    BY <1>7, <2>1
    DEF Close, rvars, hvars, TypeInv, TypeOK, SegsHaveFiles, NewestListed
<1>8. CASE ReadFrame
  <2>1. files[rfile] \in Seq(Frame)
    BY <1>8 DEF ReadFrame, FrameAt, TypeInv, TypeOK
  <2>2. roff + 1 \in DOMAIN files[rfile]
    BY <1>8, <2>1 DEF ReadFrame, FrameAt, TypeInv, TypeOK
  <2>3. files[rfile][roff + 1].seq \in Nat /\ files[rfile][roff + 1].id \in Nat
    BY <2>1, <2>2, FrameFields
  <2>4. rseq' \in Nat /\ rmax' \in Nat /\ roff' \in Nat /\ batch' \subseteq Nat
    <3>1. /\ rseq' = files[rfile][roff + 1].seq + 1 /\ rmax' = rseq' /\ roff' = roff + 1
          /\ batch' = batch \cup {files[rfile][roff + 1].id}
      BY <1>8 DEF ReadFrame
    <3>2. roff \in Nat /\ batch \subseteq Nat
      BY DEF TypeInv, TypeOK
    <3>3. batch' \subseteq Nat
      BY <2>3, <3>1, <3>2
    <3> QED BY <2>3, <3>1, <3>2, <3>3
  <2>5. /\ rpc' = "idle"
        /\ UNCHANGED <<jvars, dvars, rfile, rseg, cval, puts, faults, acked, done, gone>>
    BY <1>8 DEF ReadFrame
  <2> QED
    BY <2>4, <2>5 DEF jvars, dvars, TypeInv, TypeOK, SegsHaveFiles, NewestListed
<1>9. CASE NoFrame
  BY <1>9 DEF NoFrame, jvars, dvars, hvars, TypeInv, TypeOK, SegsHaveFiles, NewestListed
<1>10. CASE DecodeError
  BY <1>10 DEF DecodeError, jvars, dvars, hvars, TypeInv, TypeOK, SegsHaveFiles, NewestListed
<1>11. CASE Snapshot
  BY <1>11, SnapshotType
<1>12. CASE OpenSegment
  <2>1. rfile' \in DOMAIN files \cup {None} /\ roff' \in Nat
    BY <1>12 DEF OpenSegment, TypeInv, TypeOK
  <2> QED
    BY <1>12, <2>1
    DEF OpenSegment, jvars, dvars, hvars, TypeInv, TypeOK, SegsHaveFiles, NewestListed
<1>13. CASE Wake
  BY <1>13 DEF Wake, Selected, dvars, hvars, TypeInv, TypeOK, SegsHaveFiles, NewestListed
<1>14. CASE WaitExpires
  BY <1>14 DEF WaitExpires, jvars, dvars, hvars, TypeInv, TypeOK, SegsHaveFiles, NewestListed
<1>15. CASE Commit
  BY <1>15 DEF Commit, MovedTo, dvars, TypeInv, TypeOK, SegsHaveFiles, NewestListed
<1>16. CASE SaveOffset
  BY <1>16 DEF SaveOffset, jvars, TypeInv, TypeOK, SegsHaveFiles, NewestListed
<1>17. CASE SaveOffsetFails
  <2>1. faults' \in Nat
    BY <1>17, FaultType DEF SaveOffsetFails, TypeInv
  <2> QED
    BY <1>17, <2>1
    DEF SaveOffsetFails, jvars, dvars, TypeInv, TypeOK, SegsHaveFiles, NewestListed
<1>18. CASE Kill
  <2>1. faults' \in Nat
    BY <1>18, FaultType DEF Kill, TypeInv
  <2> QED BY <1>18, <2>1, RestartTypeInv DEF Kill, TypeInv, TypeOK
<1>19. CASE KillTorn
  <2>1. PICK n \in 1..(asize - 1) : WriteFrame(n, FALSE)
    BY <1>19 DEF KillTorn
  <2>2. n \in Nat
    BY <2>1 DEF TypeInv, TypeOK
  <2>3. /\ DOMAIN files' = DOMAIN files
        /\ files' \in [DOMAIN files -> Seq(Frame)]
    BY <2>1, <2>2, WriteFrameType DEF TypeInv
  <2>4. faults' \in Nat
    BY <1>19, FaultType DEF KillTorn, TypeInv
  <2> QED BY <1>19, <2>3, <2>4, RestartTypeInv DEF KillTorn, TypeInv, TypeOK
<1>20. CASE PowerLoss
  BY <1>20, PowerLossType
<1>21. CASE UNCHANGED vars
  BY <1>21 DEF vars, jvars, dvars, rvars, hvars, TypeInv, TypeOK, SegsHaveFiles, NewestListed
<1> QED
  BY <1>1, <1>2, <1>3, <1>4, <1>5, <1>6, <1>7, <1>8, <1>9, <1>10, <1>11, <1>12,
     <1>13, <1>14, <1>15, <1>16, <1>17, <1>18, <1>19, <1>20, <1>21 DEF Next

\* Every reachable state of the journal, with any of the faults, is well typed:
\* no step reads a segment or a file that does not exist.
THEOREM TypeCorrect == Spec => []TypeOK
<1>1. Spec => []TypeInv
  BY InitTypeInv, NextTypeInv, PTL DEF Spec
<1>2. TypeInv => TypeOK
  BY DEF TypeInv
<1> QED BY <1>1, <1>2, PTL

-----------------------------------------------------------------------------
(* At least once and in order.  What follows is about the runs in which every *)
(* write is whole: kills, failing rotations and commits, but no fragments, and *)
(* no lost page cache, for which the code gives no such promise.               *)

WholeWrites == Faults \subseteq {"kill", "rotate", "offset"}

FirstBase == IF segs = <<>> THEN 0 ELSE segs[1].base

\* The list is the directory in ascending order; what was evicted came before it.
ListedInOrder ==
  /\ linked = {segs[i].base : i \in DOMAIN segs}
  /\ \A i, k \in DOMAIN segs : i < k => segs[i].base < segs[k].base
  /\ \A i \in DOMAIN segs : segs[i].bytes > 0 => files[segs[i].base] # <<>>
  /\ segs = <<>> => DOMAIN files = {} /\ nextSeq = 0
  /\ \A b \in DOMAIN files \ linked, c \in linked : b < c

\* A file holds whole frames in ascending order, from its base on, below the next file.
FramesInOrder ==
  \A b \in DOMAIN files :
    /\ \A i \in DOMAIN files[b] :
         /\ files[b][i].full /\ b <= files[b][i].seq /\ files[b][i].seq < nextSeq
         /\ \A k \in DOMAIN files[b] : i < k => files[b][i].seq < files[b][k].seq
         /\ \A c \in DOMAIN files : b < c => files[b][i].seq < c
    /\ files[b] # <<>> /\ b > 0 => files[b][1].seq = b
    /\ \A c \in DOMAIN files : b < c => files[b] # <<>>

\* The newest file goes up to nextSeq, but for the number a kill may leave unused.
NewestIsNext ==
  segs # <<>> =>
    /\ files[Newest] # <<>> => files[Newest][Len(files[Newest])].seq + 1 = nextSeq
    /\ files[Newest] = <<>> => nextSeq = Newest \/ (Newest = 0 /\ nextSeq = 1)
    /\ active = "nil" /\ ~closed => files[Newest] # <<>>
    /\ apc = "evict" => \E i \in DOMAIN files[Newest] : files[Newest][i].id = puts

\* Calls of Append are numbered; each has at most one frame, and if it returned
\* and its frame was not evicted, one that is linked.
CallsAreFrames ==
  /\ puts <= MaxPuts /\ nextSeq <= puts /\ (apc = "write" => nextSeq < puts)
  /\ nextSeq = 0 /\ segs # <<>> => apc = "write"
  /\ \A b \in DOMAIN files : \A i \in DOMAIN files[b] :
       /\ files[b][i].id <= puts /\ (apc = "write" => files[b][i].id < puts)
       /\ b \notin linked => files[b][i].id \in gone
       /\ \A c \in DOMAIN files : \A k \in DOMAIN files[c] :
            files[b][i].id = files[c][k].id => b = c /\ i = k
  /\ \A id \in acked : \E b \in DOMAIN files : \E i \in DOMAIN files[b] : files[b][i].id = id

\* The cursors are in order.
CursorsInOrder ==
  /\ rmax <= rseq /\ rseq <= nextSeq /\ offset <= readNext
  /\ readNext <= rmax \/ readNext <= FirstBase
  /\ rpc = "commit" => offset <= cval /\ cval <= readNext
  /\ rpc = "open" => rseg = None \/ rseg <= rseq
  /\ batch # {} =>
       \E b \in DOMAIN files : \E i \in DOMAIN files[b] : files[b][i].seq + 1 = rmax

\* Of the records still in the directory, what the reader is past was delivered, and
\* what the cursor is past was committed.
PassedIsDelivered ==
  \A b \in linked : \A i \in DOMAIN files[b] :
    /\ files[b][i].seq < rseq =>
         files[b][i].id \in batch \cup done /\ files[b][i].seq < rmax
    /\ files[b][i].seq < readNext => files[b][i].id \in done

\* The reader's place in its file is the one rseq says; in a file evicted under it,
\* what it has not read yet is above what it delivered.
ReaderInPlace ==
  rfile # None =>
    /\ roff <= Len(files[rfile])
    /\ rfile \in linked =>
         /\ rfile <= rseq
         /\ \A i \in DOMAIN files[rfile] : files[rfile][i].seq < rseq <=> i <= roff
    /\ \A i \in DOMAIN files[rfile] : i > roff => files[rfile][i].seq >= rmax

JournalInv ==
  /\ TypeInv /\ ListedInOrder /\ FramesInOrder /\ NewestIsNext /\ CallsAreFrames
  /\ CursorsInOrder /\ PassedIsDelivered /\ ReaderInPlace

LEMMA FramesTyped ==
  ASSUME TypeOK, NEW b \in DOMAIN files
  PROVE  /\ b \in Nat /\ files[b] \in Seq(Frame) /\ Len(files[b]) \in Nat
         /\ DOMAIN files[b] = 1..Len(files[b]) /\ (files[b] # <<>> => Len(files[b]) > 0)
         /\ \A i \in DOMAIN files[b] : files[b][i].seq \in Nat /\ files[b][i].id \in Nat
<1>1. b \in Nat /\ files[b] \in Seq(Frame)
  BY DEF TypeOK
<1>2. Len(files[b]) \in Nat /\ DOMAIN files[b] = 1..Len(files[b])
  BY <1>1, LenProperties
<1>3. files[b] # <<>> => Len(files[b]) > 0
  BY <1>1, <1>2, EmptySeq
<1>4. \A i \in DOMAIN files[b] : files[b][i].seq \in Nat /\ files[b][i].id \in Nat
  BY <1>1, FrameFields
<1> QED BY <1>1, <1>2, <1>3, <1>4

\* The first and the last of the list are the ends of the directory, and no file is newer.
LEMMA EndsOfList ==
  ASSUME TypeInv, ListedInOrder, segs # <<>>
  PROVE  /\ Len(segs) \in DOMAIN segs /\ 1 \in DOMAIN segs
         /\ FirstBase \in linked /\ Newest \in linked /\ FirstBase \in Nat /\ Newest \in Nat
         /\ FirstBase = segs[1].base /\ Newest = segs[Len(segs)].base
         /\ \A c \in linked : c \in Nat /\ FirstBase <= c /\ c <= Newest
         /\ \A b \in DOMAIN files : b <= Newest /\ b \in Nat
         /\ \A b \in DOMAIN files \ linked : b < FirstBase
<1>1. segs \in Seq(Segment) /\ Len(segs) \in Nat /\ DOMAIN segs = 1..Len(segs)
  BY LenProperties DEF TypeInv, TypeOK
<1>2. Len(segs) \in DOMAIN segs /\ 1 \in DOMAIN segs
  BY <1>1, EmptySeq
<1>3. \A i \in DOMAIN segs : segs[i].base \in Nat /\ segs[i].base \in linked
  BY SegmentFields DEF TypeInv, ListedInOrder
<1>4. \A i \in DOMAIN segs : segs[1].base <= segs[i].base /\ segs[i].base <= segs[Len(segs)].base
  <2> SUFFICES ASSUME NEW i \in DOMAIN segs
               PROVE  segs[1].base <= segs[i].base /\ segs[i].base <= segs[Len(segs)].base
    OBVIOUS
  <2>1. segs[1].base <= segs[i].base
    <3>1. CASE i = 1
      BY <1>3, <3>1
    <3>2. CASE 1 < i
      BY <1>2, <1>3, <3>2 DEF ListedInOrder
    <3> QED BY <1>1, <3>1, <3>2
  <2>2. segs[i].base <= segs[Len(segs)].base
    <3>1. CASE i = Len(segs)
      BY <1>3, <3>1
    <3>2. CASE i < Len(segs)
      BY <1>2, <1>3, <3>2 DEF ListedInOrder
    <3> QED BY <1>1, <3>1, <3>2
  <2> QED BY <2>1, <2>2
<1>5. FirstBase = segs[1].base /\ Newest = segs[Len(segs)].base
  BY DEF FirstBase, Newest
<1>6. \A c \in linked : c \in Nat /\ FirstBase <= c /\ c <= Newest
  BY <1>3, <1>4, <1>5 DEF ListedInOrder
<1>7. \A b \in DOMAIN files \ linked : b < FirstBase
  BY <1>2, <1>3, <1>5 DEF ListedInOrder
<1>8. \A b \in DOMAIN files : b <= Newest /\ b \in Nat
  <2>1. \A b \in DOMAIN files : b \in Nat
    BY FramesTyped DEF TypeInv
  <2>2. FirstBase <= Newest /\ FirstBase \in Nat /\ Newest \in Nat
    BY <1>2, <1>3, <1>4, <1>5
  <2> QED BY <1>6, <1>7, <2>1, <2>2
<1> QED BY <1>2, <1>3, <1>5, <1>6, <1>7, <1>8

\* What is on disk, and which call wrote it, when a step leaves that alone.
LEMMA SameDisk ==
  ASSUME ListedInOrder, FramesInOrder, NewestIsNext, CallsAreFrames,
         UNCHANGED <<segs, active, nextSeq, closed, apc, files, linked, puts, acked, gone>>
  PROVE  ListedInOrder' /\ FramesInOrder' /\ NewestIsNext' /\ CallsAreFrames'
<1>1. /\ segs' = segs /\ active' = active /\ nextSeq' = nextSeq /\ closed' = closed
      /\ apc' = apc /\ files' = files /\ linked' = linked /\ puts' = puts
      /\ acked' = acked /\ gone' = gone
  OBVIOUS
<1>2. ListedInOrder'
  BY <1>1 DEF ListedInOrder
<1>3. FramesInOrder'
  BY <1>1 DEF FramesInOrder
<1>4. NewestIsNext'
  BY <1>1 DEF NewestIsNext, Newest
<1>5. CallsAreFrames'
  BY <1>1 DEF CallsAreFrames
<1> QED BY <1>2, <1>3, <1>4, <1>5

\* Where the reader is, when a step leaves that alone, and the files.
LEMMA SameReader ==
  ASSUME CursorsInOrder, PassedIsDelivered, ReaderInPlace,
         UNCHANGED <<segs, nextSeq, readNext, files, linked, offset, rpc, rfile, roff, rseq,
                     rseg, rmax, cval, batch, done>>
  PROVE  CursorsInOrder' /\ PassedIsDelivered' /\ ReaderInPlace'
<1>1. /\ segs' = segs /\ nextSeq' = nextSeq /\ readNext' = readNext /\ files' = files
      /\ linked' = linked /\ offset' = offset /\ rpc' = rpc /\ rfile' = rfile
      /\ roff' = roff /\ rseq' = rseq /\ rseg' = rseg /\ rmax' = rmax /\ cval' = cval
      /\ batch' = batch /\ done' = done
  OBVIOUS
<1>2. CursorsInOrder'
  BY <1>1 DEF CursorsInOrder, FirstBase
<1>3. PassedIsDelivered'
  BY <1>1 DEF PassedIsDelivered
<1>4. ReaderInPlace'
  BY <1>1 DEF ReaderInPlace
<1> QED BY <1>2, <1>3, <1>4

\* A segment is created above every file there is, none of which is empty then.
LEMMA FreshBase ==
  ASSUME JournalInv, NEW size, ~closed,
         active = "nil" \/ (active = "open" /\ MustRotate(size))
  PROVE  \A b \in DOMAIN files : b < nextSeq /\ files[b] # <<>>
<1>1. CASE segs = <<>>
  BY <1>1 DEF JournalInv, ListedInOrder
<1>2. CASE segs # <<>>
  <2>1. /\ Newest \in linked /\ Newest \in DOMAIN files /\ Newest \in Nat
        /\ \A b \in DOMAIN files : b <= Newest /\ b \in Nat
        /\ Len(segs) \in DOMAIN segs /\ Newest = segs[Len(segs)].base
    BY <1>2, EndsOfList, NewestFile DEF JournalInv
  <2>2. files[Newest] # <<>>
    <3>1. CASE active = "nil"
      BY <1>2, <3>1 DEF JournalInv, NewestIsNext
    <3>2. CASE MustRotate(size)
      BY <2>1, <3>2 DEF MustRotate, JournalInv, ListedInOrder
    <3> QED BY <3>1, <3>2
  <2>3. 1 \in DOMAIN files[Newest] /\ files[Newest][1].seq \in Nat
    BY <2>1, <2>2, FramesTyped DEF JournalInv, TypeInv
  <2>4. Newest < nextSeq
    <3>1. Newest <= files[Newest][1].seq /\ files[Newest][1].seq < nextSeq
      BY <2>1, <2>3 DEF JournalInv, FramesInOrder
    <3>2. nextSeq \in Nat
      BY DEF JournalInv, TypeInv, TypeOK
    <3> QED BY <2>1, <2>3, <3>1, <3>2
  <2>5. nextSeq \in Nat
    BY DEF JournalInv, TypeInv, TypeOK
  <2> SUFFICES ASSUME NEW b \in DOMAIN files PROVE b < nextSeq /\ files[b] # <<>>
    OBVIOUS
  <2>6. b < nextSeq
    BY <2>1, <2>4, <2>5
  <2>7. files[b] # <<>>
    <3>1. CASE b = Newest
      BY <2>2, <3>1
    <3>2. CASE b < Newest
      BY <2>1, <3>2 DEF JournalInv, FramesInOrder
    <3> QED BY <2>1, <3>1, <3>2
  <2> QED BY <2>6, <2>7
<1> QED BY <1>1, <1>2

LEMMA AppendBeginKeeps ==
  ASSUME JournalInv, NEW size \in Sizes, AppendBegin(size)
  PROVE  JournalInv'
<1>1. TypeInv'
  BY AppendBeginType DEF JournalInv
<1>2. /\ apc = "idle" /\ ~closed /\ puts < MaxPuts /\ apc' = "write" /\ puts' = puts + 1
      /\ nextSeq' = nextSeq /\ readNext' = readNext /\ closed' = closed /\ offset' = offset
      /\ rpc' = rpc /\ rfile' = rfile /\ roff' = roff /\ rseq' = rseq /\ rseg' = rseg
      /\ rmax' = rmax /\ cval' = cval /\ acked' = acked /\ batch' = batch /\ done' = done
      /\ gone' = gone
  BY DEF AppendBegin, rvars
<1>3. puts \in Nat /\ MaxPuts \in Nat /\ nextSeq \in Nat
  BY JournalAssumption DEF JournalInv, TypeInv, TypeOK
<1>4. puts' <= MaxPuts /\ nextSeq < puts' /\ nextSeq <= puts'
  BY <1>2, <1>3 DEF JournalInv, CallsAreFrames
<1>5. \A b \in DOMAIN files : \A i \in DOMAIN files[b] : files[b][i].id < puts' /\ files[b][i].id <= puts'
  <2> SUFFICES ASSUME NEW b \in DOMAIN files, NEW i \in DOMAIN files[b]
               PROVE  files[b][i].id < puts' /\ files[b][i].id <= puts'
    OBVIOUS
  <2>1. files[b][i].id \in Nat
    BY FramesTyped DEF JournalInv, TypeInv
  <2>2. files[b][i].id <= puts
    BY DEF JournalInv, CallsAreFrames
  <2> QED BY <1>2, <1>3, <2>1, <2>2
<1>6. CASE UNCHANGED <<active, segs, linked, files, synced>>
  <2>1. active' = active /\ segs' = segs /\ linked' = linked /\ files' = files
    BY <1>6
  <2>2. ListedInOrder'
    BY <1>2, <2>1 DEF JournalInv, ListedInOrder
  <2>3. FramesInOrder'
    BY <1>2, <2>1 DEF JournalInv, FramesInOrder
  <2>4. NewestIsNext'
    BY <1>2, <2>1 DEF JournalInv, NewestIsNext, Newest
  <2>5. CallsAreFrames'
    BY <1>2, <1>4, <1>5, <2>1 DEF JournalInv, CallsAreFrames
  <2>6. CursorsInOrder' /\ PassedIsDelivered' /\ ReaderInPlace'
    BY <1>2, <2>1, SameReader DEF JournalInv
  <2> QED BY <1>1, <2>2, <2>3, <2>4, <2>5, <2>6 DEF JournalInv
<1>7. CASE CreateSegment /\ (active = "nil" \/ (active = "open" /\ MustRotate(size)))
  <2>1. /\ active' = "open" /\ linked' = linked \cup {nextSeq}
        /\ segs' = Append(segs, [base |-> nextSeq, bytes |-> 0])
        /\ DOMAIN files' = DOMAIN files \cup {nextSeq}
    BY <1>7 DEF CreateSegment, CreateFile
  <2>2. \A b \in DOMAIN files : b < nextSeq /\ files[b] # <<>> /\ b # nextSeq
    <3>1. \A b \in DOMAIN files : b \in Nat
      BY FramesTyped DEF JournalInv, TypeInv
    <3> QED BY <1>2, <1>3, <1>7, <3>1, FreshBase
  <2>3. files'[nextSeq] = <<>> /\ \A b \in DOMAIN files : files'[b] = files[b]
    <3>1. linked \subseteq DOMAIN files
      BY DEF JournalInv, TypeInv, TypeOK
    <3> QED BY <1>7, <2>2, <3>1 DEF CreateSegment, CreateFile
  <2>4. /\ segs \in Seq(Segment) /\ Len(segs) \in Nat /\ DOMAIN segs = 1..Len(segs)
        /\ [base |-> nextSeq, bytes |-> 0] \in Segment
    BY <1>3, LenProperties DEF JournalInv, TypeInv, TypeOK, Segment
  <2>5. /\ segs' # <<>> /\ Len(segs') = Len(segs) + 1 /\ DOMAIN segs' = 1..(Len(segs) + 1)
        /\ \A i \in DOMAIN segs : segs'[i] = segs[i]
        /\ segs'[Len(segs) + 1] = [base |-> nextSeq, bytes |-> 0]
    BY <2>1, <2>4, AppendProperties, LenProperties
  <2>6. segs'[Len(segs) + 1].base = nextSeq /\ segs'[Len(segs) + 1].bytes = 0
    BY <2>5
  <2>7. Newest' = nextSeq
    BY <2>5, <2>6 DEF Newest
  <2>8. \A i \in DOMAIN segs : segs[i].base \in linked /\ segs[i].base \in DOMAIN files
    BY DEF JournalInv, ListedInOrder, TypeInv, TypeOK
  <2>9. ListedInOrder'
    <3>1. linked' = {segs'[i].base : i \in DOMAIN segs'}
      <4>1. linked = {segs[i].base : i \in DOMAIN segs}
        BY DEF JournalInv, ListedInOrder
      <4>2. {segs'[i].base : i \in DOMAIN segs'}
              = {segs[i].base : i \in DOMAIN segs} \cup {nextSeq}
        BY <2>4, <2>5, <2>6
      <4> QED BY <2>1, <4>1, <4>2
    <3>2. ASSUME NEW i \in DOMAIN segs', NEW k \in DOMAIN segs', i < k
          PROVE  segs'[i].base < segs'[k].base
      <4>1. i \in DOMAIN segs
        BY <2>4, <2>5, <3>2
      <4>2. CASE k \in DOMAIN segs
        BY <2>5, <3>2, <4>1, <4>2 DEF JournalInv, ListedInOrder
      <4>3. CASE k = Len(segs) + 1
        BY <2>2, <2>5, <2>6, <2>8, <4>1, <4>3
      <4> QED BY <2>4, <2>5, <4>2, <4>3
    <3>3. ASSUME NEW i \in DOMAIN segs', segs'[i].bytes > 0
          PROVE  files'[segs'[i].base] # <<>>
      <4>1. i \in DOMAIN segs
        BY <2>4, <2>5, <2>6, <3>3
      <4> QED BY <2>2, <2>3, <2>5, <2>8, <4>1
    <3>4. \A b \in DOMAIN files' \ linked', c \in linked' : b < c
      BY <2>1, <2>2 DEF JournalInv, ListedInOrder
    <3> QED BY <2>5, <3>1, <3>2, <3>3, <3>4 DEF ListedInOrder
  <2>10. \A b \in DOMAIN files' : \A i \in DOMAIN files'[b] :
           b \in DOMAIN files /\ b # nextSeq /\ i \in DOMAIN files[b] /\ files'[b][i] = files[b][i]
    <3>1. DOMAIN files'[nextSeq] = {}
      BY <2>3
    <3> QED BY <2>1, <2>2, <2>3, <3>1
  <2>11. FramesInOrder'
    <3>1. ASSUME NEW b \in DOMAIN files', NEW i \in DOMAIN files'[b]
          PROVE  /\ files'[b][i].full /\ b <= files'[b][i].seq /\ files'[b][i].seq < nextSeq'
                 /\ \A k \in DOMAIN files'[b] : i < k => files'[b][i].seq < files'[b][k].seq
                 /\ \A c \in DOMAIN files' : b < c => files'[b][i].seq < c
      BY <1>2, <2>1, <2>3, <2>10 DEF JournalInv, FramesInOrder
    <3>2. ASSUME NEW b \in DOMAIN files', files'[b] # <<>>, b > 0
          PROVE  files'[b][1].seq = b
      BY <2>1, <2>3, <3>2 DEF JournalInv, FramesInOrder
    <3>3. ASSUME NEW b \in DOMAIN files', NEW c \in DOMAIN files', b < c
          PROVE  files'[b] # <<>>
      <4>1. b # nextSeq
        <5>1. \A d \in DOMAIN files : d \in Nat
          BY FramesTyped DEF JournalInv, TypeInv
        <5>2. c <= nextSeq
          BY <1>3, <2>1, <2>2, <5>1
        <5> QED BY <1>3, <2>1, <3>3, <5>1, <5>2
      <4> QED BY <2>1, <2>2, <2>3, <4>1
    <3> QED BY <3>1, <3>2, <3>3 DEF FramesInOrder
  <2>12. NewestIsNext'
    BY <1>2, <2>1, <2>3, <2>7 DEF NewestIsNext
  <2>13. CallsAreFrames'
    <3>1. ASSUME NEW b \in DOMAIN files', NEW i \in DOMAIN files'[b]
          PROVE  /\ files'[b][i].id <= puts' /\ files'[b][i].id < puts'
                 /\ b \notin linked' => files'[b][i].id \in gone'
                 /\ \A c \in DOMAIN files' : \A k \in DOMAIN files'[c] :
                      files'[b][i].id = files'[c][k].id => b = c /\ i = k
      BY <1>2, <1>5, <2>1, <2>10 DEF JournalInv, CallsAreFrames
    <3>2. \A id \in acked' : \E b \in DOMAIN files' : \E i \in DOMAIN files'[b] :
            files'[b][i].id = id
      BY <1>2, <2>1, <2>3 DEF JournalInv, CallsAreFrames
    <3> QED BY <1>2, <1>4, <3>1, <3>2 DEF CallsAreFrames
  <2>14. FirstBase' = FirstBase
    <3>1. CASE segs = <<>>
      <4>1. nextSeq = 0 /\ Len(segs) = 0
        BY <3>1 DEF JournalInv, ListedInOrder
      <4> QED BY <2>5, <2>6, <3>1, <4>1 DEF FirstBase
    <3>2. CASE segs # <<>>
      <4>1. 1 \in DOMAIN segs
        BY <3>2, EndsOfList DEF JournalInv
      <4> QED BY <2>5, <3>2, <4>1 DEF FirstBase
    <3> QED BY <3>1, <3>2
  <2>15. CursorsInOrder'
    <3>1. batch' # {} =>
            \E b \in DOMAIN files' : \E i \in DOMAIN files'[b] : files'[b][i].seq + 1 = rmax'
      BY <1>2, <2>1, <2>3 DEF JournalInv, CursorsInOrder
    <3> QED BY <1>2, <2>14, <3>1 DEF JournalInv, CursorsInOrder
  <2>16. PassedIsDelivered'
    <3> SUFFICES ASSUME NEW b \in linked', NEW i \in DOMAIN files'[b]
                 PROVE  /\ files'[b][i].seq < rseq =>
                             files'[b][i].id \in batch \cup done /\ files'[b][i].seq < rmax
                        /\ files'[b][i].seq < readNext => files'[b][i].id \in done
      BY <1>2 DEF PassedIsDelivered
    <3>1. linked \subseteq DOMAIN files
      BY DEF JournalInv, TypeInv, TypeOK
    <3>2. b \in linked /\ i \in DOMAIN files[b] /\ files'[b][i] = files[b][i]
      BY <2>1, <2>10, <3>1
    <3> QED BY <3>2 DEF JournalInv, PassedIsDelivered
  <2>17. ReaderInPlace'
    <3>1. rfile # None => rfile \in DOMAIN files /\ rfile # nextSeq
      BY <2>2 DEF JournalInv, TypeInv, TypeOK
    <3> QED BY <1>2, <2>1, <2>3, <3>1 DEF JournalInv, ReaderInPlace
  <2> QED BY <1>1, <2>9, <2>11, <2>12, <2>13, <2>15, <2>16, <2>17 DEF JournalInv
<1> QED BY <1>6, <1>7 DEF AppendBegin

LEMMA AppendWriteKeeps ==
  ASSUME JournalInv, AppendWrite
  PROVE  JournalInv'
<1>1. TypeInv'
  BY AppendWriteType DEF JournalInv
<1>2. /\ apc = "write" /\ nextSeq' = nextSeq + 1 /\ apc' = "evict"
      /\ segs' = [segs EXCEPT ![Len(segs)].bytes = @ + asize]
      /\ active' = active /\ readNext' = readNext /\ closed' = closed /\ linked' = linked
      /\ offset' = offset /\ rpc' = rpc /\ rfile' = rfile /\ roff' = roff /\ rseq' = rseq
      /\ rseg' = rseg /\ rmax' = rmax /\ cval' = cval /\ puts' = puts /\ acked' = acked
      /\ batch' = batch /\ done' = done /\ gone' = gone
  BY DEF AppendWrite, rvars, hvars
<1>3. segs # <<>>
  BY <1>2 DEF JournalInv, TypeInv, NewestListed
<1>4. /\ Len(segs) \in DOMAIN segs /\ 1 \in DOMAIN segs /\ Newest \in linked
      /\ Newest \in DOMAIN files /\ Newest \in Nat /\ Newest = segs[Len(segs)].base
      /\ FirstBase = segs[1].base /\ FirstBase <= Newest /\ FirstBase \in Nat
      /\ \A b \in DOMAIN files : b <= Newest /\ b \in Nat
  BY <1>3, EndsOfList, NewestFile DEF JournalInv
<1>5. PICK N \in Nat : N = Newest
  BY <1>4
<1>6. PICK L \in Nat : L = Len(files[N])
  BY <1>4, <1>5, FramesTyped DEF JournalInv, TypeInv
<1>7. DOMAIN files[N] = 1..L /\ (files[N] # <<>> => L > 0) /\ (files[N] = <<>> => L = 0)
  BY <1>4, <1>5, <1>6, FramesTyped DEF JournalInv, TypeInv
<1>8. PICK f : f = [seq |-> nextSeq, id |-> puts, end |-> FileSize(files[N]) + asize, full |-> TRUE]
  OBVIOUS
<1>9. f.seq = nextSeq /\ f.id = puts /\ f.full
  BY <1>8
<1>10. files' = [files EXCEPT ![N] = Append(files[N], f)]
  BY <1>5, <1>8 DEF AppendWrite, WriteFrame
<1>11. /\ DOMAIN files' = DOMAIN files
       /\ \A b \in DOMAIN files : b # N => files'[b] = files[b]
       /\ files'[N] = Append(files[N], f)
  BY <1>4, <1>5, <1>10 DEF JournalInv, TypeInv, TypeOK
<1>12. /\ files'[N] # <<>> /\ Len(files'[N]) = L + 1 /\ DOMAIN files'[N] = 1..(L + 1)
       /\ \A i \in 1..L : files'[N][i] = files[N][i]
       /\ files'[N][L + 1] = f
  <2>1. files[N] \in Seq(Frame)
    BY <1>4, <1>5, FramesTyped DEF JournalInv, TypeInv
  <2>2. f \in Frame
    <3>1. FileSize(files[N]) \in Nat /\ asize \in Nat
      BY <2>1, FileSizeType DEF JournalInv, TypeInv, TypeOK
    <3>2. FileSize(files[N]) + asize \in Nat
      BY <3>1
    <3>3. nextSeq \in Nat /\ puts \in Nat
      BY DEF JournalInv, TypeInv, TypeOK
    <3> QED BY <1>8, <3>2, <3>3 DEF Frame
  <2> QED BY <1>6, <1>11, <2>1, <2>2, AppendProperties, LenProperties
<1>13. /\ DOMAIN segs' = DOMAIN segs /\ Len(segs') = Len(segs)
       /\ \A i \in DOMAIN segs : segs'[i].base = segs[i].base
       /\ \A i \in DOMAIN segs : i # Len(segs) => segs'[i] = segs[i]
  <2>1. PICK g \in Segment : g = [segs[Len(segs)] EXCEPT !.bytes = @ + asize]
    <3>1. segs[Len(segs)] \in Segment /\ segs[Len(segs)].bytes \in Nat /\ asize \in Nat
      BY <1>4, SegmentFields DEF JournalInv, TypeInv, TypeOK
    <3>2. [segs[Len(segs)] EXCEPT !.bytes = @ + asize] \in Segment
      BY <3>1 DEF Segment
    <3> QED BY <3>2
  <2>2. g.base = segs[Len(segs)].base
    <3>1. segs[Len(segs)] \in Segment
      BY <1>4, SegmentFields DEF JournalInv, TypeInv
    <3> QED BY <2>1, <3>1 DEF Segment
  <2>3. segs' = [segs EXCEPT ![Len(segs)] = g]
    BY <1>2, <2>1
  <2>4. segs \in Seq(Segment)
    BY DEF JournalInv, TypeInv, TypeOK
  <2> QED BY <1>4, <2>1, <2>2, <2>3, <2>4, ExceptSeq
<1>14. Newest' = N /\ FirstBase' = FirstBase /\ segs' # <<>>
  <2>1. segs' # <<>>
    BY <1>3, <1>4, <1>13
  <2> QED BY <1>4, <1>5, <1>13, <2>1 DEF Newest, FirstBase
<1>15. nextSeq \in Nat /\ puts \in Nat /\ puts <= MaxPuts /\ nextSeq < puts
  BY <1>2 DEF JournalInv, CallsAreFrames, TypeInv, TypeOK
<1>16. N <= nextSeq /\ \A i \in 1..L : files[N][i].seq < nextSeq /\ files[N][i].seq \in Nat
  <2>1. \A i \in 1..L : N <= files[N][i].seq /\ files[N][i].seq < nextSeq /\ files[N][i].seq \in Nat
    BY <1>4, <1>5, <1>7, FramesTyped DEF JournalInv, FramesInOrder, TypeInv
  <2>2. CASE L = 0
    <3>1. files[N] = <<>>
      BY <1>7, <2>2
    <3> QED BY <1>3, <1>5, <1>15, <2>1, <3>1 DEF JournalInv, NewestIsNext
  <2>3. CASE L > 0
    BY <1>15, <2>1, <2>3
  <2> QED BY <2>1, <2>2, <2>3
<1>17. \A b \in DOMAIN files' : \A i \in DOMAIN files'[b] :
         \/ i \in DOMAIN files[b] /\ files'[b][i] = files[b][i]
         \/ b = N /\ i = L + 1 /\ files'[b][i] = f
  BY <1>7, <1>11, <1>12
<1>18. \A b \in DOMAIN files : \A i \in DOMAIN files[b] :
         i \in DOMAIN files'[b] /\ files'[b][i] = files[b][i]
  BY <1>7, <1>11, <1>12
<1>19. \A b \in DOMAIN files' : files'[b] = <<>> => b # N /\ files[b] = <<>>
  BY <1>11, <1>12
<1>20. ListedInOrder'
  <2>1. {segs'[i].base : i \in DOMAIN segs'} = {segs[i].base : i \in DOMAIN segs}
    BY <1>13
  <2>2. \A i \in DOMAIN segs' : segs'[i].bytes > 0 => files'[segs'[i].base] # <<>>
    <3> SUFFICES ASSUME NEW i \in DOMAIN segs, segs'[i].bytes > 0
                 PROVE  files'[segs[i].base] # <<>>
      BY <1>13
    <3>1. CASE i = Len(segs)
      BY <1>4, <1>5, <1>12, <3>1
    <3>2. CASE i # Len(segs)
      <4>1. files[segs[i].base] # <<>> /\ segs[i].base \in DOMAIN files
        BY <1>13, <3>2 DEF JournalInv, ListedInOrder, TypeInv, SegsHaveFiles
      <4> QED BY <1>11, <1>12, <4>1
    <3> QED BY <3>1, <3>2
  <2> QED BY <1>2, <1>11, <1>13, <1>14, <2>1, <2>2 DEF JournalInv, ListedInOrder
<1>21. FramesInOrder'
  <2>1. ASSUME NEW b \in DOMAIN files', NEW i \in DOMAIN files'[b]
        PROVE  /\ files'[b][i].full /\ b <= files'[b][i].seq /\ files'[b][i].seq < nextSeq'
               /\ \A k \in DOMAIN files'[b] : i < k => files'[b][i].seq < files'[b][k].seq
               /\ \A c \in DOMAIN files' : b < c => files'[b][i].seq < c
    <3>1. CASE i \in DOMAIN files[b] /\ files'[b][i] = files[b][i]
      <4>1. /\ files[b][i].full /\ b <= files[b][i].seq /\ files[b][i].seq < nextSeq
            /\ \A k \in DOMAIN files[b] : i < k => files[b][i].seq < files[b][k].seq
            /\ \A c \in DOMAIN files : b < c => files[b][i].seq < c
        BY <1>11, <3>1 DEF JournalInv, FramesInOrder
      <4>2. files[b][i].seq \in Nat
        BY <1>11, <3>1, FramesTyped DEF JournalInv, TypeInv
      <4>3. ASSUME NEW k \in DOMAIN files'[b], i < k
            PROVE  files'[b][i].seq < files'[b][k].seq
        BY <1>9, <1>17, <3>1, <4>1, <4>3
      <4> QED BY <1>2, <1>11, <1>15, <3>1, <4>1, <4>2, <4>3
    <3>2. CASE b = N /\ i = L + 1 /\ files'[b][i] = f
      <4>1. \A k \in DOMAIN files'[b] : ~(i < k)
        BY <1>12, <3>2
      <4>2. \A c \in DOMAIN files' : ~(b < c)
        BY <1>4, <1>5, <1>11, <3>2
      <4> QED BY <1>2, <1>9, <1>15, <1>16, <3>2, <4>1, <4>2
    <3> QED BY <1>17, <3>1, <3>2
  <2>2. ASSUME NEW b \in DOMAIN files', files'[b] # <<>>, b > 0
        PROVE  files'[b][1].seq = b
    <3>1. CASE b # N
      BY <1>11, <2>2, <3>1 DEF JournalInv, FramesInOrder
    <3>2. CASE b = N /\ L > 0
      <4>1. files[N] # <<>> /\ files'[N][1] = files[N][1]
        BY <1>7, <1>12, <3>2
      <4> QED BY <1>11, <2>2, <3>2, <4>1 DEF JournalInv, FramesInOrder
    <3>3. CASE b = N /\ L = 0
      <4>1. files[N] = <<>>
        BY <1>7, <3>3
      <4>2. nextSeq = N
        BY <1>3, <1>5, <2>2, <3>3, <4>1 DEF JournalInv, NewestIsNext
      <4> QED BY <1>9, <1>12, <3>3, <4>2
    <3> QED BY <3>1, <3>2, <3>3
  <2>3. ASSUME NEW b \in DOMAIN files', NEW c \in DOMAIN files', b < c
        PROVE  files'[b] # <<>>
    BY <1>11, <1>12, <2>3 DEF JournalInv, FramesInOrder
  <2> QED BY <2>1, <2>2, <2>3 DEF FramesInOrder
<1>22. NewestIsNext'
  BY <1>2, <1>9, <1>12, <1>14 DEF NewestIsNext
<1>23. CallsAreFrames'
  <2>1. ASSUME NEW b \in DOMAIN files', NEW i \in DOMAIN files'[b]
        PROVE  /\ files'[b][i].id <= puts'
               /\ b \notin linked' => files'[b][i].id \in gone'
               /\ \A c \in DOMAIN files' : \A k \in DOMAIN files'[c] :
                    files'[b][i].id = files'[c][k].id => b = c /\ i = k
    <3>1. \A c \in DOMAIN files : \A k \in DOMAIN files[c] :
            files[c][k].id < puts /\ files[c][k].id \in Nat
      BY <1>2, FramesTyped DEF JournalInv, CallsAreFrames, TypeInv
    <3>2. \A c \in DOMAIN files : \A k \in DOMAIN files[c] : files[c][k].id # puts
      BY <1>15, <3>1
    <3>3. CASE i \in DOMAIN files[b] /\ files'[b][i] = files[b][i]
      <4>1. /\ files[b][i].id <= puts
            /\ b \notin linked => files[b][i].id \in gone
            /\ \A c \in DOMAIN files : \A k \in DOMAIN files[c] :
                 files[b][i].id = files[c][k].id => b = c /\ i = k
        BY <1>11, <3>3 DEF JournalInv, CallsAreFrames
      <4>2. files[b][i].id # puts
        BY <1>11, <3>2, <3>3
      <4> QED BY <1>2, <1>9, <1>11, <1>17, <3>3, <4>1, <4>2
    <3>4. CASE b = N /\ i = L + 1 /\ files'[b][i] = f
      <4>1. N \in linked' /\ puts <= puts'
        BY <1>2, <1>4, <1>5, <1>15
      <4> QED BY <1>2, <1>9, <1>11, <1>17, <3>2, <3>4, <4>1
    <3> QED BY <1>17, <3>3, <3>4
  <2>2. \A id \in acked' : \E b \in DOMAIN files' : \E i \in DOMAIN files'[b] : files'[b][i].id = id
    <3> SUFFICES ASSUME NEW id \in acked
                 PROVE  \E b \in DOMAIN files' : \E i \in DOMAIN files'[b] : files'[b][i].id = id
      BY <1>2
    <3>1. PICK b \in DOMAIN files : \E i \in DOMAIN files[b] : files[b][i].id = id
      BY DEF JournalInv, CallsAreFrames
    <3>2. PICK i \in DOMAIN files[b] : files[b][i].id = id
      BY <3>1
    <3> QED BY <1>11, <1>18, <3>2
  <2>3. nextSeq' <= puts' /\ nextSeq' # 0
    BY <1>2, <1>15
  <2> QED BY <1>2, <1>15, <2>1, <2>2, <2>3 DEF CallsAreFrames
<1>24. rmax <= rseq /\ rseq <= nextSeq /\ readNext <= nextSeq /\ rmax \in Nat /\ rseq \in Nat
  <2>1. rmax \in Nat /\ rseq \in Nat /\ readNext \in Nat
    BY DEF JournalInv, TypeInv, TypeOK
  <2>2. rmax <= rseq /\ rseq <= nextSeq /\ (readNext <= rmax \/ readNext <= FirstBase)
    BY DEF JournalInv, CursorsInOrder
  <2> QED BY <1>4, <1>5, <1>15, <1>16, <2>1, <2>2
<1>25. CursorsInOrder'
  <2>1. rseq' <= nextSeq'
    BY <1>2, <1>15, <1>24
  <2>2. ASSUME batch' # {}
        PROVE  \E b \in DOMAIN files' : \E i \in DOMAIN files'[b] : files'[b][i].seq + 1 = rmax'
    <3>1. PICK b \in DOMAIN files : \E i \in DOMAIN files[b] : files[b][i].seq + 1 = rmax
      BY <1>2, <2>2 DEF JournalInv, CursorsInOrder
    <3>2. PICK i \in DOMAIN files[b] : files[b][i].seq + 1 = rmax
      BY <3>1
    <3> QED BY <1>2, <1>11, <1>18, <3>2
  <2> QED BY <1>2, <1>14, <2>1, <2>2 DEF JournalInv, CursorsInOrder
<1>26. PassedIsDelivered'
  <2> SUFFICES ASSUME NEW b \in linked', NEW i \in DOMAIN files'[b]
               PROVE  /\ files'[b][i].seq < rseq =>
                           files'[b][i].id \in batch \cup done /\ files'[b][i].seq < rmax
                      /\ files'[b][i].seq < readNext => files'[b][i].id \in done
    BY <1>2 DEF PassedIsDelivered
  <2>1. b \in linked /\ b \in DOMAIN files'
    BY <1>1, <1>2 DEF TypeInv, TypeOK
  <2>2. CASE i \in DOMAIN files[b] /\ files'[b][i] = files[b][i]
    BY <2>1, <2>2 DEF JournalInv, PassedIsDelivered
  <2>3. CASE files'[b][i] = f
    <3>1. readNext \in Nat
      BY DEF JournalInv, TypeInv, TypeOK
    <3> QED BY <1>9, <1>15, <1>24, <2>3, <3>1
  <2> QED BY <1>17, <2>1, <2>2, <2>3
<1>27. ReaderInPlace'
  <2> SUFFICES ASSUME rfile # None
               PROVE  /\ roff <= Len(files'[rfile])
                      /\ rfile \in linked =>
                           /\ rfile <= rseq
                           /\ \A i \in DOMAIN files'[rfile] : files'[rfile][i].seq < rseq <=> i <= roff
                      /\ \A i \in DOMAIN files'[rfile] : i > roff => files'[rfile][i].seq >= rmax
    BY <1>2 DEF ReaderInPlace
  <2>1. rfile \in DOMAIN files /\ roff \in Nat
    BY DEF JournalInv, TypeInv, TypeOK
  <2>2. /\ roff <= Len(files[rfile])
        /\ rfile \in linked =>
             /\ rfile <= rseq
             /\ \A i \in DOMAIN files[rfile] : files[rfile][i].seq < rseq <=> i <= roff
        /\ \A i \in DOMAIN files[rfile] : i > roff => files[rfile][i].seq >= rmax
    BY DEF JournalInv, ReaderInPlace
  <2>3. CASE rfile # N
    BY <1>11, <2>1, <2>2, <2>3
  <2>4. CASE rfile = N
    <3>1. roff <= L /\ roff < L + 1
      BY <1>6, <2>1, <2>2, <2>4
    <3>2. ~(nextSeq < rseq) /\ nextSeq >= rmax
      BY <1>15, <1>24
    <3> QED BY <1>7, <1>9, <1>12, <2>1, <2>2, <2>4, <3>1, <3>2
  <2> QED BY <2>3, <2>4
<1> QED BY <1>1, <1>20, <1>21, <1>22, <1>23, <1>25, <1>26, <1>27 DEF JournalInv

LEMMA EvictOldestKeeps ==
  ASSUME JournalInv, EvictOldest
  PROVE  JournalInv'
<1>1. TypeInv'
  BY EvictOldestType DEF JournalInv
<1>2. PICK B \in Nat : B = segs[1].base
  <2>1. Len(segs) > 1 /\ segs \in Seq(Segment)
    BY DEF EvictOldest, OverCap, JournalInv, TypeInv, TypeOK
  <2>2. 1 \in DOMAIN segs
    BY <2>1
  <2> QED BY <2>2, SegmentFields DEF JournalInv, TypeInv
<1>3. PICK C \in Nat : C = segs[2].base
  <2>1. Len(segs) > 1 /\ segs \in Seq(Segment)
    BY DEF EvictOldest, OverCap, JournalInv, TypeInv, TypeOK
  <2>2. 2 \in DOMAIN segs
    BY <2>1
  <2> QED BY <2>2, SegmentFields DEF JournalInv, TypeInv
<1>4. /\ apc = "evict" /\ Len(segs) > 1 /\ linked' = linked \ {B} /\ segs' = Tail(segs)
      /\ readNext' = MovedTo(readNext, C) /\ gone' = gone \cup Ids(files[B])
      /\ active' = active /\ nextSeq' = nextSeq /\ closed' = closed /\ apc' = apc
      /\ files' = files /\ offset' = offset /\ rpc' = rpc /\ rfile' = rfile /\ roff' = roff
      /\ rseq' = rseq /\ rseg' = rseg /\ rmax' = rmax /\ cval' = cval /\ puts' = puts
      /\ acked' = acked /\ batch' = batch /\ done' = done
  BY <1>2, <1>3 DEF EvictOldest, OverCap, rvars
<1>5. segs \in Seq(Segment) /\ Len(segs) \in Nat /\ DOMAIN segs = 1..Len(segs) /\ segs # <<>>
  BY <1>4, LenProperties, EmptySeq DEF JournalInv, TypeInv, TypeOK
<1>6. /\ Len(segs') = Len(segs) - 1 /\ DOMAIN segs' = 1..(Len(segs) - 1) /\ segs' # <<>>
      /\ \A i \in DOMAIN segs' : i + 1 \in DOMAIN segs /\ segs'[i] = segs[i + 1]
  BY <1>4, <1>5
<1>7. FirstBase = B /\ FirstBase' = C /\ Newest' = Newest
  <2>1. segs'[1] = segs[2] /\ segs'[Len(segs')] = segs[Len(segs)]
    BY <1>4, <1>5, <1>6
  <2> QED BY <1>2, <1>3, <1>5, <1>6, <2>1 DEF FirstBase, Newest
<1>8. /\ \A i \in DOMAIN segs : segs[i].base \in Nat
      /\ \A i, k \in DOMAIN segs : i < k => segs[i].base < segs[k].base
      /\ linked = {segs[i].base : i \in DOMAIN segs}
  BY SegmentFields DEF JournalInv, ListedInOrder, TypeInv
<1>9. B < C /\ \A i \in DOMAIN segs' : segs'[i].base \in linked /\ B < segs'[i].base
  <2>1. 1 \in DOMAIN segs /\ 2 \in DOMAIN segs /\ \A i \in DOMAIN segs' : 1 < i + 1
    BY <1>4, <1>5, <1>6
  <2>2. B < C
    BY <1>2, <1>3, <1>8, <2>1
  <2> QED BY <1>2, <1>6, <1>8, <2>1, <2>2
<1>10. \A b \in linked' : b \in linked /\ b \in DOMAIN files /\ b \in Nat /\ C <= b
  <2> SUFFICES ASSUME NEW i \in DOMAIN segs, segs[i].base # B
               PROVE  segs[i].base \in DOMAIN files /\ C <= segs[i].base
    BY <1>4, <1>8
  <2>1. i # 1 /\ 2 \in DOMAIN segs
    BY <1>2, <1>4, <1>5
  <2>2. segs[i].base \in DOMAIN files
    BY DEF JournalInv, TypeInv, SegsHaveFiles
  <2>3. CASE i = 2
    BY <1>3, <2>2, <2>3
  <2>4. CASE 2 < i
    BY <1>3, <1>8, <2>1, <2>2, <2>4
  <2> QED BY <1>5, <2>1, <2>3, <2>4
<1>11. ListedInOrder'
  <2>1. linked' = {segs'[i].base : i \in DOMAIN segs'}
    <3>1. ASSUME NEW c \in linked' PROVE \E i \in DOMAIN segs' : c = segs'[i].base
      <4>1. PICK k \in DOMAIN segs : c = segs[k].base
        BY <1>4, <1>8
      <4>2. k # 1
        BY <1>2, <1>4, <4>1
      <4>3. k - 1 \in DOMAIN segs' /\ k = (k - 1) + 1
        BY <1>5, <1>6, <4>2
      <4> QED BY <1>6, <4>1, <4>3
    <3>2. \A i \in DOMAIN segs' : segs'[i].base \in linked /\ segs'[i].base # B
      BY <1>8, <1>9, <1>6
    <3> QED BY <1>4, <3>1, <3>2
  <2>2. \A i, k \in DOMAIN segs' : i < k => segs'[i].base < segs'[k].base
    BY <1>6, <1>8
  <2>3. \A i \in DOMAIN segs' : segs'[i].bytes > 0 => files'[segs'[i].base] # <<>>
    BY <1>4, <1>6 DEF JournalInv, ListedInOrder
  <2>4. \A b \in DOMAIN files' \ linked', c \in linked' : b < c
    <3> SUFFICES ASSUME NEW b \in DOMAIN files, b \notin linked', NEW c \in linked'
                 PROVE  b < c
      BY <1>4
    <3>1. c \in linked /\ c \in Nat /\ C <= c
      BY <1>10
    <3>2. CASE b = B
      BY <1>2, <1>3, <1>9, <3>1, <3>2
    <3>3. CASE b # B
      <4>1. b \in DOMAIN files \ linked
        BY <1>4, <3>3
      <4>2. \A x \in DOMAIN files \ linked, y \in linked : x < y
        BY DEF JournalInv, ListedInOrder
      <4> QED BY <3>1, <4>1, <4>2
    <3> QED BY <3>2, <3>3
  <2> QED BY <1>6, <2>1, <2>2, <2>3, <2>4 DEF ListedInOrder
<1>12. FramesInOrder'
  BY <1>4 DEF JournalInv, FramesInOrder
<1>13. NewestIsNext'
  BY <1>4, <1>5, <1>7 DEF JournalInv, NewestIsNext
<1>14. CallsAreFrames'
  <2>1. ASSUME NEW b \in DOMAIN files, NEW i \in DOMAIN files[b], b \notin linked'
        PROVE  files[b][i].id \in gone'
    <3>1. CASE b = B
      <4>1. files[b][i].full
        BY DEF JournalInv, FramesInOrder
      <4> QED BY <1>4, <3>1, <4>1 DEF Ids
    <3>2. CASE b # B
      BY <1>4, <2>1, <3>2 DEF JournalInv, CallsAreFrames
    <3> QED BY <3>1, <3>2
  <2>2. ~(nextSeq = 0 /\ segs # <<>>)
    BY <1>4 DEF JournalInv, CallsAreFrames
  <2> QED BY <1>4, <2>1, <2>2 DEF JournalInv, CallsAreFrames
<1>15. readNext <= readNext' /\ (readNext' = readNext \/ readNext' = C) /\ readNext \in Nat
  <2>1. readNext \in Nat
    BY DEF JournalInv, TypeInv, TypeOK
  <2> QED BY <1>3, <1>4, <2>1 DEF MovedTo
<1>16. CursorsInOrder'
  <2>1. offset \in Nat /\ cval \in Nat /\ rmax \in Nat /\ readNext' \in Nat
    BY <1>3, <1>15 DEF JournalInv, TypeInv, TypeOK
  <2>2. /\ offset <= readNext /\ (readNext <= rmax \/ readNext <= B)
        /\ rpc = "commit" => offset <= cval /\ cval <= readNext
    BY <1>7 DEF JournalInv, CursorsInOrder
  <2>3. offset <= readNext' /\ (readNext' <= rmax \/ readNext' <= C)
    BY <1>2, <1>3, <1>9, <1>15, <2>1, <2>2
  <2>4. rpc = "commit" => offset <= cval /\ cval <= readNext'
    BY <1>15, <2>1, <2>2
  <2> QED BY <1>4, <1>7, <2>3, <2>4 DEF JournalInv, CursorsInOrder
<1>17. PassedIsDelivered'
  <2> SUFFICES ASSUME NEW b \in linked', NEW i \in DOMAIN files[b]
               PROVE  /\ files[b][i].seq < rseq =>
                           files[b][i].id \in batch \cup done /\ files[b][i].seq < rmax
                      /\ files[b][i].seq < readNext' => files[b][i].id \in done
    BY <1>4 DEF PassedIsDelivered
  <2>1. /\ b \in linked /\ b \in DOMAIN files /\ b \in Nat /\ C <= b
        /\ files[b][i].seq \in Nat /\ b <= files[b][i].seq
    BY <1>10, FramesTyped DEF JournalInv, TypeInv, FramesInOrder
  <2>2. ~(files[b][i].seq < C)
    BY <1>3, <2>1
  <2> QED BY <1>15, <2>1, <2>2 DEF JournalInv, PassedIsDelivered
<1>18. ReaderInPlace'
  BY <1>4 DEF JournalInv, ReaderInPlace
<1> QED BY <1>1, <1>11, <1>12, <1>13, <1>14, <1>16, <1>17, <1>18 DEF JournalInv

\* Listing a finite directory in ascending order lists each of its files.
LEMMA AscendingListsAll ==
  ASSUME NEW S \in SUBSET Nat, IsFiniteSet(S),
         NEW bases \in [1..Cardinality(S) -> S], Ascending(bases)
  PROVE  S = {bases[i] : i \in DOMAIN bases}
<1>1. PICK n \in Nat : n = Cardinality(S)
  BY FS_CardinalityType
<1>2. DOMAIN bases = 1..n /\ \A i \in 1..n : bases[i] \in S /\ bases[i] \in Nat
  BY <1>1
<1>3. \A i, k \in 1..n : bases[i] = bases[k] => i = k
  BY <1>1, <1>2 DEF Ascending
<1>4. bases \in Injection(1..n, S)
  BY <1>1, <1>2, <1>3 DEF Injection, IsInjective
<1>5. Cardinality(1..n) = n /\ IsFiniteSet(1..n)
  BY <1>1, FS_Interval
<1>6. bases \in Surjection(1..n, S)
  BY <1>1, <1>4, <1>5, FS_Injection
<1>7. \A t \in S : \E s \in 1..n : bases[s] = t
  BY <1>6 DEF Surjection
<1> QED BY <1>2, <1>7

\* Nothing a cursor points at is above the next sequence number.
LEMMA CursorsBelowNext ==
  ASSUME JournalInv
  PROVE  /\ readNext <= nextSeq /\ offset <= readNext /\ offset <= nextSeq
         /\ offset \in Nat /\ readNext \in Nat /\ nextSeq \in Nat
         /\ FirstBase \in Nat /\ FirstBase <= nextSeq
         /\ segs # <<>> => Newest <= nextSeq
<1>1. /\ offset \in Nat /\ readNext \in Nat /\ nextSeq \in Nat /\ rmax \in Nat /\ rseq \in Nat
  BY DEF JournalInv, TypeInv, TypeOK
<1>2. segs # <<>> => Newest <= nextSeq /\ FirstBase <= Newest /\ Newest \in Nat /\ FirstBase \in Nat
  <2> SUFFICES ASSUME segs # <<>>
               PROVE  Newest <= nextSeq /\ FirstBase <= Newest /\ Newest \in Nat /\ FirstBase \in Nat
    OBVIOUS
  <2>1. Newest \in DOMAIN files /\ Newest \in Nat /\ FirstBase \in Nat /\ FirstBase <= Newest
    BY EndsOfList, NewestFile DEF JournalInv
  <2>2. CASE files[Newest] = <<>>
    BY <1>1, <2>1, <2>2 DEF JournalInv, NewestIsNext
  <2>3. CASE files[Newest] # <<>>
    <3>1. 1 \in DOMAIN files[Newest] /\ files[Newest][1].seq \in Nat
      BY <2>1, <2>3, FramesTyped DEF JournalInv, TypeInv
    <3>2. Newest <= files[Newest][1].seq /\ files[Newest][1].seq < nextSeq
      BY <2>1, <3>1 DEF JournalInv, FramesInOrder
    <3> QED BY <1>1, <2>1, <3>1, <3>2
  <2> QED BY <2>1, <2>2, <2>3
<1>3. FirstBase \in Nat /\ FirstBase <= nextSeq
  BY <1>1, <1>2 DEF FirstBase
<1>4. /\ rmax <= rseq /\ rseq <= nextSeq /\ offset <= readNext
      /\ readNext <= rmax \/ readNext <= FirstBase
  BY DEF JournalInv, CursorsInOrder
<1> QED BY <1>1, <1>2, <1>3, <1>4

LEMMA HighestOfWhole ==
  ASSUME NEW fs \in Seq(Frame), fs # <<>>, \A i \in DOMAIN fs : fs[i].full
  PROVE  HighestSeq(fs) = {fs[Len(fs)].seq}
<1>1. PICK L \in Nat : L = Len(fs) /\ L > 0 /\ DOMAIN fs = 1..L
  BY EmptySeq, LenProperties
<1>2. \A i : Reachable(fs, i) <=> i \in 1..L
  BY <1>1 DEF Reachable
<1>3. {i \in DOMAIN fs : Reachable(fs, i)} = 1..L
  BY <1>1, <1>2
<1>4. {i \in DOMAIN fs : i - 1 \in (1..L) \cup {0} /\ ~fs[i].full /\ i < Len(fs)} = {}
  OBVIOUS
<1>5. {k \in 1..L : k + 1 \notin 1..L} = {L} /\ 1..L # {}
  BY <1>1
<1>6. HighestSeq(fs) = {fs[i].seq : i \in {L} \cup {}} \cup {}
  BY <1>3, <1>4, <1>5 DEF HighestSeq
<1> QED BY <1>1, <1>6

\* The first and the last base of the list bound the segments on disk.
LEMMA ListedWithinEnds ==
  ASSUME JournalInv, segs # <<>>
  PROVE  /\ linked \in SUBSET Nat /\ FirstBase \in linked /\ Newest \in linked
         /\ \A c \in linked : FirstBase <= c /\ c <= Newest
<1>1. TypeInv /\ ListedInOrder
  BY DEF JournalInv
<1>2. linked \in SUBSET Nat
  BY <1>1 DEF TypeInv, TypeOK
<1> QED BY <1>1, <1>2, EndsOfList

\* What the next process makes of the files is what this one knew of them, but for
\* a number that may be left unused.
LEMMA KillFinds ==
  ASSUME JournalInv, Kill
  PROVE  /\ TypeInv' /\ ListedInOrder'
         /\ FirstBase' = FirstBase /\ (segs' = <<>> <=> segs = <<>>)
         /\ segs # <<>> => Newest' = Newest
         /\ nextSeq' = IF nextSeq = 0 /\ segs # <<>> THEN 1 ELSE nextSeq
         /\ readNext' = offset
         /\ rseq' = IF offset < FirstBase THEN FirstBase ELSE offset
         /\ rmax' = rseq' /\ closed' = FALSE /\ apc' = "idle" /\ rpc' = "idle"
         /\ rfile' = None /\ rseg' = None /\ batch' = {} /\ linked' = linked
         /\ puts' = puts /\ acked' = acked /\ done' = done /\ files' = files
         /\ offset' = offset /\ gone' = gone
         /\ active' = "nil" => segs' = <<>>
<1>1. files' = files /\ synced' = synced /\ offset' = offset /\ gone' = gone /\ Reopen(files, offset)
  BY DEF Kill
<1>2. TypeInv'
  <2>1. faults' \in Nat
    BY FaultType DEF Kill, JournalInv, TypeInv
  <2> QED BY <1>1, <2>1, RestartTypeInv DEF JournalInv, TypeInv, TypeOK
<1>3. /\ linked \in SUBSET Nat /\ IsFiniteSet(linked) /\ linked \subseteq DOMAIN files
      /\ nextSeq \in Nat /\ offset \in Nat /\ offset <= nextSeq
  BY CursorsBelowNext DEF JournalInv, TypeInv, TypeOK
<1>4. PICK bases \in [1..Cardinality(linked) -> linked] :
        /\ Ascending(bases)
        /\ segs' = ListOf(bases, files)
        /\ active' = IF bases = <<>> THEN "nil" ELSE "open"
        /\ IF bases = <<>> THEN nextSeq' = 0
           ELSE LET last == bases[Len(bases)]
                IN  \E hi \in HighestSeq(files[last]) :
                      nextSeq' = IF hi >= last THEN hi + 1 ELSE last
        /\ readNext' = IF offset > nextSeq' THEN nextSeq' ELSE offset
        /\ rseq' = ReaderStart(readNext', bases)
        /\ closed' = FALSE /\ apc' = "idle"
        /\ rpc' = "idle" /\ rfile' = None /\ rseg' = None
        /\ rmax' = rseq' /\ batch' = {}
        /\ UNCHANGED <<linked, puts, acked, done>>
  BY <1>1 DEF Reopen
<1>5. linked = {bases[i] : i \in DOMAIN bases}
  BY <1>3, <1>4, AscendingListsAll
<1>6. PICK n \in Nat : n = Cardinality(linked)
  BY <1>3, FS_CardinalityType
<1>7. /\ DOMAIN bases = 1..n /\ bases \in Seq(linked) /\ Len(bases) = n
      /\ \A i \in 1..n : bases[i] \in linked /\ bases[i] \in Nat /\ bases[i] \in DOMAIN files
  <2>1. bases \in [1..n -> linked]
    BY <1>6
  <2>2. DOMAIN bases = 1..n /\ bases \in Seq(linked) /\ Len(bases) = n
    BY <2>1
  <2> QED BY <1>3, <2>1, <2>2
<1>8. /\ DOMAIN segs' = 1..n /\ segs' \in Seq(Segment)
      /\ \A i \in 1..n : segs'[i].base = bases[i] /\ segs'[i].bytes = FileSize(files[bases[i]])
  <2>1. segs' = [i \in 1..n |-> [base |-> bases[i], bytes |-> FileSize(files[bases[i]])]]
    BY <1>4, <1>7 DEF ListOf
  <2> QED BY <1>2, <2>1 DEF TypeInv, TypeOK
<1>9. Len(segs') = n /\ (segs' = <<>> <=> n = 0) /\ (bases = <<>> <=> n = 0)
  <2>1. Len(segs') = n
    BY <1>8, LenProperties
  <2> QED BY <1>7, <1>8, <2>1, EmptySeq
<1>10. segs = <<>> <=> n = 0
  <2>1. segs = <<>> <=> linked = {}
    <3>1. segs # <<>> => linked # {}
      BY EndsOfList DEF JournalInv
    <3>2. segs = <<>> => linked = {}
      BY <1>3 DEF JournalInv, ListedInOrder
    <3> QED BY <3>1, <3>2
  <2>2. linked = {} <=> n = 0
    BY <1>3, <1>6, FS_EmptySet
  <2> QED BY <2>1, <2>2
<1>11. ListedInOrder'
  <2>1. linked' = {segs'[i].base : i \in DOMAIN segs'}
    <3>1. {segs'[i].base : i \in 1..n} = {bases[i] : i \in 1..n}
      BY <1>8
    <3>2. linked' = linked /\ DOMAIN segs' = 1..n /\ DOMAIN bases = 1..n
      BY <1>4, <1>7, <1>8
    <3> QED BY <1>5, <3>1, <3>2
  <2>2. \A i, k \in DOMAIN segs' : i < k => segs'[i].base < segs'[k].base
    BY <1>4, <1>7, <1>8 DEF Ascending
  <2>3. \A i \in DOMAIN segs' : segs'[i].bytes > 0 => files'[segs'[i].base] # <<>>
    BY <1>1, <1>8 DEF FileSize
  <2>4. \A b \in DOMAIN files' \ linked', c \in linked' : b < c
    BY <1>1, <1>4 DEF JournalInv, ListedInOrder
  <2>5. segs' = <<>> => DOMAIN files' = {} /\ nextSeq' = 0
    BY <1>1, <1>4, <1>9, <1>10 DEF JournalInv, ListedInOrder
  <2> QED BY <2>1, <2>2, <2>3, <2>4, <2>5 DEF ListedInOrder
<1>12. segs # <<>> => Newest' = Newest /\ FirstBase' = FirstBase /\ n > 0
                      /\ bases[n] = Newest /\ bases[1] = FirstBase
  <2> SUFFICES ASSUME segs # <<>>
               PROVE  Newest' = Newest /\ FirstBase' = FirstBase /\ n > 0
                      /\ bases[n] = Newest /\ bases[1] = FirstBase
    OBVIOUS
  <2>1. n > 0 /\ 1 \in 1..n /\ n \in 1..n
    BY <1>10
  <2>2. Newest' = bases[n] /\ FirstBase' = bases[1]
    BY <1>8, <1>9, <2>1 DEF Newest, FirstBase
  <2>3. /\ linked \in SUBSET Nat /\ FirstBase \in linked /\ Newest \in linked
        /\ \A c \in linked : FirstBase <= c /\ c <= Newest
    BY ListedWithinEnds, ZenonT(40)
  <2>4. \A c \in linked : \E i \in 1..n : bases[i] = c
    BY <1>5, <1>7
  <2>5. \A i, k \in 1..n : i < k => bases[i] < bases[k]
    BY <1>4, <1>7 DEF Ascending
  <2>6. bases[n] = Newest
    <3>1. bases[n] \in Nat /\ Newest \in Nat /\ bases[n] <= Newest
      BY <1>7, <2>1, <2>3
    <3>2. PICK i \in 1..n : bases[i] = Newest
      BY <2>3, <2>4
    <3>3. i < n => bases[i] < bases[n]
      BY <2>1, <2>5
    <3>4. i = n \/ i < n
      BY <2>1
    <3> QED BY <3>1, <3>2, <3>3, <3>4
  <2>7. bases[1] = FirstBase
    <3>1. bases[1] \in Nat /\ FirstBase \in Nat /\ FirstBase <= bases[1]
      BY <1>7, <2>1, <2>3
    <3>2. PICK k \in 1..n : bases[k] = FirstBase
      BY <2>3, <2>4
    <3>3. 1 < k => bases[1] < bases[k]
      BY <2>1, <2>5
    <3>4. k = 1 \/ 1 < k
      BY <2>1
    <3> QED BY <3>1, <3>2, <3>3, <3>4
  <2> QED BY <2>1, <2>2, <2>6, <2>7
<1>13. FirstBase' = FirstBase
  BY <1>9, <1>10, <1>12 DEF FirstBase
<1>14. nextSeq' = IF nextSeq = 0 /\ segs # <<>> THEN 1 ELSE nextSeq
  <2>1. CASE segs = <<>>
    BY <1>4, <1>9, <1>10, <2>1 DEF JournalInv, ListedInOrder
  <2>2. CASE segs # <<>>
    <3>1. PICK N \in Nat : N = Newest /\ N \in DOMAIN files /\ N = bases[Len(bases)]
      BY <1>7, <1>12, <2>2, EndsOfList, NewestFile DEF JournalInv
    <3>2. PICK hi \in HighestSeq(files[N]) : nextSeq' = IF hi >= N THEN hi + 1 ELSE N
      BY <1>4, <1>9, <1>12, <2>2, <3>1
    <3>3. CASE files[N] = <<>>
      <4>1. hi = 0
        BY <3>2, <3>3 DEF HighestSeq, Reachable
      <4>2. nextSeq = N \/ (N = 0 /\ nextSeq = 1)
        BY <2>2, <3>1, <3>3 DEF JournalInv, NewestIsNext
      <4> QED BY <2>2, <3>1, <3>2, <4>1, <4>2
    <3>4. CASE files[N] # <<>>
      <4>1. PICK L \in Nat : L = Len(files[N]) /\ L > 0 /\ DOMAIN files[N] = 1..L
        BY <3>1, <3>4, FramesTyped DEF JournalInv, TypeInv
      <4>2. \A i \in 1..L : files[N][i].full
        BY <3>1, <4>1 DEF JournalInv, FramesInOrder
      <4>3. HighestSeq(files[N]) = {files[N][Len(files[N])].seq}
        BY <3>1, <3>4, <4>1, <4>2, HighestOfWhole, FramesTyped DEF JournalInv, TypeInv
      <4>4. hi = files[N][L].seq
        BY <3>2, <4>1, <4>3
      <4>5. files[N][L].seq + 1 = nextSeq /\ N <= files[N][L].seq /\ files[N][L].seq \in Nat
        BY <2>2, <3>1, <3>4, <4>1, FramesTyped
        DEF JournalInv, NewestIsNext, FramesInOrder, TypeInv
      <4> QED BY <3>1, <3>2, <4>4, <4>5
    <3> QED BY <3>3, <3>4
  <2> QED BY <2>1, <2>2
<1>15. readNext' = offset
  BY <1>3, <1>4, <1>14
<1>16. rseq' = IF offset < FirstBase THEN FirstBase ELSE offset
  <2>1. CASE segs = <<>>
    <3>1. FirstBase = 0
      BY <2>1 DEF FirstBase
    <3> QED BY <1>3, <1>4, <1>9, <1>10, <1>15, <2>1, <3>1 DEF ReaderStart
  <2>2. CASE segs # <<>>
    BY <1>4, <1>9, <1>12, <1>15, <2>2 DEF ReaderStart
  <2> QED BY <2>1, <2>2
<1> QED BY <1>1, <1>2, <1>4, <1>9, <1>10, <1>11, <1>12, <1>13, <1>14, <1>15, <1>16

LEMMA KillKeeps ==
  ASSUME JournalInv, Kill
  PROVE  JournalInv'
<1>1. /\ TypeInv' /\ ListedInOrder'
      /\ FirstBase' = FirstBase /\ (segs' = <<>> <=> segs = <<>>)
      /\ segs # <<>> => Newest' = Newest
      /\ nextSeq' = IF nextSeq = 0 /\ segs # <<>> THEN 1 ELSE nextSeq
      /\ readNext' = offset
      /\ rseq' = IF offset < FirstBase THEN FirstBase ELSE offset
      /\ rmax' = rseq' /\ closed' = FALSE /\ apc' = "idle" /\ rpc' = "idle"
      /\ rfile' = None /\ rseg' = None /\ batch' = {} /\ linked' = linked
      /\ puts' = puts /\ acked' = acked /\ done' = done /\ files' = files
      /\ offset' = offset /\ gone' = gone
      /\ active' = "nil" => segs' = <<>>
  BY KillFinds
<1>2. /\ readNext <= nextSeq /\ offset <= readNext /\ offset <= nextSeq
      /\ offset \in Nat /\ readNext \in Nat /\ nextSeq \in Nat
      /\ FirstBase \in Nat /\ FirstBase <= nextSeq
  BY CursorsBelowNext
<1>3. nextSeq <= nextSeq' /\ nextSeq' \in Nat
  BY <1>1, <1>2
<1>4. FramesInOrder'
  <2>1. ASSUME NEW b \in DOMAIN files, NEW i \in DOMAIN files[b]
        PROVE  files[b][i].seq < nextSeq'
    <3>1. files[b][i].seq \in Nat /\ files[b][i].seq < nextSeq
      BY FramesTyped DEF JournalInv, TypeInv, FramesInOrder
    <3> QED BY <1>2, <1>3, <3>1
  <2> QED BY <1>1, <2>1 DEF JournalInv, FramesInOrder
<1>5. NewestIsNext'
  <2> SUFFICES ASSUME segs # <<>>
               PROVE  /\ files[Newest] # <<>> => files[Newest][Len(files[Newest])].seq + 1 = nextSeq'
                      /\ files[Newest] = <<>> => nextSeq' = Newest \/ (Newest = 0 /\ nextSeq' = 1)
    BY <1>1 DEF NewestIsNext
  <2>1. /\ files[Newest] # <<>> => files[Newest][Len(files[Newest])].seq + 1 = nextSeq
        /\ files[Newest] = <<>> => nextSeq = Newest \/ (Newest = 0 /\ nextSeq = 1)
    BY DEF JournalInv, NewestIsNext
  <2>2. CASE nextSeq' = nextSeq
    BY <2>1, <2>2
  <2>3. CASE nextSeq = 0 /\ nextSeq' = 1
    <3>1. files[Newest] = <<>>
      <4> SUFFICES ASSUME files[Newest] # <<>> PROVE FALSE
        OBVIOUS
      <4>1. Len(files[Newest]) \in DOMAIN files[Newest] /\ Newest \in DOMAIN files
        BY NewestFile, FramesTyped DEF JournalInv, TypeInv
      <4>2. files[Newest][Len(files[Newest])].seq \in Nat
        BY <4>1, FramesTyped DEF JournalInv, TypeInv
      <4> QED BY <2>1, <2>3, <4>2
    <3> QED BY <2>1, <2>3, <3>1
  <2> QED BY <1>1, <2>2, <2>3
<1>6. CallsAreFrames'
  <2>1. nextSeq' <= puts /\ (nextSeq' = 0 => segs = <<>>)
    <3>1. nextSeq <= puts /\ (apc = "write" => nextSeq < puts) /\ puts \in Nat
          /\ (nextSeq = 0 /\ segs # <<>> => apc = "write")
      BY DEF JournalInv, CallsAreFrames, TypeInv, TypeOK
    <3> QED BY <1>1, <1>2, <3>1
  <2> QED BY <1>1, <2>1 DEF JournalInv, CallsAreFrames
<1>7. CursorsInOrder'
  <2>1. rseq' <= nextSeq' /\ rmax' <= rseq' /\ offset <= rmax'
    BY <1>1, <1>2, <1>3
  <2>2. readNext' = offset /\ offset' = offset /\ readNext' <= rmax' /\ offset' <= readNext'
    BY <1>1, <1>2, <2>1
  <2>3. rpc' = "idle" /\ batch' = {}
    BY <1>1
  <2> QED BY <2>1, <2>2, <2>3 DEF CursorsInOrder
<1>8. PassedIsDelivered'
  <2> SUFFICES ASSUME NEW b \in linked, NEW i \in DOMAIN files[b]
               PROVE  /\ files[b][i].seq < rseq' =>
                           files[b][i].id \in done /\ files[b][i].seq < rmax'
                      /\ files[b][i].seq < offset => files[b][i].id \in done
    BY <1>1 DEF PassedIsDelivered
  <2>1. b \in DOMAIN files /\ b \in Nat
    BY DEF JournalInv, TypeInv, TypeOK
  <2>2. files[b][i].seq \in Nat /\ b <= files[b][i].seq
    BY <2>1, FramesTyped DEF JournalInv, TypeInv, FramesInOrder
  <2>3. FirstBase <= b
    <3>1. segs # <<>>
      BY <2>1 DEF JournalInv, ListedInOrder
    <3> QED BY <3>1, EndsOfList DEF JournalInv
  <2>4. files[b][i].seq < offset => files[b][i].id \in done
    BY <1>2, <2>2 DEF JournalInv, PassedIsDelivered
  <2> QED BY <1>1, <1>2, <2>1, <2>2, <2>3, <2>4
<1>9. ReaderInPlace'
  BY <1>1 DEF ReaderInPlace
<1> QED BY <1>1, <1>4, <1>5, <1>6, <1>7, <1>8, <1>9 DEF JournalInv

-----------------------------------------------------------------------------
(* The reader's steps.                                                      *)

\* What the reader may find next: a frame above all it delivered, and below it no frame
\* that it still owes.
LEMMA FoundIsNext ==
  ASSUME JournalInv, FrameAt
  PROVE  /\ rfile \in DOMAIN files /\ roff + 1 \in DOMAIN files[rfile]
         /\ files[rfile][roff + 1].seq \in Nat /\ files[rfile][roff + 1].id \in Nat
         /\ files[rfile][roff + 1].seq >= rmax /\ files[rfile][roff + 1].seq < nextSeq
         /\ rfile \in linked => files[rfile][roff + 1].seq >= rseq
         /\ rfile \notin linked => files[rfile][roff + 1].seq < FirstBase /\ rfile < FirstBase
         /\ \A b \in linked : \A i \in DOMAIN files[b] :
              files[b][i].seq < files[rfile][roff + 1].seq => files[b][i].seq < rseq
<1>1. /\ rfile \in DOMAIN files /\ roff \in Nat /\ rmax \in Nat /\ rseq \in Nat
      /\ linked \subseteq DOMAIN files /\ rfile # None
  BY JournalAssumption DEF FrameAt, JournalInv, TypeInv, TypeOK
<1>2. roff + 1 \in DOMAIN files[rfile]
  <2>1. Len(files[rfile]) \in Nat /\ DOMAIN files[rfile] = 1..Len(files[rfile])
    BY <1>1, FramesTyped DEF JournalInv, TypeInv
  <2> QED BY <1>1, <2>1 DEF FrameAt
<1>3. PICK f : f = files[rfile][roff + 1]
  OBVIOUS
<1>4. f.seq \in Nat /\ f.id \in Nat
  BY <1>1, <1>2, <1>3, FramesTyped DEF JournalInv, TypeInv
<1>5. f.seq < nextSeq /\ rfile <= f.seq /\ \A c \in DOMAIN files : rfile < c => f.seq < c
  BY <1>1, <1>2, <1>3 DEF JournalInv, FramesInOrder
<1>6. f.seq >= rmax
  BY <1>1, <1>2, <1>3 DEF JournalInv, ReaderInPlace
<1>7. \A b \in DOMAIN files : b \in Nat /\ \A i \in DOMAIN files[b] : files[b][i].seq \in Nat
  BY FramesTyped DEF JournalInv, TypeInv
<1>8. segs # <<>>
  BY <1>1 DEF JournalInv, ListedInOrder
<1>9. CASE rfile \in linked
  <2>1. /\ rfile <= rseq
        /\ \A i \in DOMAIN files[rfile] : files[rfile][i].seq < rseq <=> i <= roff
    BY <1>1, <1>9 DEF JournalInv, ReaderInPlace
  <2>2. f.seq >= rseq
    <3>1. ~(f.seq < rseq)
      BY <1>1, <1>2, <1>3, <2>1
    <3> QED BY <1>1, <1>4, <3>1
  <2>3. ASSUME NEW b \in linked, NEW i \in DOMAIN files[b], files[b][i].seq < f.seq
        PROVE  files[b][i].seq < rseq
    <3>0. b \in DOMAIN files /\ b \in Nat /\ files[b][i].seq \in Nat /\ rfile \in Nat
      BY <1>1, <1>7
    <3>1. CASE b < rfile
      <4>1. files[b][i].seq < rfile
        BY <1>1, <3>0, <3>1 DEF JournalInv, FramesInOrder
      <4> QED BY <1>1, <2>1, <3>0, <4>1
    <3>2. CASE b = rfile
      <4>1. ~(roff + 1 < i)
        <5>1. roff + 1 < i => f.seq < files[b][i].seq
          BY <1>1, <1>2, <1>3, <3>2 DEF JournalInv, FramesInOrder
        <5> QED BY <1>4, <2>3, <3>0, <5>1
      <4>2. i # roff + 1
        BY <1>3, <1>4, <2>3, <3>2
      <4>3. i \in Nat
        BY <1>1, <3>2, FramesTyped DEF JournalInv, TypeInv
      <4>4. i <= roff
        BY <1>1, <4>1, <4>2, <4>3
      <4> QED BY <2>1, <3>2, <4>4
    <3>3. CASE rfile < b
      <4>1. f.seq < b /\ b <= files[b][i].seq
        BY <1>5, <3>0, <3>3 DEF JournalInv, FramesInOrder
      <4> QED BY <1>4, <2>3, <3>0, <4>1
    <3> QED BY <3>0, <3>1, <3>2, <3>3
  <2> QED BY <1>1, <1>2, <1>3, <1>4, <1>5, <1>6, <1>9, <2>2, <2>3
<1>10. CASE rfile \notin linked
  <2>1. /\ rfile < FirstBase /\ FirstBase \in linked /\ FirstBase \in Nat
        /\ \A c \in linked : FirstBase <= c
    BY <1>1, <1>8, <1>10, EndsOfList DEF JournalInv
  <2>2. f.seq < FirstBase
    BY <1>1, <1>5, <2>1
  <2>3. ASSUME NEW b \in linked, NEW i \in DOMAIN files[b]
        PROVE  ~(files[b][i].seq < f.seq)
    <3>1. b \in DOMAIN files /\ b \in Nat /\ files[b][i].seq \in Nat /\ b <= files[b][i].seq
      BY <1>1, <1>7 DEF JournalInv, FramesInOrder
    <3> QED BY <1>4, <2>1, <2>2, <3>1
  <2> QED BY <1>1, <1>2, <1>3, <1>4, <1>5, <1>6, <1>10, <2>1, <2>2, <2>3
<1> QED BY <1>9, <1>10

LEMMA ReadFrameKeeps ==
  ASSUME JournalInv, ReadFrame, TypeInv'
  PROVE  JournalInv'
<1>1. PICK f : f = files[rfile][roff + 1]
  OBVIOUS
<1>2. /\ FrameAt /\ rseq' = f.seq + 1 /\ rmax' = f.seq + 1 /\ batch' = batch \cup {f.id}
      /\ roff' = roff + 1 /\ rpc' = "idle"
      /\ segs' = segs /\ active' = active /\ nextSeq' = nextSeq /\ readNext' = readNext
      /\ closed' = closed /\ apc' = apc /\ files' = files /\ linked' = linked
      /\ offset' = offset /\ rfile' = rfile /\ rseg' = rseg /\ cval' = cval /\ puts' = puts
      /\ acked' = acked /\ done' = done /\ gone' = gone
  BY <1>1 DEF ReadFrame, jvars, dvars
<1>3. /\ rfile \in DOMAIN files /\ roff + 1 \in DOMAIN files[rfile]
      /\ f.seq \in Nat /\ f.id \in Nat /\ f.seq >= rmax /\ f.seq < nextSeq
      /\ rfile \in linked => f.seq >= rseq
      /\ rfile \notin linked => f.seq < FirstBase /\ rfile < FirstBase
      /\ \A b \in linked : \A i \in DOMAIN files[b] :
           files[b][i].seq < f.seq => files[b][i].seq < rseq
  BY <1>1, <1>2, FoundIsNext
<1>4. /\ nextSeq \in Nat /\ rmax \in Nat /\ rseq \in Nat /\ readNext \in Nat /\ roff \in Nat
      /\ linked \subseteq DOMAIN files /\ rfile \in Nat
  BY <1>3 DEF JournalInv, TypeInv, TypeOK
<1>5. \A b \in DOMAIN files : b \in Nat /\ \A i \in DOMAIN files[b] : files[b][i].seq \in Nat
  BY FramesTyped DEF JournalInv, TypeInv
<1>6. ListedInOrder' /\ FramesInOrder' /\ NewestIsNext' /\ CallsAreFrames'
  BY <1>2, SameDisk DEF JournalInv
<1>7. FirstBase' = FirstBase /\ FirstBase \in Nat
  BY <1>2, CursorsBelowNext DEF FirstBase
<1>8. CursorsInOrder'
  <2>1. rseq' <= nextSeq /\ rmax' <= rseq'
    BY <1>2, <1>3, <1>4
  <2>2. readNext <= rmax' \/ readNext <= FirstBase
    <3>1. readNext <= rmax \/ readNext <= FirstBase
      BY DEF JournalInv, CursorsInOrder
    <3> QED BY <1>2, <1>3, <1>4, <1>7, <3>1
  <2>3. \E b \in DOMAIN files : \E i \in DOMAIN files[b] : files[b][i].seq + 1 = rmax'
    BY <1>1, <1>2, <1>3
  <2> QED BY <1>2, <1>7, <2>1, <2>2, <2>3 DEF JournalInv, CursorsInOrder
<1>9. PassedIsDelivered'
  <2> SUFFICES ASSUME NEW b \in linked, NEW i \in DOMAIN files[b]
               PROVE  /\ files[b][i].seq < rseq' =>
                           files[b][i].id \in batch' \cup done /\ files[b][i].seq < rmax'
                      /\ files[b][i].seq < readNext => files[b][i].id \in done
    BY <1>2 DEF PassedIsDelivered
  <2>1. b \in DOMAIN files /\ files[b][i].seq \in Nat /\ b \in Nat
    BY <1>4, <1>5
  <2>2. /\ files[b][i].seq < rseq => files[b][i].id \in batch \cup done
        /\ files[b][i].seq < readNext => files[b][i].id \in done
    BY DEF JournalInv, PassedIsDelivered
  <2>3. CASE files[b][i].seq < f.seq
    <3>1. files[b][i].id \in batch \cup done
      BY <1>3, <2>2, <2>3
    <3>2. files[b][i].seq < rmax'
      BY <1>2, <1>3, <2>1, <2>3
    <3> QED BY <1>2, <2>2, <3>1, <3>2
  <2>4. CASE files[b][i].seq = f.seq
    <3>1. files[b][i].id = f.id
      <4>1. b = rfile
        <5>1. ~(b < rfile)
          <6>1. b < rfile => files[b][i].seq < rfile
            BY <1>3, <2>1 DEF JournalInv, FramesInOrder
          <6>2. rfile <= f.seq
            BY <1>1, <1>3 DEF JournalInv, FramesInOrder
          <6> QED BY <1>3, <1>4, <2>1, <2>4, <6>1, <6>2
        <5>2. ~(rfile < b)
          <6>1. rfile < b => f.seq < b
            BY <1>1, <1>3, <2>1 DEF JournalInv, FramesInOrder
          <6>2. b <= files[b][i].seq
            BY <2>1 DEF JournalInv, FramesInOrder
          <6> QED BY <1>3, <1>4, <2>1, <2>4, <6>1, <6>2
        <5> QED BY <1>4, <2>1, <5>1, <5>2
      <4>2. i = roff + 1
        <5>1. i \in Nat
          BY <2>1, FramesTyped DEF JournalInv, TypeInv
        <5>2. /\ i < roff + 1 => files[b][i].seq < f.seq
              /\ roff + 1 < i => f.seq < files[b][i].seq
          BY <1>1, <1>3, <4>1 DEF JournalInv, FramesInOrder
        <5> QED BY <1>3, <1>4, <2>4, <5>1, <5>2
      <4> QED BY <1>1, <4>1, <4>2
    <3> QED BY <1>2, <1>3, <2>2, <2>4, <3>1
  <2>5. CASE files[b][i].seq > f.seq
    BY <1>2, <1>3, <2>1, <2>2, <2>5
  <2> QED BY <1>3, <2>1, <2>3, <2>4, <2>5
<1>10. ReaderInPlace'
  <2>1. /\ Len(files[rfile]) \in Nat /\ DOMAIN files[rfile] = 1..Len(files[rfile])
    BY <1>3, FramesTyped DEF JournalInv, TypeInv
  <2>2. rfile <= f.seq
    BY <1>1, <1>3 DEF JournalInv, FramesInOrder
  <2>3. ASSUME NEW i \in DOMAIN files[rfile]
        PROVE  /\ files[rfile][i].seq < f.seq + 1 <=> i <= roff + 1
               /\ i > roff + 1 => files[rfile][i].seq >= f.seq + 1
    <3>1. i \in Nat /\ files[rfile][i].seq \in Nat
      BY <1>3, <1>5, <2>1
    <3>2. /\ i < roff + 1 => files[rfile][i].seq < f.seq
          /\ roff + 1 < i => f.seq < files[rfile][i].seq
      BY <1>1, <1>3 DEF JournalInv, FramesInOrder
    <3>3. i = roff + 1 => files[rfile][i].seq = f.seq
      BY <1>1
    <3> QED BY <1>3, <1>4, <3>1, <3>2, <3>3
  <2> QED BY <1>2, <1>3, <1>4, <2>1, <2>2, <2>3 DEF ReaderInPlace
<1> QED BY <1>6, <1>8, <1>9, <1>10 DEF JournalInv

LEMMA SnapshotKeeps ==
  ASSUME JournalInv, Snapshot, TypeInv'
  PROVE  JournalInv'
<1>1. /\ segs' = segs /\ active' = active /\ nextSeq' = nextSeq /\ readNext' = readNext
      /\ closed' = closed /\ apc' = apc /\ files' = files /\ linked' = linked
      /\ offset' = offset /\ rfile' = rfile /\ roff' = roff /\ rmax' = rmax /\ cval' = cval
      /\ puts' = puts /\ acked' = acked /\ batch' = batch /\ done' = done /\ gone' = gone
  BY DEF Snapshot, jvars, dvars, hvars
<1>2. ListedInOrder' /\ FramesInOrder' /\ NewestIsNext' /\ CallsAreFrames'
  BY <1>1, SameDisk DEF JournalInv
<1>3. /\ nextSeq \in Nat /\ rmax \in Nat /\ rseq \in Nat /\ linked \subseteq DOMAIN files
      /\ FirstBase \in Nat /\ FirstBase <= nextSeq
  BY CursorsBelowNext DEF JournalInv, TypeInv, TypeOK
<1>4. ASSUME NEW target \in Nat, OpenAt(target)
      PROVE  rpc' = "open" /\ rseq' = target /\ (rseg' = None \/ rseg' <= target)
  <2>1. \A b \in SegmentFor(target) : b <= target
    <3> SUFFICES ASSUME NEW k \in DOMAIN segs, \A m \in 1..k : segs[m].base <= target
                 PROVE  segs[k].base <= target
      BY DEF SegmentFor
    <3>1. Len(segs) \in Nat /\ DOMAIN segs = 1..Len(segs)
      BY LenProperties DEF JournalInv, TypeInv, TypeOK
    <3>2. k \in Nat /\ k >= 1
      BY <3>1
    <3>3. k \in 1..k
      BY <3>2
    <3> QED BY <3>3
  <2> QED BY <1>4, <2>1 DEF OpenAt
<1>5. \/ rseq' = rseq /\ rpc' \in {"closed", "idle", "wait"}
      \/ rseq' = rseq /\ rpc' = "open" /\ (rseg' = None \/ rseg' <= rseq')
      \/ /\ segs # <<>> /\ rseq < FirstBase /\ rseq' = FirstBase
         /\ rpc' = "open" /\ (rseg' = None \/ rseg' <= rseq')
  <2>1. CASE segs # <<>> /\ rseq < segs[1].base /\ OpenAt(segs[1].base)
    <3>1. segs[1].base = FirstBase
      BY <2>1 DEF FirstBase
    <3> QED BY <1>3, <1>4, <2>1, <3>1
  <2>2. CASE OpenAt(rseq)
    BY <1>3, <1>4, <2>2
  <2>3. CASE UNCHANGED <<rseq, rseg>> /\ rpc' \in {"closed", "idle", "wait"}
    BY <2>3
  <2> QED BY <2>1, <2>2, <2>3 DEF Snapshot
<1>6. rseq <= rseq' /\ rseq' <= nextSeq /\ rseq' \in Nat
  <2>1. rseq <= nextSeq
    BY DEF JournalInv, CursorsInOrder
  <2> QED BY <1>3, <1>5, <2>1
<1>7. CursorsInOrder'
  <2>1. rmax <= rseq
    BY DEF JournalInv, CursorsInOrder
  <2>2. rmax <= rseq'
    BY <1>3, <1>6, <2>1
  <2>3. rpc' # "commit" /\ (rpc' = "open" => rseg' = None \/ rseg' <= rseq')
    BY <1>5
  <2>4. FirstBase' = FirstBase
    BY <1>1 DEF FirstBase
  <2> QED BY <1>1, <1>6, <2>2, <2>3, <2>4 DEF JournalInv, CursorsInOrder
<1>8. CASE rseq' = rseq
  <2>1. PassedIsDelivered' /\ ReaderInPlace'
    BY <1>1, <1>8 DEF JournalInv, PassedIsDelivered, ReaderInPlace
  <2> QED BY <1>2, <1>7, <2>1 DEF JournalInv
<1>9. CASE segs # <<>> /\ rseq < FirstBase /\ rseq' = FirstBase
  <2>1. \A b \in linked : b \in Nat /\ FirstBase <= b
    BY <1>9, EndsOfList DEF JournalInv
  <2>2. PassedIsDelivered'
    <3> SUFFICES ASSUME NEW b \in linked, NEW i \in DOMAIN files[b]
                 PROVE  ~(files[b][i].seq < FirstBase)
      BY <1>1, <1>9 DEF JournalInv, PassedIsDelivered
    <3>1. files[b][i].seq \in Nat /\ b <= files[b][i].seq /\ b \in Nat /\ FirstBase <= b
      BY <1>3, <2>1, FramesTyped DEF JournalInv, TypeInv, FramesInOrder
    <3> QED BY <1>3, <3>1
  <2>3. rfile \notin linked
    <3>1. rfile # None /\ rfile \in linked => rfile <= rseq
      BY DEF JournalInv, ReaderInPlace
    <3>2. rfile \in linked => rfile # None
      BY <2>1, JournalAssumption
    <3> QED BY <1>3, <1>9, <2>1, <3>1, <3>2
  <2>4. ReaderInPlace'
    BY <1>1, <2>3 DEF JournalInv, ReaderInPlace
  <2> QED BY <1>2, <1>7, <2>2, <2>4 DEF JournalInv
<1> QED BY <1>5, <1>8, <1>9

LEMMA OpenSegmentKeeps ==
  ASSUME JournalInv, OpenSegment, TypeInv'
  PROVE  JournalInv'
<1>1. /\ segs' = segs /\ active' = active /\ nextSeq' = nextSeq /\ readNext' = readNext
      /\ closed' = closed /\ apc' = apc /\ files' = files /\ linked' = linked
      /\ offset' = offset /\ rseq' = rseq /\ rmax' = rmax /\ cval' = cval
      /\ puts' = puts /\ acked' = acked /\ batch' = batch /\ done' = done /\ gone' = gone
      /\ rpc = "open" /\ rpc' = "read"
  BY DEF OpenSegment, jvars, dvars, hvars
<1>2. ListedInOrder' /\ FramesInOrder' /\ NewestIsNext' /\ CallsAreFrames'
  BY <1>1, SameDisk DEF JournalInv
<1>3. CursorsInOrder'
  BY <1>1 DEF JournalInv, CursorsInOrder, FirstBase
<1>4. PassedIsDelivered'
  BY <1>1 DEF JournalInv, PassedIsDelivered
<1>5. CASE rseg \in linked
  <2>1. PICK n \in 0..Len(files[rseg]) :
          rfile' = rseg /\ SeekPos(files[rseg], rseq, n) /\ roff' = n
    BY <1>5 DEF OpenSegment
  <2>2. /\ rseg \in DOMAIN files /\ rseg \in Nat /\ rmax \in Nat /\ rseq \in Nat
        /\ Len(files[rseg]) \in Nat /\ DOMAIN files[rseg] = 1..Len(files[rseg])
        /\ \A i \in DOMAIN files[rseg] : files[rseg][i].seq \in Nat
    BY <1>5, FramesTyped DEF JournalInv, TypeInv, TypeOK
  <2>3. rseg <= rseq /\ rmax <= rseq
    <3>1. rseg # None
      BY <2>2, JournalAssumption
    <3> QED BY <1>1, <3>1 DEF JournalInv, CursorsInOrder
  <2>4. ASSUME NEW i \in DOMAIN files[rseg]
        PROVE  /\ files[rseg][i].seq < rseq <=> i <= n
               /\ i > n => files[rseg][i].seq >= rmax
    <3>1. i \in Nat /\ n \in Nat
      BY <2>1, <2>2
    <3>2. CASE i <= n
      BY <2>1, <2>2, <3>1, <3>2 DEF SeekPos
    <3>3. CASE i > n
      <4>1. n < Len(files[rseg]) /\ n + 1 \in DOMAIN files[rseg]
        BY <2>1, <2>2, <3>1, <3>3
      <4>2. files[rseg][n + 1].seq >= rseq
        BY <2>1, <2>2, <4>1 DEF SeekPos, JournalInv, FramesInOrder
      <4>3. n + 1 < i => files[rseg][n + 1].seq < files[rseg][i].seq
        BY <2>2, <4>1 DEF JournalInv, FramesInOrder
      <4>4. files[rseg][i].seq >= rseq
        <5>1. CASE i = n + 1
          BY <4>2, <5>1
        <5>2. CASE n + 1 < i
          BY <2>2, <4>1, <4>2, <4>3, <5>2
        <5> QED BY <3>1, <3>3, <5>1, <5>2
      <4> QED BY <2>2, <2>3, <3>1, <3>3, <4>4
    <3> QED BY <3>1, <3>2, <3>3
  <2>5. ReaderInPlace'
    BY <1>1, <2>1, <2>2, <2>3, <2>4 DEF ReaderInPlace
  <2> QED BY <1>2, <1>3, <1>4, <2>5 DEF JournalInv
<1>6. CASE rseg \notin linked
  <2>1. rfile' = rfile /\ roff' = roff
    BY <1>6 DEF OpenSegment
  <2>2. ReaderInPlace'
    BY <1>1, <2>1 DEF JournalInv, ReaderInPlace
  <2> QED BY <1>2, <1>3, <1>4, <2>2 DEF JournalInv
<1> QED BY <1>5, <1>6

LEMMA CommitKeeps ==
  ASSUME JournalInv, Commit, TypeInv'
  PROVE  JournalInv'
<1>1. /\ segs' = segs /\ active' = active /\ nextSeq' = nextSeq
      /\ closed' = closed /\ apc' = apc /\ files' = files /\ linked' = linked
      /\ offset' = offset /\ rfile' = rfile /\ roff' = roff /\ rseq' = rseq /\ rmax' = rmax
      /\ rseg' = rseg /\ puts' = puts /\ acked' = acked /\ gone' = gone
      /\ readNext' = MovedTo(readNext, rmax) /\ cval' = readNext' /\ rpc' = "commit"
      /\ done' = done \cup batch /\ batch' = {}
  BY DEF Commit, dvars
<1>2. ListedInOrder' /\ FramesInOrder' /\ NewestIsNext' /\ CallsAreFrames'
  BY <1>1, SameDisk DEF JournalInv
<1>3. /\ rmax \in Nat /\ rseq \in Nat /\ readNext \in Nat /\ offset \in Nat
      /\ linked \subseteq DOMAIN files
  BY DEF JournalInv, TypeInv, TypeOK
<1>4. /\ readNext' = readNext \/ readNext' = rmax
      /\ readNext <= readNext' /\ readNext' \in Nat
      /\ readNext' = readNext => rmax <= readNext
  BY <1>1, <1>3 DEF MovedTo
<1>5. FirstBase' = FirstBase /\ FirstBase \in Nat
  BY <1>1, CursorsBelowNext DEF FirstBase
<1>6. CursorsInOrder'
  <2>1. offset <= readNext' /\ (readNext' <= rmax \/ readNext' <= FirstBase)
    <3>1. offset <= readNext /\ (readNext <= rmax \/ readNext <= FirstBase)
      BY DEF JournalInv, CursorsInOrder
    <3> QED BY <1>3, <1>4, <1>5, <3>1
  <2> QED BY <1>1, <1>4, <1>5, <2>1 DEF JournalInv, CursorsInOrder
<1>7. PassedIsDelivered'
  <2> SUFFICES ASSUME NEW b \in linked, NEW i \in DOMAIN files[b]
               PROVE  /\ files[b][i].seq < rseq =>
                           files[b][i].id \in batch \cup done /\ files[b][i].seq < rmax
                      /\ files[b][i].seq < readNext' => files[b][i].id \in batch \cup done
    BY <1>1 DEF PassedIsDelivered
  <2>1. /\ files[b][i].seq < rseq =>
             files[b][i].id \in batch \cup done /\ files[b][i].seq < rmax
        /\ files[b][i].seq < readNext => files[b][i].id \in done
    BY DEF JournalInv, PassedIsDelivered
  <2>2. files[b][i].seq < rmax => files[b][i].seq < rseq
    <3>1. files[b][i].seq \in Nat /\ rmax <= rseq
      BY <1>3, FramesTyped DEF JournalInv, TypeInv, CursorsInOrder
    <3> QED BY <1>3, <3>1
  <2> QED BY <1>4, <2>1, <2>2
<1>8. ReaderInPlace'
  BY <1>1 DEF JournalInv, ReaderInPlace
<1> QED BY <1>2, <1>6, <1>7, <1>8 DEF JournalInv

LEMMA SaveOffsetKeeps ==
  ASSUME JournalInv, SaveOffset \/ SaveOffsetFails, TypeInv'
  PROVE  JournalInv'
<1>1. /\ segs' = segs /\ active' = active /\ nextSeq' = nextSeq /\ readNext' = readNext
      /\ closed' = closed /\ apc' = apc /\ files' = files /\ linked' = linked
      /\ rfile' = rfile /\ roff' = roff /\ rseq' = rseq /\ rmax' = rmax
      /\ rseg' = rseg /\ puts' = puts /\ acked' = acked /\ gone' = gone
      /\ rpc = "commit" /\ rpc' = "idle" /\ done' = done /\ batch' = batch
      /\ offset' = cval \/ offset' = offset
  BY DEF SaveOffset, SaveOffsetFails, jvars, dvars
<1>2. ListedInOrder' /\ FramesInOrder' /\ NewestIsNext' /\ CallsAreFrames'
  BY <1>1, SameDisk DEF JournalInv
<1>3. CursorsInOrder'
  BY <1>1 DEF JournalInv, CursorsInOrder, FirstBase
<1>4. PassedIsDelivered' /\ ReaderInPlace'
  BY <1>1 DEF JournalInv, PassedIsDelivered, ReaderInPlace
<1> QED BY <1>2, <1>3, <1>4 DEF JournalInv

\* The steps of Append and Close that write no frame, and a rotation that fails, which
\* it does when the newest segment has a frame.
LEMMA NoFrameWritten ==
  ASSUME JournalInv, TypeInv',
         AppendReturn \/ Close \/ \E size \in Sizes : RotateFails(size)
  PROVE  JournalInv'
<1>1. /\ segs' = segs /\ nextSeq' = nextSeq /\ readNext' = readNext /\ files' = files
      /\ linked' = linked /\ offset' = offset /\ rpc' = rpc /\ rfile' = rfile
      /\ roff' = roff /\ rseq' = rseq /\ rseg' = rseg /\ rmax' = rmax /\ cval' = cval
      /\ puts' = puts /\ batch' = batch /\ done' = done /\ gone' = gone
      /\ apc' = "idle" /\ apc # "write"
  BY DEF AppendReturn, Ping, Close, RotateFails, dvars, rvars, hvars
<1>2. ListedInOrder'
  BY <1>1 DEF JournalInv, ListedInOrder
<1>3. FramesInOrder'
  BY <1>1 DEF JournalInv, FramesInOrder
<1>4. CursorsInOrder' /\ PassedIsDelivered' /\ ReaderInPlace'
  BY <1>1, SameReader DEF JournalInv
<1>5. NewestIsNext'
  <2>1. active' = "nil" /\ ~closed' /\ segs # <<>> => files[Newest] # <<>>
    <3>1. CASE AppendReturn
      BY <3>1 DEF AppendReturn, JournalInv, NewestIsNext
    <3>2. CASE Close
      BY <3>2 DEF Close
    <3>3. CASE \E size \in Sizes : RotateFails(size)
      <4>1. segs[Len(segs)].bytes > 0
        BY <3>3 DEF RotateFails, MustRotate
      <4> QED BY <4>1, EndsOfList DEF JournalInv, ListedInOrder
    <3> QED BY <3>1, <3>2, <3>3
  <2>2. Newest' = Newest
    BY <1>1 DEF Newest
  <2> QED BY <1>1, <2>1, <2>2 DEF JournalInv, NewestIsNext
<1>6. CallsAreFrames'
  <2>1. \A id \in acked' : \E b \in DOMAIN files : \E i \in DOMAIN files[b] : files[b][i].id = id
    <3>1. CASE AppendReturn
      <4>1. apc = "evict" /\ acked' = acked \cup {puts}
        BY <3>1 DEF AppendReturn
      <4>2. segs # <<>>
        BY <4>1 DEF JournalInv, TypeInv, NewestListed
      <4>3. Newest \in DOMAIN files /\ \E i \in DOMAIN files[Newest] : files[Newest][i].id = puts
        BY <4>1, <4>2, NewestFile DEF JournalInv, NewestIsNext
      <4> QED BY <4>1, <4>3 DEF JournalInv, CallsAreFrames
    <3>2. CASE acked' = acked
      BY <3>2 DEF JournalInv, CallsAreFrames
    <3> QED BY <3>1, <3>2 DEF Close, RotateFails, hvars
  <2>2. ~(nextSeq = 0 /\ segs # <<>>)
    BY <1>1 DEF JournalInv, CallsAreFrames
  <2> QED BY <1>1, <2>1, <2>2 DEF JournalInv, CallsAreFrames
<1> QED BY <1>2, <1>3, <1>4, <1>5, <1>6 DEF JournalInv

\* The steps of Next that only decide what the reader does then.
LEMMA OnlyTheReaderDecides ==
  ASSUME JournalInv, TypeInv', NoFrame \/ DecodeError \/ Wake \/ WaitExpires
  PROVE  JournalInv'
<1>1. /\ segs' = segs /\ active' = active /\ nextSeq' = nextSeq /\ readNext' = readNext
      /\ closed' = closed /\ apc' = apc /\ files' = files /\ linked' = linked
      /\ offset' = offset /\ rfile' = rfile /\ roff' = roff /\ rseq' = rseq /\ rmax' = rmax
      /\ rseg' = rseg /\ cval' = cval /\ puts' = puts /\ acked' = acked /\ batch' = batch
      /\ done' = done /\ gone' = gone /\ rpc' \notin {"commit", "open"}
  BY DEF NoFrame, DecodeError, Wake, WaitExpires, jvars, dvars, hvars
<1>2. ListedInOrder' /\ FramesInOrder' /\ NewestIsNext' /\ CallsAreFrames'
  BY <1>1, SameDisk DEF JournalInv
<1>3. CursorsInOrder'
  BY <1>1 DEF JournalInv, CursorsInOrder, FirstBase
<1>4. PassedIsDelivered' /\ ReaderInPlace'
  BY <1>1 DEF JournalInv, PassedIsDelivered, ReaderInPlace
<1> QED BY <1>2, <1>3, <1>4 DEF JournalInv

LEMMA InitJournalInv == Init => JournalInv
<1> SUFFICES ASSUME Init PROVE JournalInv
  OBVIOUS
<1>1. /\ segs = <<>> /\ nextSeq = 0 /\ readNext = 0 /\ apc = "idle" /\ files = <<>>
      /\ linked = {} /\ offset = 0 /\ rpc = "idle" /\ rfile = None /\ rseq = 0 /\ rmax = 0
      /\ puts = 0 /\ acked = {} /\ batch = {}
  BY DEF Init
<1>2. DOMAIN segs = {} /\ DOMAIN files = {}
  BY <1>1
<1>3. TypeInv
  BY InitTypeInv
<1>4. ListedInOrder /\ FramesInOrder /\ NewestIsNext
  BY <1>1, <1>2 DEF ListedInOrder, FramesInOrder, NewestIsNext
<1>5. CallsAreFrames
  BY <1>1, <1>2, JournalAssumption DEF CallsAreFrames
<1>6. CursorsInOrder /\ PassedIsDelivered /\ ReaderInPlace
  BY <1>1, <1>2 DEF CursorsInOrder, PassedIsDelivered, ReaderInPlace
<1> QED BY <1>3, <1>4, <1>5, <1>6 DEF JournalInv

LEMMA NextJournalInv ==
  ASSUME WholeWrites, JournalInv, [Next]_vars
  PROVE  JournalInv'
<1>1. TypeInv'
  BY NextTypeInv DEF JournalInv
<1>2. ASSUME NEW size \in Sizes, AppendBegin(size) PROVE JournalInv'
  BY <1>2, AppendBeginKeeps
<1>3. CASE AppendWrite
  BY <1>3, AppendWriteKeeps
<1>4. CASE EvictOldest
  BY <1>4, EvictOldestKeeps
<1>5. CASE AppendReturn \/ Close \/ \E size \in Sizes : RotateFails(size)
  BY <1>1, <1>5, NoFrameWritten
<1>6. CASE ReadFrame
  BY <1>1, <1>6, ReadFrameKeeps
<1>7. CASE NoFrame \/ DecodeError \/ Wake \/ WaitExpires
  BY <1>1, <1>7, OnlyTheReaderDecides
<1>8. CASE Snapshot
  BY <1>1, <1>8, SnapshotKeeps
<1>9. CASE OpenSegment
  BY <1>1, <1>9, OpenSegmentKeeps
<1>10. CASE Commit
  BY <1>1, <1>10, CommitKeeps
<1>11. CASE SaveOffset \/ SaveOffsetFails
  BY <1>1, <1>11, SaveOffsetKeeps
<1>12. CASE Kill
  BY <1>12, KillKeeps
<1>13. ~ShortWrite /\ ~KillTorn /\ ~PowerLoss
  BY DEF WholeWrites, ShortWrite, KillTorn, PowerLoss, Fault
<1>14. CASE UNCHANGED vars
  <2>1. /\ segs' = segs /\ active' = active /\ nextSeq' = nextSeq /\ readNext' = readNext
        /\ closed' = closed /\ apc' = apc /\ files' = files /\ linked' = linked
        /\ offset' = offset /\ rfile' = rfile /\ roff' = roff /\ rseq' = rseq
        /\ rmax' = rmax /\ rseg' = rseg /\ cval' = cval /\ puts' = puts /\ acked' = acked
        /\ batch' = batch /\ done' = done /\ gone' = gone /\ rpc' = rpc
    BY <1>14 DEF vars, jvars, dvars, rvars, hvars
  <2>2. ListedInOrder' /\ FramesInOrder' /\ NewestIsNext' /\ CallsAreFrames'
    BY <2>1, SameDisk DEF JournalInv
  <2>3. CursorsInOrder' /\ PassedIsDelivered' /\ ReaderInPlace'
    BY <2>1, SameReader DEF JournalInv
  <2> QED BY <1>1, <2>2, <2>3 DEF JournalInv
<1> QED
  BY <1>2, <1>3, <1>4, <1>5, <1>6, <1>7, <1>8, <1>9, <1>10, <1>11, <1>12, <1>13, <1>14
  DEF Next

-----------------------------------------------------------------------------
(* What the invariant says of the records.                                  *)

\* A record that is owed is in the directory, and can be parsed.
LEMMA OwedIsOnDisk ==
  ASSUME JournalInv, NEW id \in Owed
  PROVE  \E b \in linked : \E i \in DOMAIN files[b] :
           files[b][i].id = id /\ files[b][i].seq \in Nat /\ Reachable(files[b], i)
<1>1. id \in acked /\ id \notin gone /\ linked \subseteq DOMAIN files
  BY DEF Owed, JournalInv, TypeInv, TypeOK
<1>2. PICK b \in DOMAIN files : \E i \in DOMAIN files[b] : files[b][i].id = id
  BY <1>1 DEF JournalInv, CallsAreFrames
<1>3. PICK i \in DOMAIN files[b] : files[b][i].id = id
  BY <1>2
<1>4. b \in linked
  BY <1>1, <1>3 DEF JournalInv, CallsAreFrames
<1>5. Reachable(files[b], i)
  <2>1. DOMAIN files[b] = 1..Len(files[b]) /\ Len(files[b]) \in Nat
    BY FramesTyped DEF JournalInv, TypeInv
  <2>2. \A k \in 1..i : k \in DOMAIN files[b]
    BY <2>1
  <2> QED BY <2>2 DEF JournalInv, FramesInOrder, Reachable
<1>6. files[b][i].seq \in Nat
  BY FramesTyped DEF JournalInv, TypeInv
<1> QED BY <1>3, <1>4, <1>5, <1>6

\* At least once, in this life: the reader is never past a record that is owed and
\* that it has not delivered (reader.go's Next, and journal.go's evictLocked).
THEOREM NothingIsSkipped ==
  ASSUME WholeWrites
  PROVE  Spec => []NothingSkipped
<1>1. ASSUME JournalInv PROVE NothingSkipped
  <2> SUFFICES ASSUME NEW id \in Owed, id \notin batch PROVE OnDisk(id, rseq)
    BY DEF NothingSkipped
  <2>1. PICK b \in linked : \E i \in DOMAIN files[b] :
          files[b][i].id = id /\ files[b][i].seq \in Nat /\ Reachable(files[b], i)
    BY <1>1, OwedIsOnDisk
  <2>2. PICK i \in DOMAIN files[b] :
          files[b][i].id = id /\ files[b][i].seq \in Nat /\ Reachable(files[b], i)
    BY <2>1
  <2>3. ~(files[b][i].seq < rseq)
    BY <1>1, <2>2 DEF JournalInv, PassedIsDelivered, Owed
  <2>4. rseq \in Nat
    BY <1>1 DEF JournalInv, TypeInv, TypeOK
  <2> QED BY <2>2, <2>3, <2>4 DEF OnDisk
<1>2. JournalInv /\ [Next]_vars => JournalInv'
  BY NextJournalInv
<1> QED BY <1>1, <1>2, InitJournalInv, PTL DEF Spec

\* At least once, across a kill (journal.go:3-6): what Append accepted and the consumer
\* did not commit is on disk at or above the offset the next process starts from.
THEOREM KillLosesNothing ==
  ASSUME WholeWrites
  PROVE  Spec => []RecoverableAfterKill
<1>1. ASSUME JournalInv PROVE RecoverableAfterKill
  <2> SUFFICES ASSUME NEW id \in Owed PROVE OnDisk(id, offset)
    BY DEF RecoverableAfterKill
  <2>1. PICK b \in linked : \E i \in DOMAIN files[b] :
          files[b][i].id = id /\ files[b][i].seq \in Nat /\ Reachable(files[b], i)
    BY <1>1, OwedIsOnDisk
  <2>2. PICK i \in DOMAIN files[b] :
          files[b][i].id = id /\ files[b][i].seq \in Nat /\ Reachable(files[b], i)
    BY <2>1
  <2>3. ~(files[b][i].seq < readNext)
    BY <1>1, <2>2 DEF JournalInv, PassedIsDelivered, Owed
  <2>4. offset \in Nat /\ readNext \in Nat /\ offset <= readNext
    BY <1>1, CursorsBelowNext
  <2>5. files[b][i].seq >= offset
    BY <2>2, <2>3, <2>4
  <2> QED BY <2>2, <2>5 DEF OnDisk
<1>2. JournalInv /\ [Next]_vars => JournalInv'
  BY NextJournalInv
<1> QED BY <1>1, <1>2, InitJournalInv, PTL DEF Spec

\* In order: within a life of the process Next never returns a record it returned
\* before, nor one from before the last one, in an evicted file either.
THEOREM InOrder ==
  ASSUME WholeWrites
  PROVE  Spec => DeliveredInOrder
<1>1. ASSUME JournalInv, ReadFrame PROVE rmax' > rmax
  <2>1. PICK q \in Nat : q = files[rfile][roff + 1].seq /\ q >= rmax
    BY <1>1, FoundIsNext DEF ReadFrame
  <2>2. rmax' = q + 1 /\ rmax \in Nat
    BY <1>1, <2>1 DEF ReadFrame, JournalInv, TypeInv, TypeOK
  <2> QED BY <2>1, <2>2
<1>2. JournalInv /\ [Next]_vars => JournalInv'
  BY NextJournalInv
<1>3. JournalInv /\ [Next]_vars => [ReadFrame => rmax' > rmax]_vars
  BY <1>1
<1> QED BY <1>2, <1>3, InitJournalInv, PTL DEF Spec, DeliveredInOrder

\* A record whose commit reached committed.offset, and that is still in the journal, is
\* never delivered again (journal.go:333-334), across kills.
THEOREM CommitsLast ==
  ASSUME WholeWrites
  PROVE  Spec => NeverRedelivered
<1>1. ASSUME JournalInv, ReadFrame PROVE (batch' \ batch) \cap Persisted = {}
  <2>1. PICK f : f = files[rfile][roff + 1]
    OBVIOUS
  <2>2. FrameAt /\ batch' = batch \cup {f.id}
    BY <1>1, <2>1 DEF ReadFrame
  <2>3. /\ rfile \in DOMAIN files /\ roff + 1 \in DOMAIN files[rfile] /\ f.seq \in Nat
        /\ rfile \in linked => f.seq >= rseq
    BY <1>1, <2>1, <2>2, FoundIsNext
  <2>4. f.id \notin Persisted
    <3> SUFFICES ASSUME f.id \notin gone,
                        NEW b \in DOMAIN files, NEW i \in DOMAIN files[b],
                        files[b][i].id = f.id
                 PROVE  ~(files[b][i].seq < offset)
      BY DEF Persisted
    <3>1. b = rfile /\ i = roff + 1
      BY <1>1, <2>1, <2>3 DEF JournalInv, CallsAreFrames
    <3>2. rfile \in linked
      BY <1>1, <2>1, <2>3 DEF JournalInv, CallsAreFrames
    <3>3. f.seq >= rseq /\ rseq >= rmax /\ offset <= readNext
          /\ (readNext <= rmax \/ readNext <= FirstBase)
      BY <1>1, <2>3, <3>2 DEF JournalInv, CursorsInOrder
    <3>4. f.seq >= FirstBase
      <4>1. rfile <= f.seq /\ segs # <<>>
        BY <1>1, <2>1, <2>3 DEF JournalInv, FramesInOrder, ListedInOrder
      <4>2. FirstBase <= rfile /\ rfile \in Nat
        BY <1>1, <3>2, <4>1, EndsOfList DEF JournalInv
      <4> QED BY <1>1, <2>3, <4>1, <4>2, CursorsBelowNext
    <3>5. rmax \in Nat /\ rseq \in Nat /\ readNext \in Nat /\ offset \in Nat /\ FirstBase \in Nat
      BY <1>1, CursorsBelowNext DEF JournalInv, TypeInv, TypeOK
    <3>6. offset <= f.seq
      BY <2>3, <3>3, <3>4, <3>5
    <3> QED BY <2>1, <2>3, <3>1, <3>5, <3>6
  <2> QED BY <2>2, <2>4
<1>2. ASSUME Next, ~ReadFrame PROVE batch' \subseteq batch
  <2>1. Kill \/ KillTorn \/ PowerLoss => batch' = {}
    BY DEF Kill, KillTorn, PowerLoss, Reopen
  <2> QED BY <1>2, <2>1
      DEF Next, AppendBegin, RotateFails, AppendWrite, ShortWrite, EvictOldest, AppendReturn,
          Close, NoFrame, DecodeError, Snapshot, OpenSegment, Wake, WaitExpires, Commit,
          SaveOffset, SaveOffsetFails, hvars
<1>3. JournalInv /\ [Next]_vars => JournalInv'
  BY NextJournalInv
<1>4. JournalInv /\ [Next]_vars => [(batch' \ batch) \cap Persisted = {}]_batch
  <2>1. UNCHANGED vars => UNCHANGED batch
    BY DEF vars, hvars
  <2> QED BY <1>1, <1>2, <2>1
<1> QED BY <1>3, <1>4, InitJournalInv, PTL DEF Spec, NeverRedelivered

-----------------------------------------------------------------------------
(* The journal is the queue of module IngestQueue.                          *)

StoredSeqs == UNION {{files[b][i].seq : i \in DOMAIN files[b]} : b \in DOMAIN files}

LEMMA SeqIsStored ==
  ASSUME NEW n
  PROVE  n \in StoredSeqs <=> \E b \in DOMAIN files : \E i \in DOMAIN files[b] : n = files[b][i].seq
BY DEF StoredSeqs

\* The queue's actions, in the journal's terms.
LEMMA QueueActions ==
  /\ nextSeq < MaxPuts + 1 /\ StoredSeqs' = StoredSeqs \cup {nextSeq} /\ nextSeq' = nextSeq + 1
     /\ FirstBase' = FirstBase /\ rmax' = rmax /\ readNext' = readNext /\ offset' = offset
     => Queue!Put
  /\ \A n \in StoredSeqs :
       /\ FirstBase < n /\ n < nextSeq /\ FirstBase' = n
          /\ readNext' = (IF readNext > n THEN readNext ELSE n)
          /\ StoredSeqs' = StoredSeqs /\ nextSeq' = nextSeq /\ rmax' = rmax /\ offset' = offset
          => Queue!Evict(n)
       /\ n >= rmax /\ (\A m \in StoredSeqs : m >= FirstBase /\ m >= rmax => m >= n)
          /\ rmax' = n + 1
          /\ StoredSeqs' = StoredSeqs /\ nextSeq' = nextSeq /\ FirstBase' = FirstBase
          /\ readNext' = readNext /\ offset' = offset
          => Queue!Take(n)
       /\ n < rmax /\ readNext' = (IF readNext > n + 1 THEN readNext ELSE n + 1)
          /\ StoredSeqs' = StoredSeqs /\ nextSeq' = nextSeq /\ FirstBase' = FirstBase
          /\ rmax' = rmax /\ offset' = offset
          => Queue!Commit(n)
  /\ offset' \in offset..readNext
     /\ StoredSeqs' = StoredSeqs /\ nextSeq' = nextSeq /\ FirstBase' = FirstBase
     /\ rmax' = rmax /\ readNext' = readNext
     => Queue!Save
  /\ rmax' = (IF offset > FirstBase THEN offset ELSE FirstBase) /\ readNext' = offset
     /\ nextSeq' \in {nextSeq, nextSeq + 1} /\ nextSeq' <= MaxPuts + 1
     /\ StoredSeqs' = StoredSeqs /\ FirstBase' = FirstBase /\ offset' = offset
     => Queue!Restart
  /\ StoredSeqs' = StoredSeqs /\ nextSeq' = nextSeq /\ FirstBase' = FirstBase
     /\ rmax' = rmax /\ readNext' = readNext /\ offset' = offset
     => UNCHANGED Queue!vars
  /\ Queue!Next <=> \/ Queue!Put \/ Queue!Save \/ Queue!Restart
                    \/ \E n \in StoredSeqs : Queue!Evict(n) \/ Queue!Take(n) \/ Queue!Commit(n)
<1>1. Queue!Next <=> \/ Queue!Put \/ Queue!Save \/ Queue!Restart
                     \/ \E n \in StoredSeqs : Queue!Evict(n) \/ Queue!Take(n) \/ Queue!Commit(n)
  BY DEF Queue!Next, StoredSeqs
<1> QED
  BY <1>1 DEF Queue!Put, Queue!Evict, Queue!Take, Queue!Commit, Queue!Save, Queue!Restart,
              Queue!vars, Queue!Retained, Queue!Larger, StoredSeqs, FirstBase

LEMMA BeginStutters ==
  ASSUME JournalInv, NEW size \in Sizes, AppendBegin(size)
  PROVE  UNCHANGED Queue!vars
<1>1. nextSeq' = nextSeq /\ rmax' = rmax /\ readNext' = readNext /\ offset' = offset
  BY DEF AppendBegin, rvars
<1>2. CASE UNCHANGED <<active, segs, linked, files, synced>>
  <2>1. StoredSeqs' = StoredSeqs /\ FirstBase' = FirstBase
    BY <1>2 DEF StoredSeqs, FirstBase
  <2> QED BY <1>1, <2>1, QueueActions
<1>3. CASE CreateSegment /\ (active = "nil" \/ (active = "open" /\ MustRotate(size)))
  <2>1. /\ segs' = Append(segs, [base |-> nextSeq, bytes |-> 0])
        /\ files' = [b \in DOMAIN files \cup {nextSeq} |->
                       IF b \in DOMAIN files THEN files[b] ELSE <<>>]
    <3>1. nextSeq \notin DOMAIN files
      <4>1. (\A b \in DOMAIN files : b < nextSeq) /\ nextSeq \in Nat
        BY <1>1, <1>3, FreshBase DEF JournalInv, TypeInv, TypeOK, AppendBegin
      <4> QED BY <4>1
    <3>2. linked \subseteq DOMAIN files
      BY DEF JournalInv, TypeInv, TypeOK
    <3> QED BY <1>3, <3>1, <3>2 DEF CreateSegment, CreateFile
  <2>2. FirstBase' = FirstBase
    <3> DEFINE g == [base |-> nextSeq, bytes |-> 0]
    <3>1. g \in Segment /\ g.base = nextSeq
      <4>1. nextSeq \in Nat
        BY DEF JournalInv, TypeInv, TypeOK
      <4> QED BY <4>1 DEF Segment
    <3> HIDE DEF g
    <3>2. /\ segs \in Seq(Segment) /\ segs' = Append(segs, g) /\ Len(segs) \in Nat
          /\ DOMAIN segs = 1..Len(segs)
      BY <2>1, LenProperties DEF JournalInv, TypeInv, TypeOK, g
    <3>3. /\ segs' # <<>> /\ segs'[Len(segs) + 1] = g
          /\ \A i \in DOMAIN segs : segs'[i] = segs[i]
      BY <3>1, <3>2, AppendProperties, LenProperties
    <3>4. CASE segs = <<>>
      <4>1. nextSeq = 0 /\ Len(segs) = 0
        BY <3>4 DEF JournalInv, ListedInOrder
      <4> QED BY <3>1, <3>3, <3>4, <4>1 DEF FirstBase
    <3>5. CASE segs # <<>>
      <4>1. 1 \in DOMAIN segs
        BY <3>5, EndsOfList DEF JournalInv
      <4> QED BY <3>3, <3>5, <4>1 DEF FirstBase
    <3> QED BY <3>4, <3>5
  <2>3. StoredSeqs' = StoredSeqs
    <3>1. \A b \in DOMAIN files : b \in DOMAIN files' /\ files'[b] = files[b]
      BY <2>1
    <3>2. \A b \in DOMAIN files' : b \notin DOMAIN files => DOMAIN files'[b] = {}
      BY <2>1
    <3>3. ASSUME NEW n
          PROVE  (\E b \in DOMAIN files' : \E i \in DOMAIN files'[b] : n = files'[b][i].seq)
                 <=> (\E b \in DOMAIN files : \E i \in DOMAIN files[b] : n = files[b][i].seq)
      BY <3>1, <3>2
    <3>4. ASSUME NEW n PROVE n \in StoredSeqs' <=> n \in StoredSeqs
      <4>1. n \in StoredSeqs' <=> \E b \in DOMAIN files' : \E i \in DOMAIN files'[b] : n = files'[b][i].seq
        BY DEF StoredSeqs
      <4> QED BY <3>3, <4>1, SeqIsStored
    <3> QED BY <3>4
  <2> QED BY <1>1, <2>2, <2>3, QueueActions
<1> QED BY <1>2, <1>3 DEF AppendBegin

LEMMA WriteIsPut ==
  ASSUME JournalInv, AppendWrite
  PROVE  Queue!Put
<1>1. /\ apc = "write" /\ nextSeq' = nextSeq + 1 /\ rmax' = rmax /\ readNext' = readNext
      /\ offset' = offset /\ segs' = [segs EXCEPT ![Len(segs)].bytes = @ + asize]
  BY DEF AppendWrite, rvars
<1>2. segs # <<>>
  BY <1>1 DEF JournalInv, TypeInv, NewestListed
<1>3. nextSeq < MaxPuts + 1
  <2>1. nextSeq < puts /\ puts <= MaxPuts
    BY <1>1 DEF JournalInv, CallsAreFrames
  <2>2. nextSeq \in Nat /\ puts \in Nat /\ MaxPuts \in Nat
    BY JournalAssumption DEF JournalInv, TypeInv, TypeOK
  <2> QED BY <2>1, <2>2
<1>4. FirstBase' = FirstBase
  <2>1. 1 \in DOMAIN segs /\ segs[1].base \in Nat /\ segs[1] \in Segment
    BY <1>2, EndsOfList, SegmentFields DEF JournalInv, TypeInv
  <2>2. DOMAIN segs' = DOMAIN segs /\ segs'[1].base = segs[1].base
    BY <1>1, <2>1 DEF JournalInv, TypeInv, TypeOK, Segment
  <2>3. segs' # <<>>
    BY <2>1, <2>2
  <2> QED BY <1>2, <2>2, <2>3 DEF FirstBase
<1>5. StoredSeqs' = StoredSeqs \cup {nextSeq}
  <2>1. PICK N \in DOMAIN files : N = Newest /\ files[N] \in Seq(Frame)
    BY <1>2, NewestFile DEF JournalInv
  <2>2. PICK f : f = [seq |-> nextSeq, id |-> puts, end |-> FileSize(files[N]) + asize, full |-> TRUE]
    OBVIOUS
  <2>3. files' = [files EXCEPT ![N] = Append(files[N], f)] /\ f.seq = nextSeq
    BY <2>1, <2>2 DEF AppendWrite, WriteFrame
  <2>4. f \in Frame
    <3>1. FileSize(files[N]) \in Nat /\ asize \in Nat
      BY <2>1, FileSizeType DEF JournalInv, TypeInv, TypeOK
    <3>2. FileSize(files[N]) + asize \in Nat
      BY <3>1
    <3>3. nextSeq \in Nat /\ puts \in Nat
      BY DEF JournalInv, TypeInv, TypeOK
    <3> QED BY <2>2, <3>2, <3>3 DEF Frame
  <2>5. PICK L \in Nat : L = Len(files[N]) /\ DOMAIN files[N] = 1..L
    BY <2>1, LenProperties
  <2>6. PICK fs : fs = Append(files[N], f)
    OBVIOUS
  <2>7. /\ DOMAIN fs = 1..(L + 1) /\ fs[L + 1] = f
        /\ \A i \in 1..L : fs[i] = files[N][i]
    BY <2>1, <2>4, <2>5, <2>6, AppendProperties, LenProperties
  <2>8. /\ DOMAIN files' = DOMAIN files /\ files'[N] = fs
        /\ \A b \in DOMAIN files : b # N => files'[b] = files[b]
    BY <2>1, <2>3, <2>6 DEF JournalInv, TypeInv, TypeOK
  <2>9. ASSUME NEW n
        PROVE  (\E b \in DOMAIN files' : \E i \in DOMAIN files'[b] : n = files'[b][i].seq)
               <=> n = nextSeq \/ \E b \in DOMAIN files : \E i \in DOMAIN files[b] : n = files[b][i].seq
    <3>1. ASSUME NEW b \in DOMAIN files', NEW i \in DOMAIN files'[b], n = files'[b][i].seq
          PROVE  n = nextSeq \/ \E c \in DOMAIN files : \E k \in DOMAIN files[c] : n = files[c][k].seq
      <4>1. CASE b # N
        BY <2>8, <3>1, <4>1
      <4>2. CASE b = N /\ i \in 1..L
        BY <2>1, <2>5, <2>7, <2>8, <3>1, <4>2
      <4>3. CASE b = N /\ i = L + 1
        BY <2>3, <2>7, <2>8, <3>1, <4>3
      <4>4. b = N => i \in 1..L \/ i = L + 1
        BY <2>5, <2>7, <2>8
      <4> QED BY <4>1, <4>2, <4>3, <4>4
    <3>2. n = nextSeq => \E b \in DOMAIN files' : \E i \in DOMAIN files'[b] : n = files'[b][i].seq
      <4>1. N \in DOMAIN files' /\ L + 1 \in DOMAIN files'[N] /\ files'[N][L + 1].seq = nextSeq
        BY <2>1, <2>3, <2>5, <2>7, <2>8
      <4> QED BY <4>1
    <3>3. ASSUME NEW b \in DOMAIN files, NEW i \in DOMAIN files[b], n = files[b][i].seq
          PROVE  \E c \in DOMAIN files' : \E k \in DOMAIN files'[c] : n = files'[c][k].seq
      <4>1. b \in DOMAIN files' /\ i \in DOMAIN files'[b] /\ files'[b][i] = files[b][i]
        BY <2>1, <2>5, <2>7, <2>8
      <4> QED BY <3>3, <4>1
    <3> QED BY <3>1, <3>2, <3>3
  <2>10. ASSUME NEW n PROVE n \in StoredSeqs' <=> n \in StoredSeqs \cup {nextSeq}
    BY <2>9 DEF StoredSeqs
  <2> QED BY <2>10
<1> QED BY <1>1, <1>3, <1>4, <1>5, QueueActions

LEMMA EvictOldestIsEvict ==
  ASSUME JournalInv, EvictOldest
  PROVE  \E n \in StoredSeqs : Queue!Evict(n)
<1>1. /\ apc = "evict" /\ Len(segs) > 1 /\ segs' = Tail(segs)
      /\ readNext' = MovedTo(readNext, segs[2].base) /\ nextSeq' = nextSeq /\ rmax' = rmax
      /\ offset' = offset /\ files' = files
  BY DEF EvictOldest, OverCap, rvars
<1>2. segs \in Seq(Segment) /\ Len(segs) \in Nat /\ DOMAIN segs = 1..Len(segs)
  BY LenProperties DEF JournalInv, TypeInv, TypeOK
<1>3. segs # <<>> /\ 1 \in DOMAIN segs /\ 2 \in DOMAIN segs
  BY <1>1, <1>2
<1>4. PICK C \in Nat : C = segs[2].base
  BY <1>3, SegmentFields DEF JournalInv, TypeInv
<1>5. FirstBase = segs[1].base /\ FirstBase \in Nat /\ FirstBase < C
  BY <1>3, <1>4, EndsOfList DEF JournalInv, ListedInOrder
<1>6. FirstBase' = C
  <2>1. /\ Len(segs') = Len(segs) - 1 /\ DOMAIN segs' = 1..(Len(segs) - 1) /\ segs' # <<>>
        /\ \A i \in DOMAIN segs' : i + 1 \in DOMAIN segs /\ segs'[i] = segs[i + 1]
    <3>1. Len(segs) > 1 /\ segs' = Tail(segs) /\ segs # <<>>
      BY <1>1, <1>3
    <3>2. Len(segs') = Len(segs) - 1 /\ DOMAIN segs' = 1..(Len(segs) - 1)
      BY <1>2, <3>1
    <3>3. \A i \in DOMAIN segs' : i + 1 \in DOMAIN segs /\ segs'[i] = segs[i + 1]
      BY <1>2, <3>1, <3>2
    <3>4. 1 \in DOMAIN segs'
      BY <1>2, <3>1, <3>2
    <3>5. segs' # <<>>
      BY <3>4
    <3> QED BY <3>2, <3>3, <3>5
  <2>2. segs'[1] = segs[2]
    BY <1>1, <1>2, <2>1
  <2> QED BY <1>4, <2>1, <2>2 DEF FirstBase
<1>7. C \in DOMAIN files /\ files[C] # <<>>
  <2>1. C \in DOMAIN files
    BY <1>3, <1>4 DEF JournalInv, TypeInv, SegsHaveFiles
  <2>2. CASE Len(segs) = 2
    <3>1. Newest = C
      BY <1>4, <2>2 DEF Newest
    <3>2. \E i \in DOMAIN files[C] : files[C][i].id = puts
      BY <1>1, <1>3, <3>1 DEF JournalInv, NewestIsNext
    <3> QED BY <2>1, <3>2
  <2>3. CASE 2 < Len(segs)
    <3>1. Len(segs) \in DOMAIN segs /\ segs[Len(segs)].base \in DOMAIN files
      BY <1>3, EndsOfList DEF JournalInv, TypeInv, SegsHaveFiles
    <3>2. C < segs[Len(segs)].base
      BY <1>3, <1>4, <2>3, <3>1 DEF JournalInv, ListedInOrder
    <3> QED BY <2>1, <3>1, <3>2 DEF JournalInv, FramesInOrder
  <2> QED BY <1>1, <1>2, <2>1, <2>2, <2>3
<1>8. 1 \in DOMAIN files[C] /\ files[C][1].seq = C /\ C < nextSeq
  <2>1. 1 \in DOMAIN files[C]
    BY <1>7, FramesTyped DEF JournalInv, TypeInv
  <2>2. files[C][1].seq = C
    BY <1>4, <1>5, <1>7 DEF JournalInv, FramesInOrder
  <2>3. files[C][1].seq < nextSeq
    BY <1>7, <2>1 DEF JournalInv, FramesInOrder
  <2> QED BY <2>1, <2>2, <2>3
<1>9. C \in StoredSeqs
  BY <1>7, <1>8, SeqIsStored
<1>10. StoredSeqs' = StoredSeqs
  BY <1>1 DEF StoredSeqs
<1>11. readNext' = (IF readNext > C THEN readNext ELSE C)
  <2>1. readNext \in Nat
    BY DEF JournalInv, TypeInv, TypeOK
  <2> QED BY <1>1, <1>4, <2>1 DEF MovedTo
<1> QED BY <1>1, <1>5, <1>6, <1>8, <1>9, <1>10, <1>11, QueueActions

LEMMA ReadFrameIsTake ==
  ASSUME JournalInv, ReadFrame
  PROVE  \E n \in StoredSeqs : Queue!Take(n)
<1>1. PICK q : q = files[rfile][roff + 1].seq
  OBVIOUS
<1>2. /\ FrameAt /\ rmax' = q + 1 /\ segs' = segs /\ nextSeq' = nextSeq /\ files' = files
      /\ readNext' = readNext /\ offset' = offset
  BY <1>1 DEF ReadFrame, jvars, dvars
<1>3. /\ rfile \in DOMAIN files /\ roff + 1 \in DOMAIN files[rfile] /\ q \in Nat /\ q >= rmax
      /\ \A b \in linked : \A i \in DOMAIN files[b] : files[b][i].seq < q => files[b][i].seq < rseq
  BY <1>1, <1>2, FoundIsNext
<1>4. q \in StoredSeqs
  BY <1>1, <1>3, SeqIsStored
<1>5. ASSUME NEW m \in StoredSeqs, m >= FirstBase, m >= rmax
      PROVE  m >= q
  <2>1. PICK b \in DOMAIN files : \E i \in DOMAIN files[b] : m = files[b][i].seq
    BY SeqIsStored
  <2>2. PICK i \in DOMAIN files[b] : m = files[b][i].seq
    BY <2>1
  <2>3. m \in Nat /\ rmax \in Nat
    BY <2>2, FramesTyped DEF JournalInv, TypeInv, TypeOK
  <2>4. b \in linked
    <3> SUFFICES ASSUME b \notin linked PROVE FALSE
      OBVIOUS
    <3>1. segs # <<>>
      BY DEF JournalInv, ListedInOrder
    <3>2. FirstBase \in linked /\ FirstBase \in DOMAIN files /\ FirstBase \in Nat /\ b < FirstBase
      BY <3>1, EndsOfList DEF JournalInv, TypeInv, TypeOK
    <3>3. m < FirstBase
      BY <2>2, <3>2 DEF JournalInv, FramesInOrder
    <3> QED BY <1>5, <2>3, <3>2, <3>3
  <2>5. m < q => m < rmax
    BY <1>3, <2>2, <2>4 DEF JournalInv, PassedIsDelivered
  <2> QED BY <1>3, <1>5, <2>3, <2>5
<1>6. StoredSeqs' = StoredSeqs /\ FirstBase' = FirstBase
  BY <1>2 DEF StoredSeqs, FirstBase
<1> QED BY <1>2, <1>3, <1>4, <1>5, <1>6, QueueActions

LEMMA CommitIsCommit ==
  ASSUME JournalInv, Commit
  PROVE  \E n \in StoredSeqs : Queue!Commit(n)
<1>1. /\ batch # {} /\ readNext' = MovedTo(readNext, rmax) /\ segs' = segs /\ nextSeq' = nextSeq
      /\ files' = files /\ rmax' = rmax /\ offset' = offset
  BY DEF Commit, dvars
<1>2. PICK b \in DOMAIN files : \E i \in DOMAIN files[b] : files[b][i].seq + 1 = rmax
  BY <1>1 DEF JournalInv, CursorsInOrder
<1>3. PICK i \in DOMAIN files[b] : files[b][i].seq + 1 = rmax
  BY <1>2
<1>4. PICK q \in Nat : q = files[b][i].seq /\ q + 1 = rmax
  BY <1>3, FramesTyped DEF JournalInv, TypeInv
<1>5. q \in StoredSeqs
  BY <1>4, SeqIsStored
<1>6. readNext' = (IF readNext > q + 1 THEN readNext ELSE q + 1) /\ q < rmax
  <2>1. readNext \in Nat
    BY DEF JournalInv, TypeInv, TypeOK
  <2> QED BY <1>1, <1>4, <2>1 DEF MovedTo
<1>7. StoredSeqs' = StoredSeqs /\ FirstBase' = FirstBase
  BY <1>1 DEF StoredSeqs, FirstBase
<1> QED BY <1>1, <1>5, <1>6, <1>7, QueueActions

LEMMA KillIsRestart ==
  ASSUME JournalInv, Kill
  PROVE  Queue!Restart
<1>1. /\ FirstBase' = FirstBase
      /\ nextSeq' = IF nextSeq = 0 /\ segs # <<>> THEN 1 ELSE nextSeq
      /\ readNext' = offset /\ rseq' = IF offset < FirstBase THEN FirstBase ELSE offset
      /\ rmax' = rseq' /\ files' = files /\ offset' = offset
  BY KillFinds
<1>2. offset \in Nat /\ FirstBase \in Nat
  BY CursorsBelowNext
<1>3. rmax' = (IF offset > FirstBase THEN offset ELSE FirstBase)
  BY <1>1, <1>2
<1>4. nextSeq' \in {nextSeq, nextSeq + 1} /\ nextSeq' <= MaxPuts + 1
  <2>1. nextSeq \in Nat /\ puts \in Nat /\ MaxPuts \in Nat
    BY JournalAssumption DEF JournalInv, TypeInv, TypeOK
  <2>2. nextSeq <= puts /\ puts <= MaxPuts
    BY DEF JournalInv, CallsAreFrames
  <2> QED BY <1>1, <2>1, <2>2
<1>5. StoredSeqs' = StoredSeqs
  BY <1>1 DEF StoredSeqs
<1> QED BY <1>1, <1>3, <1>4, <1>5, QueueActions

LEMMA StepIsQueueStep ==
  ASSUME WholeWrites, JournalInv, [Next]_vars
  PROVE  [Queue!Next]_(Queue!vars)
<1>1. ASSUME NEW size \in Sizes, AppendBegin(size) PROVE UNCHANGED Queue!vars
  BY <1>1, BeginStutters
<1>2. CASE AppendWrite
  BY <1>2, WriteIsPut, QueueActions
<1>3. CASE EvictOldest
  BY <1>3, EvictOldestIsEvict, QueueActions
<1>4. CASE ReadFrame
  BY <1>4, ReadFrameIsTake, QueueActions
<1>5. CASE Commit
  BY <1>5, CommitIsCommit, QueueActions
<1>6. CASE SaveOffset
  <2>1. /\ offset' = cval /\ segs' = segs /\ nextSeq' = nextSeq /\ files' = files
        /\ rmax' = rmax /\ readNext' = readNext /\ rpc = "commit"
    BY <1>6 DEF SaveOffset, jvars
  <2>2. offset' \in offset..readNext
    <3>1. offset <= cval /\ cval <= readNext
      BY <2>1 DEF JournalInv, CursorsInOrder
    <3>2. offset \in Nat /\ cval \in Nat /\ readNext \in Nat
      BY DEF JournalInv, TypeInv, TypeOK
    <3> QED BY <2>1, <3>1, <3>2
  <2>3. StoredSeqs' = StoredSeqs /\ FirstBase' = FirstBase
    BY <2>1 DEF StoredSeqs, FirstBase
  <2> QED BY <2>1, <2>2, <2>3, QueueActions
<1>7. CASE Kill
  BY <1>7, KillIsRestart, QueueActions
<1>8. ~ShortWrite /\ ~KillTorn /\ ~PowerLoss
  BY DEF WholeWrites, ShortWrite, KillTorn, PowerLoss, Fault
<1>9. CASE \/ \E size \in Sizes : RotateFails(size)
           \/ AppendReturn \/ Close \/ NoFrame \/ DecodeError \/ Snapshot \/ OpenSegment
           \/ Wake \/ WaitExpires \/ SaveOffsetFails \/ UNCHANGED vars
  <2>1. /\ segs' = segs /\ nextSeq' = nextSeq /\ files' = files /\ rmax' = rmax
        /\ readNext' = readNext /\ offset' = offset
    BY <1>9 DEF RotateFails, AppendReturn, Close, NoFrame, DecodeError, Snapshot, OpenSegment,
                Wake, WaitExpires, SaveOffsetFails, vars, jvars, dvars, rvars
  <2>2. StoredSeqs' = StoredSeqs /\ FirstBase' = FirstBase
    BY <2>1 DEF StoredSeqs, FirstBase
  <2> QED BY <2>1, <2>2, QueueActions
<1> QED
  BY <1>1, <1>2, <1>3, <1>4, <1>5, <1>6, <1>7, <1>8, <1>9 DEF Next

\* The journal, its segment files, its eviction and its kills included, is the bounded
\* queue of IngestQueue: every step is one of the queue's, or leaves it as it was.
THEOREM JournalImplementsQueue ==
  ASSUME WholeWrites
  PROVE  Spec => ImplementsQueue
<1>1. Init => Queue!Init
  <2> SUFFICES ASSUME Init PROVE Queue!Init
    OBVIOUS
  <2>1. DOMAIN files = {} /\ segs = <<>> /\ nextSeq = 0 /\ rmax = 0 /\ readNext = 0 /\ offset = 0
    BY DEF Init
  <2> QED BY <2>1 DEF Queue!Init
<1>2. JournalInv /\ [Next]_vars => JournalInv'
  BY NextJournalInv
<1>3. JournalInv /\ [Next]_vars => [Queue!Next]_(Queue!vars)
  BY StepIsQueueStep
<1> QED BY <1>1, <1>2, <1>3, InitJournalInv, PTL DEF Spec, ImplementsQueue

-----------------------------------------------------------------------------
(* The bytes in the directory.  Every sum is over a set: of the list's       *)
(* entries, or of the files' names.                                          *)

\* The bytes the list accounts for in the segments that begin at one of the bases B,
Bytes(s)     == [i \in DOMAIN s |-> s[i].bytes]
On(s, B)     == {i \in DOMAIN s : s[i].base \in B}
Listed(s, B) == Total(Bytes(s), On(s, B))

\* and those the files hold.
Lengths(fs) == [b \in DOMAIN fs |-> FileSize(fs[b])]
Disk        == Total(Lengths(files), linked)

LEMMA ListedType ==
  ASSUME NEW s \in Seq(Segment), NEW B
  PROVE  /\ IsFiniteSet(On(s, B)) /\ On(s, B) \in SUBSET DOMAIN s
         /\ \A i \in DOMAIN s : Bytes(s)[i] = s[i].bytes /\ s[i].bytes \in Nat /\ s[i].base \in Nat
         /\ Listed(s, B) \in Nat
         /\ DOMAIN s = 1..Len(s) /\ Len(s) \in Nat /\ IsFiniteSet(DOMAIN s)
<1>1. DOMAIN s = 1..Len(s) /\ Len(s) \in Nat
  BY LenProperties
<1>2. IsFiniteSet(DOMAIN s)
  <2>1. IsFiniteSet(1..Len(s))
    BY <1>1, FS_Interval
  <2>2. QED
    BY <1>1, <2>1
<1>3. On(s, B) \in SUBSET DOMAIN s
  BY DEF On
<1>4. IsFiniteSet(On(s, B))
  BY <1>2, <1>3, FS_Subset
<1>5. ASSUME NEW i \in DOMAIN s
      PROVE  Bytes(s)[i] = s[i].bytes /\ s[i].bytes \in Nat /\ s[i].base \in Nat
  <2>1. s[i] \in Segment
    BY <1>1, ElementOfSeq
  <2>2. QED
    BY <2>1 DEF Bytes, Segment
<1>6. Listed(s, B) \in Nat
  <2>1. \A i \in On(s, B) : Bytes(s)[i] \in Nat
    BY <1>3, <1>5
  <2>2. On(s, B) \in SUBSET On(s, B)
    OBVIOUS
  <2>3. QED
    BY <1>4, <2>1, <2>2, TotalType DEF Listed
<1>7. QED
  BY <1>1, <1>2, <1>3, <1>4, <1>5, <1>6

LEMMA ListedAppend ==
  ASSUME NEW s \in Seq(Segment), NEW e \in Segment, NEW B
  PROVE  Listed(Append(s, e), B) = Listed(s, B) + IF e.base \in B THEN e.bytes ELSE 0
<1>1. PICK t : t = Append(s, e)
  OBVIOUS
<1>2. /\ t \in Seq(Segment) /\ Len(s) \in Nat /\ Len(t) = Len(s) + 1 /\ DOMAIN s = 1..Len(s)
      /\ DOMAIN t = 1..(Len(s) + 1) /\ t[Len(s) + 1] = e /\ \A i \in DOMAIN s : t[i] = s[i]
  BY <1>1, AppendProperties, LenProperties
<1>3. \A i \in On(s, B) : Bytes(t)[i] = Bytes(s)[i]
  BY <1>2 DEF Bytes, On
<1>4. Total(Bytes(t), On(s, B)) = Listed(s, B)
  BY <1>3, TotalSame DEF Listed
<1>5. CASE e.base \in B
  <2>1. On(t, B) = On(s, B) \cup {Len(s) + 1} /\ Len(s) + 1 \notin On(s, B)
    BY <1>2, <1>5 DEF On
  <2>2. Bytes(t)[Len(s) + 1] = e.bytes /\ e.bytes \in Nat
    BY <1>2 DEF Bytes, Segment
  <2>3. \A i \in On(s, B) : Bytes(t)[i] \in Nat
    BY <1>3, ListedType
  <2>4. IsFiniteSet(On(s, B)) /\ On(s, B) \in SUBSET On(s, B)
    BY ListedType
  <2>5. IsFiniteSet(Tickets(Bytes(t), On(s, B)))
    BY <2>3, <2>4, TotalType
  <2>6. Total(Bytes(t), On(s, B) \cup {Len(s) + 1}) = Total(Bytes(t), On(s, B)) + e.bytes
    <3>1. PICK v, T, x : v = Bytes(t) /\ T = On(s, B) /\ x = Len(s) + 1
      OBVIOUS
    <3>2. x \notin T /\ v[x] = e.bytes /\ v[x] \in Nat /\ IsFiniteSet(Tickets(v, T))
      BY <2>1, <2>2, <2>5, <3>1
    <3>3. Total(v, T \cup {x}) = Total(v, T) + v[x]
      BY <3>2, TicketsOfMore
    <3>4. QED
      BY <3>1, <3>2, <3>3
  <2>7. QED
    BY <1>1, <1>4, <1>5, <2>1, <2>6 DEF Listed
<1>6. CASE e.base \notin B
  <2>1. On(t, B) = On(s, B)
    BY <1>2, <1>6 DEF On
  <2>2. Listed(s, B) \in Nat
    BY ListedType
  <2>3. QED
    BY <1>1, <1>4, <1>6, <2>1, <2>2 DEF Listed
<1>7. QED
  BY <1>5, <1>6

\* Segment n accounts for k bytes more; the file named b is f.
Grown(s, n, k)  == [s EXCEPT ![n].bytes = @ + k]
With(fs, b, f) == [fs EXCEPT ![b] = f]

LEMMA ListedGrows ==
  ASSUME NEW s \in Seq(Segment), NEW n \in DOMAIN s, NEW k \in Nat, NEW B,
         NEW t, t = Grown(s, n, k)
  PROVE  /\ t \in Seq(Segment) /\ DOMAIN t = DOMAIN s
         /\ t[n].bytes = s[n].bytes + k
         /\ \A i \in DOMAIN s : t[i].base = s[i].base
         /\ s[n].base \in B => Listed(t, B) = Listed(s, B) + k
         /\ s[n].base \notin B => Listed(t, B) = Listed(s, B)
<1>1. \A i \in DOMAIN s : s[i] \in Segment
  BY LenProperties, ElementOfSeq
<1>2. PICK r : r = [base |-> s[n].base, bytes |-> s[n].bytes + k]
  OBVIOUS
<1>3. r \in Segment /\ r.bytes = s[n].bytes + k /\ r.base = s[n].base
  BY <1>1, <1>2 DEF Segment
<1>4. t = [s EXCEPT ![n] = r]
  <2>1. PICK q : q = s[n]
    OBVIOUS
  <2>2. q \in Segment
    BY <1>1, <2>1
  <2>3. [q EXCEPT !.bytes = q.bytes + k] = [base |-> q.base, bytes |-> q.bytes + k]
    <3>1. PICK c, d \in Nat : q = [base |-> c, bytes |-> d]
      BY <2>2 DEF Segment
    <3>2. QED
      BY <3>1
  <2>4. [s EXCEPT ![n].bytes = @ + k] = [s EXCEPT ![n] = [q EXCEPT !.bytes = q.bytes + k]]
    BY <2>1
  <2>5. QED
    BY <1>2, <2>1, <2>3, <2>4 DEF Grown
<1>5. t \in Seq(Segment) /\ DOMAIN t = DOMAIN s /\ t[n] = r /\ \A i \in DOMAIN s \ {n} : t[i] = s[i]
  BY <1>3, <1>4, ExceptSeq
<1>6. On(t, B) = On(s, B)
  BY <1>3, <1>5 DEF On
<1>7. /\ \A i \in On(s, B) : Bytes(s)[i] \in Nat /\ Bytes(t)[i] \in Nat
      /\ \A i \in On(s, B) \ {n} : Bytes(s)[i] = Bytes(t)[i]
      /\ Bytes(s)[n] = s[n].bytes /\ Bytes(t)[n] = r.bytes /\ s[n].bytes \in Nat
  <2>1. \A i \in DOMAIN s : /\ Bytes(s)[i] = s[i].bytes /\ s[i].bytes \in Nat
                            /\ Bytes(t)[i] = t[i].bytes /\ t[i].bytes \in Nat
    BY <1>5, ListedType
  <2>2. QED
    BY <1>5, <2>1 DEF On
<1>8. CASE s[n].base \in B
  <2>1. n \in On(s, B) /\ IsFiniteSet(On(s, B))
    BY <1>8, ListedType DEF On
  <2>2. PICK O : O = On(s, B)
    OBVIOUS
  <2>3. PICK v, w : v = Bytes(s) /\ w = Bytes(t)
    OBVIOUS
  <2>4. Total(w, O) = Total(v, O) + (w[n] - v[n])
    <3>1. /\ IsFiniteSet(O) /\ n \in O
          /\ \A x \in O : v[x] \in Nat /\ w[x] \in Nat
          /\ \A x \in O \ {n} : v[x] = w[x]
      BY <1>7, <2>1, <2>2, <2>3
    <3>2. Total(v, O) = v[n] + Total(v, O \ {n}) /\ Total(w, O) = w[n] + Total(w, O \ {n})
      BY <3>1, TotalSplit
    <3>3. Total(v, O \ {n}) = Total(w, O \ {n}) /\ Total(v, O \ {n}) \in Nat
      <4>1. Total(v, O \ {n}) = Total(w, O \ {n})
        BY <3>1, TotalSame
      <4>2. O \ {n} \in SUBSET O
        OBVIOUS
      <4>3. QED
        BY <3>1, <4>1, <4>2, TotalType
    <3>4. QED
      BY <3>1, <3>2, <3>3
  <2>5. w[n] - v[n] = k
    BY <1>3, <1>7, <2>3
  <2>6. QED
    BY <1>3, <1>5, <1>6, <1>8, <2>2, <2>3, <2>4, <2>5 DEF Listed
<1>9. CASE s[n].base \notin B
  <2>1. n \notin On(s, B) /\ Listed(s, B) \in Nat
    BY <1>9, ListedType DEF On
  <2>2. Total(Bytes(t), On(s, B)) = Total(Bytes(s), On(s, B))
    <3>1. \A i \in On(s, B) : Bytes(t)[i] = Bytes(s)[i]
      BY <1>7, <2>1
    <3>2. QED
      BY <3>1, TotalSame
  <2>3. QED
    BY <1>3, <1>5, <1>6, <1>9, <2>1, <2>2 DEF Listed
<1>10. QED
  BY <1>8, <1>9

LEMMA ListedTail ==
  ASSUME NEW s \in Seq(Segment), s # <<>>, NEW B
  PROVE  /\ Tail(s) \in Seq(Segment)
         /\ Listed(s, B) = Listed(Tail(s), B) + IF s[1].base \in B THEN s[1].bytes ELSE 0
<1>1. PICK t : t = Tail(s)
  OBVIOUS
<1>2. /\ t \in Seq(Segment) /\ Len(s) \in Nat \ {0} /\ Len(t) = Len(s) - 1
      /\ DOMAIN s = 1..Len(s) /\ DOMAIN t = 1..(Len(s) - 1)
      /\ \A i \in DOMAIN t : t[i] = s[i + 1]
  BY <1>1, LenProperties, HeadTailProperties, EmptySeq
<1>3. PICK g : g = [i \in DOMAIN t |-> i + 1]
  OBVIOUS
<1>4. PICK O : O = On(t, B)
  OBVIOUS
<1>5. PICK P : P = {g[i] : i \in O}
  OBVIOUS
<1>6. O \in SUBSET DOMAIN t /\ IsFiniteSet(O) /\ \A i \in DOMAIN t : i \in Int /\ g[i] = i + 1
  BY <1>2, <1>3, <1>4, ListedType
<1>7. Total(Bytes(s), P) = Listed(t, B)
  <2>1. \A i \in O : Bytes(t)[i] \in Nat /\ Bytes(s)[g[i]] = Bytes(t)[i]
    <3>1. \A i \in DOMAIN t : Bytes(t)[i] = t[i].bytes /\ t[i].bytes \in Nat
      BY <1>2, ListedType
    <3>2. \A i \in DOMAIN t : i + 1 \in DOMAIN s
      BY <1>2
    <3>3. \A i \in DOMAIN t : Bytes(s)[i + 1] = s[i + 1].bytes
      BY <3>2 DEF Bytes
    <3>4. QED
      BY <1>2, <1>6, <3>1, <3>3
  <2>2. \A x, y \in O : g[x] = g[y] => x = y
    BY <1>6
  <2>3. Total(Bytes(s), {g[i] : i \in O}) = Total(Bytes(t), O)
    BY <1>6, <2>1, <2>2, TotalMapped
  <2>4. QED
    BY <1>4, <1>5, <2>3 DEF Listed
<1>8. P = On(s, B) \ {1}
  <2>1. ASSUME NEW k \in On(s, B) \ {1}
        PROVE  k \in P
    <3>1. k - 1 \in DOMAIN t /\ k = (k - 1) + 1 /\ s[k].base \in B
      BY <1>2 DEF On
    <3>2. t[k - 1] = s[k]
      BY <1>2, <3>1
    <3>3. k - 1 \in O /\ g[k - 1] = k
      BY <1>4, <1>6, <3>1, <3>2 DEF On
    <3>4. QED
      BY <1>5, <3>3
  <2>2. ASSUME NEW i \in O
        PROVE  g[i] \in On(s, B) \ {1}
    <3>1. i \in DOMAIN t /\ g[i] = i + 1 /\ t[i].base \in B
      BY <1>4, <1>6 DEF On
    <3>2. i + 1 \in DOMAIN s /\ i + 1 # 1 /\ s[i + 1] = t[i]
      BY <1>2, <3>1
    <3>3. QED
      BY <3>1, <3>2 DEF On
  <2>3. QED
    BY <1>5, <2>1, <2>2
<1>9. Listed(t, B) \in Nat /\ 1 \in DOMAIN s
  BY <1>2, ListedType
<1>10. CASE s[1].base \in B
  <2>1. 1 \in On(s, B) /\ IsFiniteSet(On(s, B)) /\ \A i \in On(s, B) : Bytes(s)[i] \in Nat
    BY <1>9, <1>10, ListedType DEF On
  <2>2. Total(Bytes(s), On(s, B)) = Bytes(s)[1] + Total(Bytes(s), On(s, B) \ {1})
    BY <2>1, TotalSplit
  <2>3. Bytes(s)[1] = s[1].bytes /\ s[1].bytes \in Nat
    BY <1>9, ListedType
  <2>4. QED
    BY <1>1, <1>2, <1>7, <1>8, <1>9, <1>10, <2>2, <2>3 DEF Listed
<1>11. CASE s[1].base \notin B
  <2>1. On(s, B) \ {1} = On(s, B)
    BY <1>11 DEF On
  <2>2. Listed(s, B) = Listed(t, B)
    BY <1>7, <1>8, <2>1 DEF Listed
  <2>3. Listed(s, B) = Listed(t, B) + 0
    BY <1>9, <2>2
  <2>4. QED
    BY <1>1, <1>2, <1>11, <2>3
<1>12. QED
  BY <1>10, <1>11

LEMMA ListedSplit ==
  ASSUME NEW s \in Seq(Segment), NEW B, NEW b \in B
  PROVE  Listed(s, B) = Listed(s, B \ {b}) + Listed(s, {b})
<1>1. PICK P, Q : P = On(s, B \ {b}) /\ Q = On(s, {b})
  OBVIOUS
<1>2. IsFiniteSet(P) /\ IsFiniteSet(Q) /\ \A i \in P \cup Q : Bytes(s)[i] \in Nat
  BY <1>1, ListedType DEF On
<1>3. P \cap Q = {} /\ On(s, B) = P \cup Q
  BY <1>1 DEF On
<1>4. Total(Bytes(s), P \cup Q) = Total(Bytes(s), P) + Total(Bytes(s), Q)
  BY <1>2, <1>3, TotalUnion
<1>5. QED
  BY <1>1, <1>3, <1>4 DEF Listed

LEMMA ListedMonotone ==
  ASSUME NEW s \in Seq(Segment), NEW C, NEW B \in SUBSET C
  PROVE  Listed(s, B) <= Listed(s, C) /\ Listed(s, B) <= Total(Bytes(s), DOMAIN s)
<1>1. /\ IsFiniteSet(On(s, C)) /\ \A i \in On(s, C) : Bytes(s)[i] \in Nat
      /\ IsFiniteSet(DOMAIN s) /\ \A i \in DOMAIN s : Bytes(s)[i] \in Nat
  BY ListedType DEF On
<1>2. On(s, B) \in SUBSET On(s, C) /\ On(s, B) \in SUBSET DOMAIN s
  BY DEF On
<1>3. Listed(s, B) <= Listed(s, C)
  BY <1>1, <1>2, TotalMonotone DEF Listed
<1>4. Listed(s, B) <= Total(Bytes(s), DOMAIN s)
  BY <1>1, <1>2, TotalMonotone DEF Listed
<1>5. QED
  BY <1>3, <1>4

\* What the folds of totalBytesLocked and of the property compute.
LEMMA TotalBytesIs ==
  ASSUME segs \in Seq(Segment)
  PROVE  TotalBytes = Total(Bytes(segs), DOMAIN segs)
<1> DEFINE D == DOMAIN segs
           v == Bytes(segs)
           Step(f) == [T \in SUBSET D |-> IF T = {} THEN 0
                         ELSE segs[CHOOSE x \in T : TRUE].bytes + f[T \ {CHOOSE x \in T : TRUE}]]
           it == CHOOSE f : f = Step(f)
           g == [T \in SUBSET D |-> Total(v, T)]
<1>1. IsFiniteSet(D) /\ \A x \in D : v[x] \in Nat /\ v[x] = segs[x].bytes
  BY ListedType
<1>2. TotalBytes = it[D]
  BY DEF TotalBytes, FoldSeq, FoldFunction, FoldFunctionOnSet, MapThenFoldSet
<1> HIDE DEF D, v
<1>3. \A T \in SUBSET D : T # {} => segs[Some(T)].bytes = v[Some(T)]
  BY <1>1 DEF Some
<1>4. \A T \in SUBSET D : g[T] = IF T = {} THEN 0 ELSE v[Some(T)] + g[T \ {Some(T)}]
  <2>1. \A T \in SUBSET D : T # {} => Total(v, T) = v[Some(T)] + Total(v, T \ {Some(T)})
    BY <1>1, SumRecursion
  <2>2. Total(v, {}) = 0
    BY TotalEmpty
  <2>3. QED
    BY <2>1, <2>2
<1>5. g = Step(g)
  BY <1>3, <1>4 DEF Some
<1>6. it = Step(it)
  <2> HIDE DEF Step
  <2>1. QED
    BY <1>5
<1>7. \A T \in SUBSET D : it[T] = IF T = {} THEN 0 ELSE v[Some(T)] + it[T \ {Some(T)}]
  <2> HIDE DEF it
  <2>1. \A T \in SUBSET D : it[T] = IF T = {} THEN 0 ELSE segs[Some(T)].bytes + it[T \ {Some(T)}]
    BY <1>6 DEF Some
  <2>2. QED
    BY <1>3, <2>1
<1>8. it[D] = Total(v, D)
  <2> HIDE DEF it
  <2>1. QED
    BY <1>1, <1>7, SumSolution
<1>9. QED
  BY <1>2, <1>8 DEF D, v

LEMMA DiskBytesIs ==
  ASSUME TypeInv
  PROVE  DiskBytes = Disk
<1> DEFINE D == linked
           v == Lengths(files)
           Step(f) == [T \in SUBSET D |-> IF T = {} THEN 0
                         ELSE FileSize(files[CHOOSE x \in T : TRUE]) + f[T \ {CHOOSE x \in T : TRUE}]]
           it == CHOOSE f : f = Step(f)
           g == [T \in SUBSET D |-> Total(v, T)]
<1>1. IsFiniteSet(D) /\ \A x \in D : v[x] \in Nat /\ v[x] = FileSize(files[x])
  <2>1. \A x \in D : x \in DOMAIN files /\ files[x] \in Seq(Frame)
    BY DEF TypeInv, TypeOK
  <2>2. \A x \in D : FileSize(files[x]) \in Nat
    BY <2>1, FileSizeType
  <2>3. QED
    BY <2>1, <2>2 DEF TypeInv, Lengths
<1>2. DiskBytes = it[D]
  BY DEF DiskBytes, FoldSet, MapThenFoldSet
<1> HIDE DEF D, v
<1>3. \A T \in SUBSET D : T # {} => FileSize(files[Some(T)]) = v[Some(T)]
  BY <1>1 DEF Some
<1>4. \A T \in SUBSET D : g[T] = IF T = {} THEN 0 ELSE v[Some(T)] + g[T \ {Some(T)}]
  <2>1. \A T \in SUBSET D : T # {} => Total(v, T) = v[Some(T)] + Total(v, T \ {Some(T)})
    BY <1>1, SumRecursion
  <2>2. Total(v, {}) = 0
    BY TotalEmpty
  <2>3. QED
    BY <2>1, <2>2
<1>5. g = Step(g)
  BY <1>3, <1>4 DEF Some
<1>6. it = Step(it)
  <2> HIDE DEF Step
  <2>1. QED
    BY <1>5
<1>7. \A T \in SUBSET D : it[T] = IF T = {} THEN 0 ELSE v[Some(T)] + it[T \ {Some(T)}]
  <2> HIDE DEF it
  <2>1. QED
    BY <1>3, <1>6 DEF Some
<1>8. it[D] = Total(v, D)
  <2> HIDE DEF it
  <2>1. QED
    BY <1>1, <1>7, SumSolution
<1>9. QED
  BY <1>2, <1>8 DEF D, v, Disk

\* The bytes that the files fs named B hold.
DiskOf(fs, B) == Total(Lengths(fs), B)

\* Each frame ends behind the one before it.
EndsGrow(fs) ==
  \A b \in DOMAIN fs : \A i, k \in DOMAIN fs[b] : i < k => fs[b][i].end <= fs[b][k].end

Files(fs) == fs \in [DOMAIN fs -> Seq(Frame)]

LEMMA LengthsType ==
  ASSUME NEW fs, Files(fs), NEW B \in SUBSET DOMAIN fs, IsFiniteSet(B)
  PROVE  /\ \A b \in DOMAIN fs : Lengths(fs)[b] = FileSize(fs[b]) /\ FileSize(fs[b]) \in Nat
         /\ DiskOf(fs, B) \in Nat
<1>1. \A b \in DOMAIN fs : Lengths(fs)[b] = FileSize(fs[b]) /\ FileSize(fs[b]) \in Nat
  BY FileSizeType DEF Files, Lengths
<1>2. \A b \in B : Lengths(fs)[b] \in Nat
  BY <1>1
<1>3. B \in SUBSET B
  OBVIOUS
<1>4. DiskOf(fs, B) \in Nat
  BY <1>2, <1>3, TotalType DEF DiskOf
<1>5. QED
  BY <1>1, <1>4

\* One file changes, and with it the directory by as much.
LEMMA OneFileChanges ==
  ASSUME NEW fs, Files(fs), NEW gs, Files(gs), DOMAIN gs = DOMAIN fs,
         NEW b \in DOMAIN fs, \A c \in DOMAIN fs \ {b} : gs[c] = fs[c],
         NEW B \in SUBSET DOMAIN fs, IsFiniteSet(B)
  PROVE  /\ b \in B => DiskOf(gs, B) = DiskOf(fs, B) + (FileSize(gs[b]) - FileSize(fs[b]))
         /\ b \notin B => DiskOf(gs, B) = DiskOf(fs, B)
<1>1. PICK v, w : v = Lengths(fs) /\ w = Lengths(gs)
  OBVIOUS
<1>2. \A c \in DOMAIN fs : /\ v[c] = FileSize(fs[c]) /\ v[c] \in Nat
                           /\ w[c] = FileSize(gs[c]) /\ w[c] \in Nat
  BY <1>1, LengthsType
<1>3. \A c \in DOMAIN fs \ {b} : v[c] = w[c]
  BY <1>2
<1>4. CASE b \in B
  <2>1. /\ \A c \in B : v[c] \in Nat /\ w[c] \in Nat
        /\ \A c \in B \ {b} : v[c] = w[c]
    BY <1>2, <1>3
  <2>2. Total(v, B) = v[b] + Total(v, B \ {b}) /\ Total(w, B) = w[b] + Total(w, B \ {b})
    BY <1>4, <2>1, TotalSplit
  <2>3. Total(v, B \ {b}) = Total(w, B \ {b}) /\ Total(v, B \ {b}) \in Nat
    <3>1. Total(v, B \ {b}) = Total(w, B \ {b})
      BY <2>1, TotalSame
    <3>2. B \ {b} \in SUBSET B
      OBVIOUS
    <3>3. QED
      BY <2>1, <3>1, <3>2, TotalType
  <2>4. Total(w, B) = Total(v, B) + (w[b] - v[b])
    BY <1>2, <2>2, <2>3
  <2>5. QED
    BY <1>1, <1>2, <1>4, <2>4 DEF DiskOf
<1>5. CASE b \notin B
  <2>1. \A c \in B : w[c] = v[c]
    BY <1>3, <1>5
  <2>2. Total(w, B) = Total(v, B)
    BY <2>1, TotalSame
  <2>3. DiskOf(gs, B) = DiskOf(fs, B) /\ DiskOf(fs, B) \in Nat
    BY <1>1, <2>2, LengthsType DEF DiskOf
  <2>4. QED
    BY <1>5, <2>3
<1>6. QED
  BY <1>4, <1>5

\* A frame added at the end of a file.
LEMMA FileGrows ==
  ASSUME NEW fs, Files(fs), EndsGrow(fs), NEW b \in DOMAIN fs, NEW n \in Nat,
         NEW e \in Frame, e.end = FileSize(fs[b]) + n,
         NEW gs, gs = With(fs, b, Append(fs[b], e)),
         NEW B \in SUBSET DOMAIN fs, IsFiniteSet(B)
  PROVE  /\ Files(gs) /\ DOMAIN gs = DOMAIN fs /\ EndsGrow(gs)
         /\ \A c \in DOMAIN fs \ {b} : gs[c] = fs[c]
         /\ FileSize(gs[b]) = FileSize(fs[b]) + n
         /\ DiskOf(gs, B) = DiskOf(fs, B) + IF b \in B THEN n ELSE 0
<1>1. PICK f, h : f = fs[b] /\ h = Append(f, e)
  OBVIOUS
<1>2. f \in Seq(Frame)
  BY <1>1 DEF Files
<1>3. /\ h \in Seq(Frame) /\ h # <<>> /\ Len(f) \in Nat /\ Len(h) = Len(f) + 1
      /\ DOMAIN f = 1..Len(f) /\ DOMAIN h = 1..(Len(f) + 1)
      /\ h[Len(f) + 1] = e /\ \A i \in DOMAIN f : h[i] = f[i]
  BY <1>1, <1>2, AppendProperties, LenProperties
<1>4. /\ DOMAIN gs = DOMAIN fs /\ gs[b] = h /\ \A c \in DOMAIN fs \ {b} : gs[c] = fs[c]
  BY <1>1 DEF With
<1>5. Files(gs)
  <2>1. \A c \in DOMAIN fs : gs[c] \in Seq(Frame)
    BY <1>3, <1>4 DEF Files
  <2>2. gs = [c \in DOMAIN fs |-> gs[c]]
    BY DEF With
  <2>3. QED
    BY <1>4, <2>1, <2>2 DEF Files
<1>6. FileSize(gs[b]) = FileSize(fs[b]) + n
  BY <1>3, <1>4 DEF FileSize
<1>7. \A i \in DOMAIN f : f[i].end \in Nat /\ f[i].end <= FileSize(f)
  <2>1. \A i \in DOMAIN f : f[i].end \in Nat
    BY <1>2, FrameFields
  <2>2. \A i, k \in DOMAIN f : i < k => f[i].end <= f[k].end
    BY <1>1 DEF EndsGrow
  <2>3. ASSUME NEW i \in DOMAIN f
        PROVE  f[i].end <= FileSize(f)
    <3>1. Len(f) \in DOMAIN f /\ f # <<>>
      BY <1>3
    <3>2. FileSize(f) = f[Len(f)].end
      BY <3>1 DEF FileSize
    <3>3. i = Len(f) \/ i < Len(f)
      BY <1>3
    <3>4. QED
      BY <2>1, <2>2, <3>1, <3>2, <3>3
  <2>4. QED
    BY <2>1, <2>3
<1>8. \A i, k \in DOMAIN h : i < k => h[i].end <= h[k].end
  <2> SUFFICES ASSUME NEW i \in DOMAIN h, NEW k \in DOMAIN h, i < k
               PROVE  h[i].end <= h[k].end
    OBVIOUS
  <2>1. i \in DOMAIN f /\ h[i] = f[i]
    BY <1>3
  <2>2. CASE k \in DOMAIN f
    BY <1>1, <1>3, <2>1, <2>2 DEF EndsGrow
  <2>3. CASE k = Len(f) + 1
    <3>1. h[k].end = FileSize(f) + n
      BY <1>1, <1>3, <2>3
    <3>2. FileSize(f) \in Nat /\ f[i].end \in Nat /\ f[i].end <= FileSize(f)
      BY <1>2, <1>7, <2>1, FileSizeType
    <3>3. QED
      BY <2>1, <3>1, <3>2
  <2>4. QED
    BY <1>3, <2>2, <2>3
<1>9. EndsGrow(gs)
  <2> SUFFICES ASSUME NEW c \in DOMAIN gs
               PROVE  \A i, k \in DOMAIN gs[c] : i < k => gs[c][i].end <= gs[c][k].end
    BY DEF EndsGrow
  <2>1. CASE c = b
    BY <1>4, <1>8, <2>1
  <2>2. CASE c # b
    BY <1>4, <2>2 DEF EndsGrow
  <2>3. QED
    BY <2>1, <2>2
<1>10. DiskOf(gs, B) = DiskOf(fs, B) + IF b \in B THEN n ELSE 0
  <2>1. /\ b \in B => DiskOf(gs, B) = DiskOf(fs, B) + (FileSize(gs[b]) - FileSize(fs[b]))
        /\ b \notin B => DiskOf(gs, B) = DiskOf(fs, B)
    BY <1>4, <1>5, OneFileChanges
  <2>2. FileSize(fs[b]) \in Nat /\ DiskOf(fs, B) \in Nat
    BY <1>1, <1>2, FileSizeType, LengthsType
  <2>3. QED
    BY <1>6, <2>1, <2>2
<1>11. QED
  BY <1>4, <1>5, <1>6, <1>9, <1>10

\* Only the first frames of a file are left.
LEMMA FileShrinks ==
  ASSUME NEW fs, Files(fs), EndsGrow(fs), NEW b \in DOMAIN fs,
         NEW n \in Nat, n <= Len(fs[b]),
         NEW gs, gs = With(fs, b, SubSeq(fs[b], 1, n)),
         NEW B \in SUBSET DOMAIN fs, IsFiniteSet(B)
  PROVE  /\ Files(gs) /\ DOMAIN gs = DOMAIN fs /\ EndsGrow(gs)
         /\ DiskOf(gs, B) <= DiskOf(fs, B)
<1>1. PICK f, h : f = fs[b] /\ h = SubSeq(f, 1, n)
  OBVIOUS
<1>2. f \in Seq(Frame) /\ Len(f) \in Nat /\ DOMAIN f = 1..Len(f)
  BY <1>1, LenProperties DEF Files
<1>3. /\ h \in Seq(Frame) /\ Len(h) = n /\ DOMAIN h = 1..n /\ 1..n \subseteq DOMAIN f
      /\ \A i \in 1..n : h[i] = f[i]
  BY <1>1, <1>2, SubSeqProperties
<1>4. /\ DOMAIN gs = DOMAIN fs /\ gs[b] = h /\ \A c \in DOMAIN fs \ {b} : gs[c] = fs[c]
  BY <1>1 DEF With
<1>5. Files(gs)
  <2>1. \A c \in DOMAIN fs : gs[c] \in Seq(Frame)
    BY <1>3, <1>4 DEF Files
  <2>2. gs = [c \in DOMAIN fs |-> gs[c]]
    BY DEF With
  <2>3. QED
    BY <1>4, <2>1, <2>2 DEF Files
<1>6. \A i, k \in DOMAIN f : f[i].end \in Nat /\ (i < k => f[i].end <= f[k].end)
  BY <1>1, <1>2, FrameFields DEF EndsGrow
<1>7. EndsGrow(gs)
  <2> SUFFICES ASSUME NEW c \in DOMAIN gs
               PROVE  \A i, k \in DOMAIN gs[c] : i < k => gs[c][i].end <= gs[c][k].end
    BY DEF EndsGrow
  <2>1. CASE c = b
    BY <1>3, <1>4, <1>6, <2>1
  <2>2. CASE c # b
    BY <1>4, <2>2 DEF EndsGrow
  <2>3. QED
    BY <2>1, <2>2
<1>8. FileSize(h) <= FileSize(f) /\ FileSize(h) \in Nat /\ FileSize(f) \in Nat
  <2>1. FileSize(h) \in Nat /\ FileSize(f) \in Nat
    BY <1>2, <1>3, FileSizeType
  <2>2. CASE n = 0
    <3>1. h = <<>>
      BY <1>3, <2>2, EmptySeq
    <3>2. QED
      BY <2>1, <3>1 DEF FileSize
  <2>3. CASE n > 0
    <3>1. n \in DOMAIN f /\ Len(f) \in DOMAIN f /\ (n = Len(f) \/ n < Len(f))
      BY <1>1, <1>2, <1>3, <2>3
    <3>2. h # <<>> /\ f # <<>> /\ h[n] = f[n]
      <4>1. n \in 1..n /\ n \in DOMAIN h
        BY <1>3, <2>3
      <4>2. QED
        BY <1>3, <3>1, <4>1
    <3>3. FileSize(h) = f[n].end /\ FileSize(f) = f[Len(f)].end
      BY <1>3, <3>2 DEF FileSize
    <3>4. QED
      BY <1>6, <2>1, <3>1, <3>3
  <2>4. QED
    BY <2>2, <2>3
<1>9. DiskOf(gs, B) <= DiskOf(fs, B)
  <2>1. /\ b \in B => DiskOf(gs, B) = DiskOf(fs, B) + (FileSize(gs[b]) - FileSize(fs[b]))
        /\ b \notin B => DiskOf(gs, B) = DiskOf(fs, B)
    BY <1>4, <1>5, OneFileChanges
  <2>2. PICK d, x, y \in Nat : d = DiskOf(fs, B) /\ x = FileSize(gs[b]) /\ y = FileSize(fs[b]) /\ x <= y
    BY <1>1, <1>4, <1>8, LengthsType
  <2>3. DiskOf(gs, B) = d \/ DiskOf(gs, B) = d + (x - y)
    BY <2>1, <2>2
  <2>4. QED
    BY <2>2, <2>3
<1>10. QED
  BY <1>4, <1>5, <1>7, <1>9

\* g names the members of P, each once, by those of O.
Renames(g, O, P) ==
  /\ \A i \in O : \A k \in O : g[i] = g[k] => i = k
  /\ P = {g[i] : i \in O}

LEMMA TotalRenamed ==
  ASSUME NEW O, IsFiniteSet(O), NEW v, NEW w, NEW g, NEW P, Renames(g, O, P),
         \A i \in O : v[i] \in Nat, \A i \in O : w[g[i]] = v[i]
  PROVE  Total(w, P) = Total(v, O)
<1>1. \A x, y \in O : g[x] = g[y] => x = y
  BY DEF Renames
<1>2. Total(w, {g[i] : i \in O}) = Total(v, O)
  BY <1>1, TotalMapped
<1>3. QED
  BY <1>2 DEF Renames

LEMMA TotalOfOne ==
  ASSUME NEW v, NEW x, v[x] \in Nat
  PROVE  Total(v, {x}) = v[x]
<1>1. PICK T : T = {}
  OBVIOUS
<1>2. IsFiniteSet(Tickets(v, T)) /\ Total(v, T) = 0 /\ x \notin T /\ T \cup {x} = {x}
  BY <1>1, TotalEmpty, FS_EmptySet
<1>3. Total(v, T \cup {x}) = Total(v, T) + v[x]
  BY <1>2, TicketsOfMore
<1>4. QED
  BY <1>2, <1>3

\* The list s is of the files fs that g names.
Accounts(s, fs, g) ==
  \A i \in DOMAIN s : s[i].base = g[i] /\ Lengths(fs)[g[i]] = s[i].bytes

LEMMA ListOfAccounts ==
  ASSUME NEW s, s \in Seq(Segment), NEW fs, NEW g, NEW P,
         Accounts(s, fs, g), Renames(g, DOMAIN s, P)
  PROVE  /\ Listed(s, P) = DiskOf(fs, P)
         /\ \A i \in DOMAIN s : Listed(s, {g[i]}) = s[i].bytes
<1>1. PICK v, w, O : v = Bytes(s) /\ w = Lengths(fs) /\ O = DOMAIN s
  OBVIOUS
<1>2. IsFiniteSet(O) /\ \A i \in O : v[i] \in Nat /\ v[i] = s[i].bytes
  BY <1>1, ListedType
<1>3. \A i \in O : v[i] \in Nat
  BY <1>2
<1>4. \A i \in O : w[g[i]] = v[i]
  BY <1>1, <1>2 DEF Accounts
<1>5. Renames(g, O, P)
  BY <1>1
<1>6. Listed(s, P) = DiskOf(fs, P)
  <2>1. On(s, P) = O
    <3>1. \A i \in O : s[i].base = g[i] /\ g[i] \in P
      BY <1>1 DEF Accounts, Renames
    <3>2. QED
      BY <1>1, <3>1 DEF On
  <2>2. Total(w, P) = Total(v, O)
    BY <1>2, <1>3, <1>4, <1>5, TotalRenamed
  <2>3. QED
    BY <1>1, <2>1, <2>2 DEF Listed, DiskOf
<1>7. ASSUME NEW i \in O
      PROVE  Listed(s, {g[i]}) = s[i].bytes
  <2>1. On(s, {g[i]}) = {i}
    BY <1>1 DEF On, Accounts, Renames
  <2>2. Total(v, {i}) = v[i]
    BY <1>3, TotalOfOne
  <2>3. QED
    BY <1>1, <1>2, <2>1, <2>2 DEF Listed
<1>8. QED
  BY <1>1, <1>6, <1>7

\* Opening the journal accounts for every byte in the directory.
LEMMA ReopenAccounts ==
  ASSUME TypeInv, NEW fs, fs \in [DOMAIN files -> Seq(Frame)], NEW c \in Nat,
         Reopen(fs, c), DOMAIN files' = DOMAIN files
  PROVE  /\ segs' \in Seq(Segment) /\ nextSeq' \in Nat
         /\ linked' = linked /\ apc' = "idle"
         /\ \A i \in DOMAIN segs' : segs'[i].base \in linked /\ segs'[i].base <= nextSeq'
         /\ \A b \in linked : Listed(segs', {b}) = FileSize(fs[b])
         /\ Listed(segs', linked) = DiskOf(fs, linked)
<1>1. segs' \in Seq(Segment) /\ nextSeq' \in Nat /\ linked' = linked /\ apc' = "idle"
  <2>1. ReopenedOK
    BY ReopenType
  <2>2. apc' = "idle"
    BY DEF Reopen
  <2>3. QED
    BY <2>1, <2>2 DEF ReopenedOK
<1>2. linked \in SUBSET Nat /\ IsFiniteSet(linked) /\ linked \subseteq DOMAIN files
  BY DEF TypeInv, TypeOK
<1>3. PICK bases \in [1..Cardinality(linked) -> linked] :
        /\ Ascending(bases)
        /\ segs' = ListOf(bases, fs)
        /\ IF bases = <<>> THEN nextSeq' = 0
           ELSE LET last == bases[Len(bases)]
                IN  \E hi \in HighestSeq(fs[last]) :
                      nextSeq' = IF hi >= last THEN hi + 1 ELSE last
  BY DEF Reopen
<1>4. linked = {bases[i] : i \in DOMAIN bases}
  BY <1>2, <1>3, AscendingListsAll
<1>5. PICK n \in Nat : n = Cardinality(linked)
  BY <1>2, FS_CardinalityType
<1>6. /\ DOMAIN bases = 1..n /\ Len(bases) = n
      /\ \A i \in 1..n : bases[i] \in linked /\ bases[i] \in Nat /\ bases[i] \in DOMAIN files
  <2>1. bases \in [1..n -> linked]
    BY <1>5
  <2>2. DOMAIN bases = 1..n /\ bases \in Seq(linked) /\ Len(bases) = n
    BY <2>1
  <2>3. QED
    BY <1>2, <2>1, <2>2
<1>7. PICK s, N : s = segs' /\ N = nextSeq'
  OBVIOUS
<1>8. /\ s \in Seq(Segment) /\ N \in Nat /\ DOMAIN s = 1..n
      /\ \A i \in 1..n : s[i].base = bases[i] /\ s[i].bytes = FileSize(fs[bases[i]])
  <2>1. s = [i \in 1..n |-> [base |-> bases[i], bytes |-> FileSize(fs[bases[i]])]]
    BY <1>3, <1>6, <1>7 DEF ListOf
  <2>2. QED
    BY <1>1, <1>7, <2>1
<1>9. \A i, k \in 1..n : (i < k => bases[i] < bases[k]) /\ (bases[i] = bases[k] => i = k)
  BY <1>3, <1>6 DEF Ascending
<1>10. ASSUME NEW i \in 1..n
       PROVE  bases[i] <= N
  <2>1. n > 0 /\ n \in 1..n /\ bases # <<>>
    BY <1>6
  <2>2. bases[n] <= N
    <3>1. \A hi \in HighestSeq(fs[bases[n]]) : hi \in Nat
      BY <1>6, <2>1, HighestSeqType
    <3>2. QED
      BY <1>3, <1>6, <1>7, <2>1, <3>1
  <2>3. i = n \/ i < n
    BY <2>1
  <2>4. bases[i] <= bases[n] /\ bases[i] \in Nat /\ bases[n] \in Nat
    BY <1>6, <1>9, <2>1, <2>3
  <2>5. QED
    BY <1>8, <2>2, <2>4
<1>11. /\ \A y : y \in linked <=> \E i \in 1..n : y = bases[i]
       /\ \A i \in 1..n : s[i].base = bases[i] /\ Lengths(fs)[bases[i]] = s[i].bytes
  <2>1. \A i \in 1..n : bases[i] \in DOMAIN fs
    BY <1>6
  <2>2. \A i \in 1..n : Lengths(fs)[bases[i]] = s[i].bytes
    BY <1>8, <2>1 DEF Lengths
  <2>3. QED
    BY <1>4, <1>6, <1>8, <2>2
<1>12. /\ Listed(s, linked) = DiskOf(fs, linked)
       /\ \A i \in 1..n : Listed(s, {bases[i]}) = s[i].bytes
  <2>1. Accounts(s, fs, bases)
    BY <1>8, <1>11 DEF Accounts
  <2>2. Renames(bases, DOMAIN s, linked)
    <3>1. \A i \in 1..n : \A k \in 1..n : bases[i] = bases[k] => i = k
      BY <1>9
    <3>2. linked = {bases[i] : i \in 1..n}
      BY <1>4, <1>6
    <3>3. QED
      BY <1>8, <3>1, <3>2 DEF Renames
  <2>3. /\ Listed(s, linked) = DiskOf(fs, linked)
        /\ \A i \in DOMAIN s : Listed(s, {bases[i]}) = s[i].bytes
    BY <1>8, <2>1, <2>2, ListOfAccounts
  <2>4. QED
    BY <1>8, <2>3
<1>13. ASSUME NEW b \in linked
       PROVE  Listed(s, {b}) = FileSize(fs[b])
  <2>1. PICK i \in 1..n : b = bases[i]
    BY <1>11
  <2>2. QED
    BY <1>8, <1>12, <2>1
<1>14. Listed(s, linked) = DiskOf(fs, linked)
  BY <1>12
<1>15. QED
  BY <1>1, <1>6, <1>7, <1>8, <1>10, <1>13, <1>14

-----------------------------------------------------------------------------
(* The directory's bound.  It holds of any fault, if a segment and a frame  *)
(* are no larger than the cap, which the options' defaults (16 MiB, 1 GiB)  *)
(* satisfy and the code does not ask for.                                   *)

\* What the faults may have left in the files beyond what the list accounts for.
Slack == faults * LargestFrame

\* A segment begins at or below nextSeq; below it, if its file has no name left.
BasesBelow ==
  \A i \in DOMAIN segs :
    /\ segs[i].base <= nextSeq
    /\ segs[i].base \notin linked \/ apc = "evict" => segs[i].base < nextSeq

\* The list never accounts for bytes that a file does not hold; what the files hold
\* and the list does not know of, each fault has left.
Covered    == \A b \in linked : Listed(segs, {b}) <= FileSize(files[b])
DiskListed == Disk <= Listed(segs, linked) + Slack

\* An Append adds a frame before it evicts, to a segment that stays within the cap.
Added  == IF apc = "evict" THEN LargestFrame ELSE 0
AtMost == Disk <= MaxTotal + Slack + Added
Rotated ==
  /\ apc = "write" => asize \in Sizes /\ segs[Len(segs)].bytes + asize <= MaxTotal
  /\ apc = "evict" => segs[Len(segs)].bytes <= MaxTotal

DiskInv ==
  TypeInv /\ EndsGrow(files) /\ BasesBelow /\ Covered /\ DiskListed /\ AtMost /\ Rotated

LEMMA LargestIs ==
  ASSUME CapHolds
  PROVE  LargestFrame \in Nat /\ \A s \in Sizes : s \in Nat /\ s <= LargestFrame
<1> DEFINE T == {MaxTotal - s : s \in Sizes}
<1>1. MaxTotal \in Nat /\ \A s \in Sizes : s \in Nat /\ s <= MaxTotal
  BY JournalAssumption DEF CapHolds
<1>2. T \subseteq Nat /\ T # {}
  BY <1>1 DEF CapHolds
<1>3. PICK n \in T : \A m \in T : n <= m
  <2> HIDE DEF T
  <2>1. QED
    BY <1>2, LeastOf
<1>4. PICK l \in Sizes : n = MaxTotal - l
  BY <1>3
<1>5. \A s \in Sizes : s <= l
  BY <1>1, <1>3, <1>4
<1>6. LargestFrame \in Sizes /\ \A s \in Sizes : s <= LargestFrame
  BY <1>5 DEF LargestFrame
<1>7. QED
  BY <1>1, <1>6

\* Each fault adds one frame to the slack.
LEMMA SlackGrows ==
  ASSUME CapHolds, faults \in Nat
  PROVE  /\ Slack \in Nat
         /\ faults' = faults => Slack' = Slack
         /\ faults' = faults + 1 => Slack' = Slack + LargestFrame
<1>1. PICK l \in Nat : l = LargestFrame
  BY LargestIs
<1>2. PICK f \in Nat : f = faults
  OBVIOUS
<1>3. f * l \in Nat /\ (f + 1) * l = f * l + l
  OBVIOUS
<1>4. Slack = f * l
  BY <1>1, <1>2 DEF Slack
<1>5. faults' = faults => Slack' = f * l
  BY <1>1, <1>2 DEF Slack
<1>6. faults' = faults + 1 => Slack' = (f + 1) * l
  BY <1>1, <1>2 DEF Slack
<1>7. QED
  BY <1>1, <1>3, <1>4, <1>5, <1>6

LEMMA DiskTyped ==
  ASSUME TypeInv
  PROVE  /\ Files(files) /\ linked \in SUBSET DOMAIN files /\ IsFiniteSet(linked)
         /\ Disk \in Nat /\ Disk = DiskOf(files, linked) /\ faults \in Nat /\ nextSeq \in Nat
         /\ segs \in Seq(Segment) /\ \A B : Listed(segs, B) \in Nat
         /\ MaxTotal \in Nat /\ MaxSeg \in Nat
<1>1. /\ Files(files) /\ linked \in SUBSET DOMAIN files /\ IsFiniteSet(linked)
      /\ faults \in Nat /\ nextSeq \in Nat /\ segs \in Seq(Segment)
  BY DEF TypeInv, TypeOK, Files
<1>2. Disk = DiskOf(files, linked) /\ Disk \in Nat
  BY <1>1, LengthsType DEF Disk, DiskOf
<1>3. \A B : Listed(segs, B) \in Nat
  BY <1>1, ListedType
<1>4. QED
  BY <1>1, <1>2, <1>3, JournalAssumption

LEMMA InitDiskInv == CapHolds /\ Init => DiskInv
<1> SUFFICES ASSUME CapHolds, Init
             PROVE  DiskInv
  OBVIOUS
<1>1. TypeInv
  BY InitTypeInv
<1>2. EndsGrow(files) /\ BasesBelow /\ Covered /\ Rotated
  BY DEF Init, EndsGrow, BasesBelow, Covered, Rotated
<1>3. Disk = 0
  BY TotalEmpty DEF Init, Disk
<1>4. Slack \in Nat /\ Listed(segs, linked) \in Nat /\ MaxTotal \in Nat /\ apc # "evict"
  BY <1>1, SlackGrows, DiskTyped DEF Init
<1>5. DiskListed /\ AtMost
  BY <1>3, <1>4 DEF DiskListed, AtMost, Added
<1>6. QED
  BY <1>1, <1>2, <1>5 DEF DiskInv

\* Steps that leave the files and the list alone.
LEMMA DiskAlone ==
  ASSUME CapHolds, DiskInv, TypeInv', faults' \in {faults, faults + 1},
         UNCHANGED <<segs, nextSeq, apc, asize, files, linked>>
  PROVE  DiskInv'
<1>1. EndsGrow(files)' /\ BasesBelow' /\ Covered' /\ Rotated'
  BY DEF DiskInv, EndsGrow, BasesBelow, Covered, Rotated
<1>2. PICK D, A \in Nat : D = Disk /\ A = Listed(segs, linked)
  BY DiskTyped DEF DiskInv
<1>3. Disk' = D /\ Listed(segs, linked)' = A
  BY <1>2 DEF Disk
<1>4. PICK K, l \in Nat : K = Slack /\ l = LargestFrame
  BY SlackGrows, DiskTyped, LargestIs DEF DiskInv
<1>5. PICK M, e \in Nat : M = MaxTotal /\ e = Added /\ e = Added'
  BY DiskTyped, LargestIs DEF DiskInv, Added
<1>6. D <= A + K /\ D <= M + K + e
  BY <1>2, <1>4, <1>5 DEF DiskInv, DiskListed, AtMost
<1>7. PICK k \in Nat : k = Slack' /\ k >= K
  <2>1. CASE faults' = faults
    BY <1>4, <2>1, SlackGrows, DiskTyped DEF DiskInv
  <2>2. CASE faults' = faults + 1
    <3>1. Slack' = K + l
      BY <1>4, <2>2, SlackGrows, DiskTyped DEF DiskInv
    <3>2. K + l \in Nat /\ K + l >= K
      BY <1>4
    <3>3. QED
      BY <3>1, <3>2
  <2>3. QED
    BY <2>1, <2>2
<1>8. D <= A + k /\ D <= M + k + e
  <2>1. k >= K
    BY <1>7
  <2>2. QED
    BY <1>6, <2>1
<1>9. DiskListed' /\ AtMost'
  BY <1>3, <1>4, <1>5, <1>7, <1>8 DEF DiskListed, AtMost
<1>10. QED
  BY <1>1, <1>9 DEF DiskInv

\* The same, in the names a step's proof gives the values.
LEMMA DiskBound ==
  ASSUME NEW D \in Nat, NEW A \in Nat, NEW K \in Nat, NEW e \in Nat, NEW M \in Nat,
         D = Disk', A = Listed(segs, linked)', K = Slack', e = Added', M = MaxTotal,
         D <= A + K, D <= M + K + e
  PROVE  DiskListed' /\ AtMost'
BY DEF DiskListed, AtMost

LEMMA DiskAppendBegin ==
  ASSUME CapHolds, DiskInv, TypeInv', NEW size \in Sizes, AppendBegin(size)
  PROVE  DiskInv'
<1>1. /\ apc = "idle" /\ apc' = "write" /\ asize' = size /\ nextSeq' = nextSeq /\ faults' = faults
      /\ nextSeq \in Nat
  BY DiskTyped DEF AppendBegin, DiskInv
<1>2. PICK D, A, K, M \in Nat : /\ D = Disk /\ A = Listed(segs, linked) /\ K = Slack /\ M = MaxTotal
                              /\ D <= A + K /\ D <= M + K
  <2>1. PICK D, A, K, M \in Nat : D = Disk /\ A = Listed(segs, linked) /\ K = Slack /\ M = MaxTotal
    BY SlackGrows, DiskTyped DEF DiskInv
  <2>2. D <= A + K /\ D <= M + K + 0
    BY <1>1, <2>1 DEF DiskInv, DiskListed, AtMost, Added
  <2>3. QED
    BY <2>1, <2>2
<1>3. Slack' = K /\ Added' = 0
  BY <1>1, <1>2, SlackGrows, DiskTyped DEF DiskInv, Added
<1>4. size \in Nat /\ size <= M /\ MaxSeg \in Nat /\ MaxSeg <= M
  BY <1>2, LargestIs, DiskTyped DEF CapHolds, DiskInv
<1>5. CASE active = "open" /\ ~MustRotate(size) /\ UNCHANGED <<active, segs, linked, files, synced>>
  <2>1. EndsGrow(files)' /\ BasesBelow' /\ Covered'
    BY <1>1, <1>5 DEF DiskInv, EndsGrow, BasesBelow, Covered
  <2>2. DiskListed' /\ AtMost'
    <3>1. Disk' = D /\ Listed(segs, linked)' = A
      BY <1>2, <1>5 DEF Disk
    <3>2. D <= M + K + 0
      BY <1>2
    <3>3. QED
      BY <1>2, <1>3, <3>1, <3>2, DiskBound
  <2>3. segs[Len(segs)].bytes + size <= M
    <3>1. segs # <<>>
      BY <1>5 DEF DiskInv, TypeInv, NewestListed
    <3>2. Len(segs) \in DOMAIN segs
      BY <3>1, NewestFile DEF DiskInv
    <3>3. PICK b \in Nat : b = segs[Len(segs)].bytes
      BY <3>2, SegmentFields DEF DiskInv, TypeInv
    <3>4. b = 0 \/ b + size <= MaxSeg
      BY <1>4, <1>5, <3>3 DEF MustRotate
    <3>5. QED
      BY <1>4, <3>3, <3>4
  <2>4. Rotated'
    BY <1>1, <1>2, <1>5, <2>3 DEF Rotated
  <2>5. QED
    BY <2>1, <2>2, <2>4 DEF DiskInv
<1>6. CASE CreateSegment
  <2>1. PICK s, fs, B, e :
          s = segs' /\ fs = files' /\ B = linked' /\ e = [base |-> nextSeq, bytes |-> 0]
    OBVIOUS
  <2>2. /\ s = Append(segs, e) /\ B = linked \cup {nextSeq}
        /\ fs = [b \in DOMAIN files \cup {nextSeq} |->
                   IF b \in linked \cup (DOMAIN files \ {nextSeq}) THEN files[b] ELSE <<>>]
    BY <1>6, <2>1 DEF CreateSegment, CreateFile
  <2>3. /\ segs \in Seq(Segment) /\ e \in Segment /\ e.bytes = 0 /\ e.base = nextSeq
        /\ linked \in SUBSET DOMAIN files /\ IsFiniteSet(linked) /\ Files(files)
    BY <1>1, <2>1, DiskTyped DEF DiskInv, Segment
  <2>4. /\ s \in Seq(Segment) /\ Len(s) = Len(segs) + 1 /\ DOMAIN s = 1..(Len(segs) + 1)
        /\ DOMAIN segs = 1..Len(segs) /\ Len(segs) \in Nat
        /\ s[Len(s)] = e /\ \A i \in DOMAIN segs : s[i] = segs[i]
    BY <2>2, <2>3, AppendProperties, LenProperties
  <2>5. /\ \A b \in linked : fs[b] = files[b] /\ b \in DOMAIN fs
        /\ nextSeq \notin linked => fs[nextSeq] = <<>>
        /\ \A b \in DOMAIN fs : fs[b] = <<>> \/ (b \in DOMAIN files /\ fs[b] = files[b])
        /\ DOMAIN fs = DOMAIN files \cup {nextSeq}
    BY <2>2, <2>3
  <2>6. EndsGrow(files)'
    <3>1. EndsGrow(fs)
      BY <2>5 DEF DiskInv, EndsGrow
    <3>2. QED
      BY <2>1, <3>1 DEF EndsGrow
  <2>7. BasesBelow'
    <3>1. \A i \in DOMAIN s : /\ s[i].base <= nextSeq
                              /\ s[i].base \notin B => s[i].base < nextSeq
      <4>1. \A i \in DOMAIN s : i \in DOMAIN segs \/ i = Len(s)
        BY <2>4
      <4>2. e.base <= nextSeq /\ e.base \in B
        BY <1>1, <2>2, <2>3
      <4>3. ASSUME NEW i \in DOMAIN s
            PROVE  /\ s[i].base <= nextSeq
                   /\ s[i].base \notin B => s[i].base < nextSeq
        <5>1. CASE i \in DOMAIN segs
          <6>1. PICK x : x = segs[i].base
            OBVIOUS
          <6>2. s[i].base = x
            BY <2>4, <5>1, <6>1
          <6>3. x <= nextSeq /\ (x \notin linked => x < nextSeq)
            BY <5>1, <6>1 DEF DiskInv, BasesBelow
          <6>4. x \notin B => x \notin linked
            BY <2>2
          <6>5. QED
            BY <6>2, <6>3, <6>4
        <5>2. CASE i = Len(s)
          BY <2>4, <4>2, <5>2
        <5>3. QED
          BY <4>1, <5>1, <5>2
      <4>4. QED
        BY <4>3
    <3>2. QED
      BY <1>1, <2>1, <3>1 DEF BasesBelow
  <2>8. \A C : Listed(s, C) = Listed(segs, C)
    <3> SUFFICES ASSUME NEW C
                 PROVE  Listed(s, C) = Listed(segs, C)
      OBVIOUS
    <3>1. Listed(s, C) = Listed(segs, C) + IF e.base \in C THEN e.bytes ELSE 0
      BY <2>2, <2>3, ListedAppend
    <3>2. Listed(segs, C) \in Nat
      BY DiskTyped DEF DiskInv
    <3>3. QED
      BY <2>3, <3>1, <3>2
  <2>9. Covered'
    <3>1. ASSUME NEW b \in B
          PROVE  Listed(s, {b}) <= FileSize(fs[b])
      <4>1. CASE b \in linked
        BY <2>5, <2>8, <4>1 DEF DiskInv, Covered
      <4>2. CASE b \notin linked
        <5>1. b = nextSeq /\ fs[b] = <<>>
          BY <2>2, <2>5, <4>2
        <5>2. On(segs, {b}) = {}
          <6>1. \A i \in DOMAIN segs : segs[i].base = b => FALSE
            <7> SUFFICES ASSUME NEW i \in DOMAIN segs, segs[i].base = b
                         PROVE  FALSE
              OBVIOUS
            <7>1. segs[i].base < nextSeq
              BY <4>2 DEF DiskInv, BasesBelow
            <7>2. QED
              BY <1>1, <5>1, <7>1
          <6>2. QED
            BY <6>1 DEF On
        <5>3. Listed(s, {b}) = 0 /\ FileSize(fs[b]) = 0
          BY <2>8, <5>1, <5>2, TotalEmpty DEF Listed, FileSize
        <5>4. QED
          BY <5>3
      <4>3. QED
        BY <4>1, <4>2
    <3>2. QED
      BY <2>1, <3>1 DEF Covered
  <2>10. DiskOf(fs, B) = D
    <3>1. PICK v, w : v = Lengths(files) /\ w = Lengths(fs)
      OBVIOUS
    <3>2. \A b \in linked : v[b] = w[b]
      BY <2>3, <2>5, <3>1 DEF Lengths
    <3>3. Total(w, linked) = D
      <4>1. Total(v, linked) = Total(w, linked)
        BY <3>2, TotalSame
      <4>2. QED
        BY <1>2, <3>1, <4>1 DEF Disk
    <3>4. CASE nextSeq \in linked
      <4>1. B = linked
        BY <2>2, <3>4
      <4>2. QED
        BY <3>1, <3>3, <4>1 DEF DiskOf
    <3>5. CASE nextSeq \notin linked
      <4>1. w[nextSeq] = 0
        BY <2>5, <3>1, <3>5 DEF Lengths, FileSize
      <4>2. IsFiniteSet(Tickets(w, linked))
        <5>1. \A b \in linked : w[b] \in Nat
          <6>1. \A b \in linked : v[b] \in Nat
            BY <2>3, <3>1, LengthsType
          <6>2. QED
            BY <3>2, <6>1
        <5>2. linked \in SUBSET linked
          OBVIOUS
        <5>3. QED
          BY <2>3, <5>1, <5>2, TotalType
      <4>3. PICK x : x = nextSeq
        OBVIOUS
      <4>4. x \notin linked /\ w[x] = 0 /\ w[x] \in Nat
        BY <3>5, <4>1, <4>3
      <4>5. Total(w, linked \cup {x}) = Total(w, linked) + w[x]
        BY <4>2, <4>4, TicketsOfMore
      <4>6. Total(w, linked \cup {x}) = D
        BY <1>2, <3>3, <4>4, <4>5
      <4>7. QED
        BY <2>2, <3>1, <4>3, <4>6 DEF DiskOf
    <3>6. QED
      BY <3>4, <3>5
  <2>11. DiskListed' /\ AtMost'
    <3>1. PICK a \in Nat : a = Listed(s, B) /\ a >= A
      <4>1. Listed(segs, linked) <= Listed(segs, B)
        BY <2>2, <2>3, ListedMonotone
      <4>2. Listed(segs, B) \in Nat
        BY DiskTyped DEF DiskInv
      <4>3. QED
        BY <1>2, <2>8, <4>1, <4>2
    <3>2. D = Disk' /\ a = Listed(segs, linked)'
      BY <2>1, <2>10, <3>1 DEF Disk, DiskOf
    <3>3. D <= a + K /\ D <= M + K + 0
      BY <1>2, <3>1
    <3>4. QED
      BY <1>2, <1>3, <3>2, <3>3, DiskBound
  <2>12. Rotated'
    <3>1. s[Len(s)].bytes + size <= M
      BY <1>4, <2>3, <2>4
    <3>2. QED
      BY <1>1, <1>2, <2>1, <3>1 DEF Rotated
  <2>13. QED
    BY <2>6, <2>7, <2>9, <2>11, <2>12 DEF DiskInv
<1>7. QED
  BY <1>5, <1>6 DEF AppendBegin

\* The values a step starts from.
LEMMA DiskValues ==
  ASSUME CapHolds, DiskInv
  PROVE  \E D, A, K, M, l \in Nat :
           /\ D = Disk /\ A = Listed(segs, linked) /\ K = Slack /\ M = MaxTotal
           /\ l = LargestFrame /\ D <= A + K
           /\ apc # "evict" => D <= M + K
           /\ apc = "evict" => D <= M + K + l
<1>1. PICK D, A, K, M, l \in Nat : /\ D = Disk /\ A = Listed(segs, linked) /\ K = Slack
                                 /\ M = MaxTotal /\ l = LargestFrame
  BY SlackGrows, DiskTyped, LargestIs DEF DiskInv
<1>2. D <= A + K
  BY <1>1 DEF DiskInv, DiskListed
<1>3. ASSUME apc # "evict"
      PROVE  D <= M + K
  <2>1. D <= M + K + 0
    BY <1>1, <1>3 DEF DiskInv, AtMost, Added
  <2>2. QED
    BY <2>1
<1>4. ASSUME apc = "evict"
      PROVE  D <= M + K + l
  BY <1>1, <1>4 DEF DiskInv, AtMost, Added
<1>5. QED
  BY <1>1, <1>2, <1>3, <1>4

\* Writing to the newest segment's file.
LEMMA DiskWrite ==
  ASSUME DiskInv, segs # <<>>, NEW n \in Nat, NEW whole \in BOOLEAN, WriteFrame(n, whole),
         linked' = linked
  PROVE  /\ files' \in [DOMAIN files -> Seq(Frame)] /\ DOMAIN files' = DOMAIN files
         /\ EndsGrow(files)'
         /\ \A b \in linked : FileSize(files'[b]) = FileSize(files[b]) + IF b = Newest THEN n ELSE 0
         /\ Disk' = Disk + IF Newest \in linked THEN n ELSE 0
<1>1. /\ Files(files) /\ linked \in SUBSET DOMAIN files /\ IsFiniteSet(linked)
      /\ Disk = DiskOf(files, linked)
  BY DiskTyped DEF DiskInv
<1>2. PICK b \in DOMAIN files : b = Newest /\ files[b] \in Seq(Frame)
  BY NewestFile DEF DiskInv
<1>3. PICK e : e = [seq |-> nextSeq, id |-> puts, end |-> FileSize(files[b]) + n, full |-> whole]
  OBVIOUS
<1>4. e \in Frame /\ e.end = FileSize(files[b]) + n
  <2>1. FileSize(files[b]) \in Nat /\ nextSeq \in Nat /\ puts \in Nat
    BY <1>2, FileSizeType DEF DiskInv, TypeInv, TypeOK
  <2>2. QED
    BY <1>3, <2>1 DEF Frame
<1>5. PICK gs : gs = With(files, b, Append(files[b], e))
  OBVIOUS
<1>6. files' = gs
  BY <1>2, <1>3, <1>5 DEF WriteFrame, With
<1>7. /\ Files(gs) /\ DOMAIN gs = DOMAIN files /\ EndsGrow(gs)
      /\ \A c \in DOMAIN files \ {b} : gs[c] = files[c]
      /\ FileSize(gs[b]) = FileSize(files[b]) + n
      /\ DiskOf(gs, linked) = DiskOf(files, linked) + IF b \in linked THEN n ELSE 0
  <2>1. PICK fs, B : fs = files /\ B = linked
    OBVIOUS
  <2>2. /\ Files(fs) /\ EndsGrow(fs) /\ b \in DOMAIN fs /\ B \in SUBSET DOMAIN fs
        /\ IsFiniteSet(B) /\ e.end = FileSize(fs[b]) + n
        /\ gs = With(fs, b, Append(fs[b], e))
    BY <1>1, <1>4, <1>5, <2>1 DEF DiskInv
  <2>3. /\ Files(gs) /\ DOMAIN gs = DOMAIN fs /\ EndsGrow(gs)
        /\ \A c \in DOMAIN fs \ {b} : gs[c] = fs[c]
        /\ FileSize(gs[b]) = FileSize(fs[b]) + n
        /\ DiskOf(gs, B) = DiskOf(fs, B) + IF b \in B THEN n ELSE 0
    BY <1>4, <2>2, FileGrows
  <2>4. QED
    BY <2>1, <2>3
<1>8. files' \in [DOMAIN files -> Seq(Frame)] /\ DOMAIN files' = DOMAIN files
  BY <1>6, <1>7 DEF Files
<1>9. EndsGrow(files)'
  BY <1>6, <1>7 DEF EndsGrow
<1>10. ASSUME NEW c \in linked
       PROVE  FileSize(gs[c]) = FileSize(files[c]) + IF c = b THEN n ELSE 0
  <2>1. CASE c = b
    BY <1>7, <2>1
  <2>2. CASE c # b
    <3>1. gs[c] = files[c]
      BY <1>1, <1>7, <2>2
    <3>2. FileSize(files[c]) \in Nat
      BY <1>1, LengthsType
    <3>3. QED
      BY <2>2, <3>1, <3>2
  <2>3. QED
    BY <2>1, <2>2
<1>11. Disk' = DiskOf(gs, linked)
  BY <1>6 DEF Disk, DiskOf
<1>12. QED
  BY <1>1, <1>2, <1>6, <1>7, <1>8, <1>9, <1>10, <1>11

LEMMA DiskAppendWrite ==
  ASSUME CapHolds, DiskInv, TypeInv', AppendWrite
  PROVE  DiskInv'
<1>1. /\ apc = "write" /\ apc' = "evict" /\ linked' = linked /\ nextSeq' = nextSeq + 1
      /\ faults' = faults /\ WriteFrame(asize, TRUE)
      /\ segs' = [segs EXCEPT ![Len(segs)].bytes = @ + asize]
  BY DEF AppendWrite, hvars
<1>2. PICK D, A, K, M, l \in Nat :
           /\ D = Disk /\ A = Listed(segs, linked) /\ K = Slack /\ M = MaxTotal
           /\ l = LargestFrame /\ D <= A + K
           /\ apc # "evict" => D <= M + K
           /\ apc = "evict" => D <= M + K + l
  BY DiskValues
<1>3. PICK k \in Nat : k = asize /\ k \in Sizes /\ k <= l /\ segs[Len(segs)].bytes + k <= M
  BY <1>1, <1>2, LargestIs DEF DiskInv, Rotated
<1>4. segs # <<>> /\ segs \in Seq(Segment)
  BY <1>1, DiskTyped DEF DiskInv, TypeInv, NewestListed
<1>5. PICK n, s : n \in DOMAIN segs /\ n = Len(segs) /\ s = Grown(segs, n, k) /\ s = segs'
                  /\ Newest = segs[n].base
  BY <1>1, <1>3, <1>4, NewestFile DEF DiskInv, Newest, Grown
<1>6. /\ s \in Seq(Segment) /\ DOMAIN s = DOMAIN segs
      /\ s[n].bytes = segs[n].bytes + k
      /\ \A i \in DOMAIN segs : s[i].base = segs[i].base
  <2>1. PICK t, B : t = segs /\ B = {}
    OBVIOUS
  <2>2. t \in Seq(Segment) /\ n \in DOMAIN t /\ s = Grown(t, n, k)
    BY <1>4, <1>5, <2>1
  <2>3. /\ s \in Seq(Segment) /\ DOMAIN s = DOMAIN t
        /\ s[n].bytes = t[n].bytes + k
        /\ \A i \in DOMAIN t : s[i].base = t[i].base
    BY <2>2, ListedGrows
  <2>4. QED
    BY <2>1, <2>3
<1>7. ASSUME NEW B
       PROVE  /\ Newest \in B => Listed(s, B) = Listed(segs, B) + k
              /\ Newest \notin B => Listed(s, B) = Listed(segs, B)
  <2>1. PICK t : t = segs
    OBVIOUS
  <2>2. t \in Seq(Segment) /\ n \in DOMAIN t /\ s = Grown(t, n, k)
    BY <1>4, <1>5, <2>1
  <2>3. /\ t[n].base \in B => Listed(s, B) = Listed(t, B) + k
        /\ t[n].base \notin B => Listed(s, B) = Listed(t, B)
    BY <2>2, ListedGrows
  <2>4. QED
    BY <1>5, <2>1, <2>3
<1>8. Len(s) = n
  BY <1>4, <1>5, <1>6, LenProperties
<1>9. /\ EndsGrow(files)'
      /\ \A b \in linked : FileSize(files'[b]) = FileSize(files[b]) + IF b = Newest THEN k ELSE 0
      /\ Disk' = Disk + IF Newest \in linked THEN k ELSE 0
  BY <1>1, <1>3, <1>4, DiskWrite
<1>10. BasesBelow'
  <2>1. PICK N, z \in Nat : N = nextSeq /\ z = nextSeq' /\ N < z
    BY <1>1, DiskTyped DEF DiskInv
  <2>2. ASSUME NEW i \in DOMAIN s
        PROVE  s[i].base <= z /\ s[i].base < z
    <3>1. PICK x \in Nat : x = segs[i].base /\ x = s[i].base
      BY <1>6, SegmentFields DEF DiskInv, TypeInv
    <3>2. x <= N
      BY <1>6, <2>1, <3>1 DEF DiskInv, BasesBelow
    <3>3. QED
      BY <2>1, <3>1, <3>2
  <2>3. QED
    BY <1>5, <2>1, <2>2 DEF BasesBelow
<1>11. Covered'
  <2>1. ASSUME NEW b \in linked
        PROVE  Listed(s, {b}) <= FileSize(files'[b])
    <3>1. PICK x, y \in Nat : x = Listed(segs, {b}) /\ y = FileSize(files[b]) /\ x <= y
      <4>1. Listed(segs, {b}) \in Nat /\ FileSize(files[b]) \in Nat
        BY DiskTyped, LengthsType DEF DiskInv
      <4>2. QED
        BY <4>1 DEF DiskInv, Covered
    <3>2. CASE b = Newest
      <4>1. Listed(s, {b}) = x + k
        <5>1. PICK B : B = {b}
          OBVIOUS
        <5>2. Newest \in B
          BY <3>2, <5>1
        <5>3. Listed(s, B) = Listed(segs, B) + k
          BY <1>7, <5>2
        <5>4. QED
          BY <3>1, <5>1, <5>3
      <4>2. FileSize(files'[b]) = y + k
        BY <1>9, <3>1, <3>2
      <4>3. QED
        BY <3>1, <4>1, <4>2
    <3>3. CASE b # Newest
      <4>1. Listed(s, {b}) = x
        <5>1. PICK B : B = {b}
          OBVIOUS
        <5>2. Newest \notin B
          BY <3>3, <5>1
        <5>3. Listed(s, B) = Listed(segs, B)
          BY <1>7, <5>2
        <5>4. QED
          BY <3>1, <5>1, <5>3
      <4>2. FileSize(files'[b]) = y + 0
        BY <1>9, <3>1, <3>3
      <4>3. QED
        BY <3>1, <4>1, <4>2
    <3>4. QED
      BY <3>2, <3>3
  <2>2. QED
    BY <1>1, <1>5, <2>1 DEF Covered
<1>12. DiskListed' /\ AtMost'
  <2>1. PICK j \in Nat : j = (IF Newest \in linked THEN k ELSE 0) /\ j <= l
    BY <1>3
  <2>2. PICK d, a \in Nat : d = D + j /\ a = A + j
    OBVIOUS
  <2>3. d = Disk' /\ a = Listed(segs, linked)'
    <3>1. d = Disk'
      BY <1>2, <1>9, <2>1, <2>2
    <3>2. a = Listed(s, linked)
      <4>1. CASE Newest \in linked
        <5>1. Listed(s, linked) = A + k /\ j = k
          BY <1>2, <1>7, <2>1, <4>1
        <5>2. QED
          BY <2>2, <5>1
      <4>2. CASE Newest \notin linked
        <5>1. Listed(s, linked) = A /\ j = 0
          BY <1>2, <1>7, <2>1, <4>2
        <5>2. QED
          BY <2>2, <5>1
      <4>3. QED
        BY <4>1, <4>2
    <3>3. QED
      BY <1>1, <1>5, <3>1, <3>2
  <2>4. d <= a + K /\ d <= M + K + l
    BY <1>1, <1>2, <2>1, <2>2
  <2>5. Slack' = K /\ Added' = l
    BY <1>1, <1>2, SlackGrows, DiskTyped DEF DiskInv, Added
  <2>6. QED
    BY <1>2, <2>2, <2>3, <2>4, <2>5, DiskBound
<1>13. Rotated'
  BY <1>1, <1>2, <1>3, <1>5, <1>6, <1>8 DEF Rotated
<1>14. QED
  BY <1>9, <1>10, <1>11, <1>12, <1>13 DEF DiskInv

LEMMA DiskShortWrite ==
  ASSUME CapHolds, DiskInv, TypeInv', ShortWrite
  PROVE  DiskInv'
<1>1. /\ apc = "write" /\ apc' = "idle" /\ linked' = linked /\ nextSeq' = nextSeq /\ segs' = segs
      /\ faults' = faults + 1
      /\ UNCHANGED files \/ \E n \in 1..(asize - 1) : WriteFrame(n, FALSE)
  BY DEF ShortWrite, Fault
<1>2. PICK D, A, K, M, l \in Nat :
           /\ D = Disk /\ A = Listed(segs, linked) /\ K = Slack /\ M = MaxTotal
           /\ l = LargestFrame /\ D <= A + K
           /\ apc # "evict" => D <= M + K
           /\ apc = "evict" => D <= M + K + l
  BY DiskValues
<1>3. PICK k \in Nat : k = asize /\ k <= l
  BY <1>1, <1>2, LargestIs DEF DiskInv, Rotated
<1>4. BasesBelow' /\ Rotated'
  BY <1>1 DEF DiskInv, BasesBelow, Rotated
<1>5. PICK d \in Nat : d = Disk' /\ d <= D + l /\ EndsGrow(files)' /\ Covered'
  <2>1. CASE UNCHANGED files
    <3>1. Disk' = D
      BY <1>1, <1>2, <2>1 DEF Disk
    <3>2. EndsGrow(files)' /\ Covered'
      BY <1>1, <2>1 DEF DiskInv, EndsGrow, Covered
    <3>3. D \in Nat /\ D <= D + l
      OBVIOUS
    <3>4. QED
      BY <3>1, <3>2, <3>3
  <2>2. CASE \E n \in 1..(asize - 1) : WriteFrame(n, FALSE)
    <3>1. PICK n \in Nat : n <= l /\ WriteFrame(n, FALSE)
      <4>1. PICK n \in 1..(asize - 1) : WriteFrame(n, FALSE)
        BY <2>2
      <4>2. n \in Nat /\ n <= l
        BY <1>3, <4>1
      <4>3. QED
        BY <4>1, <4>2
    <3>2. segs # <<>>
      BY <1>1 DEF DiskInv, TypeInv, NewestListed
    <3>3. /\ EndsGrow(files)'
          /\ \A b \in linked : FileSize(files'[b]) = FileSize(files[b]) + IF b = Newest THEN n ELSE 0
          /\ Disk' = Disk + IF Newest \in linked THEN n ELSE 0
      BY <1>1, <3>1, <3>2, DiskWrite
    <3>4. ASSUME NEW b \in linked
          PROVE  Listed(segs, {b}) <= FileSize(files'[b])
      <4>1. PICK x, y \in Nat : x = Listed(segs, {b}) /\ y = FileSize(files[b]) /\ x <= y
        <5>1. Listed(segs, {b}) \in Nat /\ FileSize(files[b]) \in Nat
          BY DiskTyped, LengthsType DEF DiskInv
        <5>2. QED
          BY <5>1 DEF DiskInv, Covered
      <4>2. PICK j \in Nat : j = IF b = Newest THEN n ELSE 0
        OBVIOUS
      <4>3. FileSize(files'[b]) = y + j
        BY <3>3, <4>1, <4>2
      <4>4. QED
        BY <4>1, <4>3
    <3>5. Covered'
      BY <1>1, <3>4 DEF Covered
    <3>6. PICK j \in Nat : j = (IF Newest \in linked THEN n ELSE 0) /\ j <= l
      BY <3>1
    <3>7. Disk' = D + j
      BY <1>2, <3>3, <3>6
    <3>8. D + j \in Nat /\ D + j <= D + l
      BY <3>6
    <3>9. QED
      BY <3>3, <3>5, <3>7, <3>8
  <2>3. QED
    BY <1>1, <2>1, <2>2
<1>6. DiskListed' /\ AtMost'
  <2>1. PICK q \in Nat : q = K + l
    OBVIOUS
  <2>2. A = Listed(segs, linked)' /\ Slack' = q /\ Added' = 0
    BY <1>1, <1>2, <2>1, SlackGrows, DiskTyped DEF DiskInv, Added
  <2>3. D <= M + K
    BY <1>1, <1>2
  <2>4. d <= A + q /\ d <= M + q + 0
    BY <1>2, <1>5, <2>1, <2>3
  <2>5. QED
    BY <1>2, <1>5, <2>2, <2>4, DiskBound
<1>7. QED
  BY <1>4, <1>5, <1>6 DEF DiskInv

LEMMA DiskEvictOldest ==
  ASSUME CapHolds, DiskInv, TypeInv', EvictOldest
  PROVE  DiskInv'
<1>1. /\ apc = "evict" /\ apc' = apc /\ Len(segs) > 1 /\ nextSeq' = nextSeq /\ files' = files
      /\ faults' = faults /\ linked' = linked \ {segs[1].base} /\ segs' = Tail(segs)
  BY DEF EvictOldest, OverCap
<1>2. PICK D, A, K, M, l \in Nat :
           /\ D = Disk /\ A = Listed(segs, linked) /\ K = Slack /\ M = MaxTotal
           /\ l = LargestFrame /\ D <= A + K
           /\ apc # "evict" => D <= M + K
           /\ apc = "evict" => D <= M + K + l
  BY DiskValues
<1>3. PICK t, s, b, C : t = segs /\ s = Tail(t) /\ b = t[1].base /\ C = linked \ {b}
  OBVIOUS
<1>4. /\ t \in Seq(Segment) /\ t # <<>> /\ s \in Seq(Segment) /\ Len(t) \in Nat
      /\ Len(s) = Len(t) - 1 /\ DOMAIN s = 1..(Len(t) - 1) /\ DOMAIN t = 1..Len(t)
      /\ \A i \in DOMAIN s : s[i] = t[i + 1] /\ i + 1 \in DOMAIN t
  BY <1>1, <1>3, DiskTyped, HeadTailProperties, LenProperties, EmptySeq DEF DiskInv
<1>5. s = segs' /\ C = linked'
  BY <1>1, <1>3
<1>6. EndsGrow(files)'
  BY <1>1 DEF DiskInv, EndsGrow
<1>7. BasesBelow'
  <2>1. ASSUME NEW i \in DOMAIN s
        PROVE  s[i].base <= nextSeq /\ s[i].base < nextSeq
    <3>1. i + 1 \in DOMAIN segs /\ s[i].base = segs[i + 1].base
      BY <1>3, <1>4
    <3>2. PICK x : x = segs[i + 1].base
      OBVIOUS
    <3>3. x <= nextSeq /\ x < nextSeq
      BY <1>1, <3>1, <3>2 DEF DiskInv, BasesBelow
    <3>4. QED
      BY <3>1, <3>2, <3>3
  <2>2. QED
    BY <1>1, <1>5, <2>1 DEF BasesBelow
<1>8. ASSUME NEW B
      PROVE  /\ Listed(s, B) \in Nat /\ Listed(t, B) \in Nat /\ Listed(s, B) <= Listed(t, B)
             /\ b \notin B => Listed(s, B) = Listed(t, B)
  <2>1. Listed(s, B) \in Nat /\ Listed(t, B) \in Nat
    BY <1>4, ListedType
  <2>2. Listed(t, B) = Listed(s, B) + IF t[1].base \in B THEN t[1].bytes ELSE 0
    BY <1>3, <1>4, ListedTail
  <2>3. t[1].bytes \in Nat
    BY <1>4, ListedType
  <2>4. CASE b \in B
    BY <1>3, <2>1, <2>2, <2>3, <2>4
  <2>5. CASE b \notin B
    BY <1>3, <2>1, <2>2, <2>5
  <2>6. QED
    BY <2>4, <2>5
<1>9. Covered'
  <2>1. ASSUME NEW c \in C
        PROVE  Listed(s, {c}) <= FileSize(files[c])
    <3>1. Listed(t, {c}) <= FileSize(files[c])
      BY <1>3 DEF DiskInv, Covered
    <3>2. FileSize(files[c]) \in Nat
      BY <1>3, DiskTyped, LengthsType DEF DiskInv
    <3>3. PICK B : B = {c}
      OBVIOUS
    <3>4. Listed(s, B) <= Listed(t, B) /\ Listed(s, B) \in Nat /\ Listed(t, B) \in Nat
      BY <1>8
    <3>5. QED
      BY <3>1, <3>2, <3>3, <3>4
  <2>2. QED
    BY <1>1, <1>5, <2>1 DEF Covered
<1>10. PICK d, a \in Nat : d = DiskOf(files, C) /\ a = Listed(s, C) /\ d <= D /\ d <= a + K
  <2>1. Listed(s, C) = Listed(t, C) /\ Listed(s, C) \in Nat
    BY <1>3, <1>8
  <2>2. CASE b \in linked
    <3>1. A = Listed(t, C) + Listed(t, {b})
      BY <1>2, <1>3, <1>4, <2>2, ListedSplit
    <3>2. PICK x, y \in Nat : x = Listed(t, {b}) /\ y = FileSize(files[b]) /\ x <= y
      <4>1. Listed(segs, {b}) \in Nat /\ FileSize(files[b]) \in Nat
        BY <2>2, DiskTyped, LengthsType DEF DiskInv
      <4>2. QED
        BY <1>3, <2>2, <4>1 DEF DiskInv, Covered
    <3>3. PICK d \in Nat : d = DiskOf(files, C) /\ D = y + d
      <4>1. PICK v : v = Lengths(files)
        OBVIOUS
      <4>2. /\ IsFiniteSet(linked) /\ \A c \in linked : v[c] \in Nat /\ v[c] = FileSize(files[c])
        BY <4>1, DiskTyped, LengthsType DEF DiskInv
      <4>3. Total(v, linked) = v[b] + Total(v, linked \ {b})
        BY <2>2, <4>2, TotalSplit
      <4>4. linked \ {b} \in SUBSET linked
        OBVIOUS
      <4>5. Total(v, linked \ {b}) \in Nat
        BY <4>2, <4>4, TotalType
      <4>6. v[b] = y
        BY <2>2, <3>2, <4>2
      <4>7. QED
        BY <1>2, <1>3, <4>1, <4>3, <4>5, <4>6 DEF Disk, DiskOf
    <3>4. PICK a \in Nat : a = Listed(s, C) /\ A = a + x
      BY <2>1, <3>1, <3>2
    <3>5. d <= D /\ d <= a + K
      BY <1>2, <3>2, <3>3, <3>4
    <3>6. QED
      BY <3>3, <3>4, <3>5
  <2>3. CASE b \notin linked
    <3>1. C = linked
      BY <1>3, <2>3
    <3>2. DiskOf(files, C) = D /\ Listed(s, C) = A
      BY <1>2, <1>3, <2>1, <3>1 DEF Disk, DiskOf
    <3>3. QED
      BY <1>2, <3>2
  <2>4. QED
    BY <2>2, <2>3
<1>11. DiskListed' /\ AtMost'
  <2>1. d = Disk' /\ a = Listed(segs, linked)'
    BY <1>1, <1>5, <1>10 DEF Disk, DiskOf
  <2>2. Slack' = K /\ Added' = l
    BY <1>1, <1>2, SlackGrows, DiskTyped DEF DiskInv, Added
  <2>3. D <= M + K + l
    BY <1>1, <1>2
  <2>4. d <= M + K + l
    BY <1>10, <2>3
  <2>5. QED
    BY <1>2, <1>10, <2>1, <2>2, <2>4, DiskBound
<1>12. Rotated'
  <2>1. Len(s) \in DOMAIN s /\ Len(s) + 1 = Len(t)
    BY <1>1, <1>3, <1>4
  <2>2. s[Len(s)].bytes = t[Len(t)].bytes
    BY <1>4, <2>1
  <2>3. t[Len(t)].bytes <= M
    BY <1>1, <1>2, <1>3 DEF DiskInv, Rotated
  <2>4. QED
    BY <1>1, <1>2, <1>5, <2>2, <2>3 DEF Rotated
<1>13. QED
  BY <1>6, <1>7, <1>9, <1>11, <1>12 DEF DiskInv

LEMMA DiskAppendReturn ==
  ASSUME CapHolds, DiskInv, TypeInv', AppendReturn
  PROVE  DiskInv'
<1>1. /\ apc = "evict" /\ apc' = "idle" /\ ~OverCap /\ nextSeq' = nextSeq /\ files' = files
      /\ faults' = faults /\ linked' = linked /\ segs' = segs
  BY DEF AppendReturn, dvars
<1>2. PICK D, A, K, M, l \in Nat :
           /\ D = Disk /\ A = Listed(segs, linked) /\ K = Slack /\ M = MaxTotal
           /\ l = LargestFrame /\ D <= A + K
           /\ apc # "evict" => D <= M + K
           /\ apc = "evict" => D <= M + K + l
  BY DiskValues
<1>3. EndsGrow(files)' /\ BasesBelow' /\ Covered' /\ Rotated'
  BY <1>1 DEF DiskInv, EndsGrow, BasesBelow, Covered, Rotated
<1>4. A <= M
  <2>1. segs \in Seq(Segment) /\ DOMAIN segs = 1..Len(segs) /\ Len(segs) \in Nat
    BY DiskTyped, LenProperties DEF DiskInv
  <2>2. PICK T \in Nat : T = TotalBytes /\ A <= T
    <3>1. TotalBytes = Total(Bytes(segs), DOMAIN segs)
      BY <2>1, TotalBytesIs
    <3>2. linked \in SUBSET linked
      OBVIOUS
    <3>3. A <= Total(Bytes(segs), DOMAIN segs)
      BY <1>2, <2>1, <3>2, ListedMonotone
    <3>4. Total(Bytes(segs), DOMAIN segs) \in Nat
      <4>1. IsFiniteSet(DOMAIN segs) /\ \A i \in DOMAIN segs : Bytes(segs)[i] \in Nat
        BY <2>1, ListedType
      <4>2. DOMAIN segs \in SUBSET DOMAIN segs
        OBVIOUS
      <4>3. QED
        BY <4>1, <4>2, TotalType
    <3>5. QED
      BY <3>1, <3>3, <3>4
  <2>3. CASE T <= M
    BY <2>2, <2>3
  <2>4. CASE T > M
    <3>1. Len(segs) = 1
      <4>1. ~(Len(segs) > 1)
        BY <1>1, <1>2, <2>2, <2>4 DEF OverCap
      <4>2. segs # <<>>
        BY <1>1 DEF DiskInv, TypeInv, NewestListed
      <4>3. Len(segs) # 0
        BY <2>1, <4>2, EmptySeq
      <4>4. QED
        BY <2>1, <4>1, <4>3
    <3>2. T = segs[1].bytes
      <4>1. PICK v : v = Bytes(segs)
        OBVIOUS
      <4>2. v[1] = segs[1].bytes /\ v[1] \in Nat /\ DOMAIN segs = {1}
        BY <2>1, <3>1, <4>1, ListedType
      <4>3. Total(v, {1}) = v[1]
        BY <4>2, TotalOfOne
      <4>4. QED
        BY <2>1, <2>2, <4>1, <4>2, <4>3, TotalBytesIs
    <3>3. segs[Len(segs)].bytes <= M
      BY <1>1, <1>2 DEF DiskInv, Rotated
    <3>4. QED
      BY <2>2, <3>1, <3>2, <3>3
  <2>5. QED
    BY <1>2, <2>2, <2>3, <2>4
<1>5. DiskListed' /\ AtMost'
  <2>1. D = Disk' /\ A = Listed(segs, linked)'
    BY <1>1, <1>2 DEF Disk
  <2>2. Slack' = K /\ Added' = 0
    BY <1>1, <1>2, SlackGrows, DiskTyped DEF DiskInv, Added
  <2>3. D <= A + K /\ D <= M + K + 0
    BY <1>2, <1>4
  <2>4. QED
    BY <1>2, <2>1, <2>2, <2>3, DiskBound
<1>6. QED
  BY <1>3, <1>5 DEF DiskInv

\* A restart lists what is there: at most what was, or one fragment more.
LEMMA DiskRestart ==
  ASSUME CapHolds, DiskInv, TypeInv', NEW fs, fs = files',
         fs \in [DOMAIN files -> Seq(Frame)], EndsGrow(fs), Reopen(fs, offset),
         faults' = faults + 1, NEW f \in Nat, DiskOf(fs, linked) <= Disk + f,
         f <= LargestFrame, apc = "evict" => f = 0
  PROVE  DiskInv'
<1>1. PICK D, A, K, M, l \in Nat :
           /\ D = Disk /\ A = Listed(segs, linked) /\ K = Slack /\ M = MaxTotal
           /\ l = LargestFrame /\ D <= A + K
           /\ apc # "evict" => D <= M + K
           /\ apc = "evict" => D <= M + K + l
  BY DiskValues
<1>2. /\ segs' \in Seq(Segment) /\ nextSeq' \in Nat
      /\ linked' = linked /\ apc' = "idle"
      /\ \A i \in DOMAIN segs' : segs'[i].base \in linked /\ segs'[i].base <= nextSeq'
      /\ \A b \in linked : Listed(segs', {b}) = FileSize(fs[b])
      /\ Listed(segs', linked) = DiskOf(fs, linked)
  <2>1. offset \in Nat /\ TypeInv
    BY DEF DiskInv, TypeInv, TypeOK
  <2>2. DOMAIN files' = DOMAIN files
    OBVIOUS
  <2>3. QED
    BY <2>1, <2>2, ReopenAccounts
<1>3. EndsGrow(files)'
  BY DEF EndsGrow
<1>4. BasesBelow' /\ Rotated'
  BY <1>2 DEF BasesBelow, Rotated
<1>5. Files(fs) /\ DOMAIN fs = DOMAIN files /\ linked \in SUBSET DOMAIN fs /\ IsFiniteSet(linked)
  BY DiskTyped DEF DiskInv, Files
<1>6. Covered'
  <2>1. \A b \in linked : FileSize(fs[b]) \in Nat
    BY <1>5, LengthsType
  <2>2. ASSUME NEW b \in linked
        PROVE  Listed(segs', {b}) <= FileSize(fs[b])
    <3>1. PICK x \in Nat : x = FileSize(fs[b]) /\ x = Listed(segs', {b})
      BY <1>2, <2>1
    <3>2. x <= x
      OBVIOUS
    <3>3. QED
      BY <3>1, <3>2
  <2>3. QED
    BY <1>2, <2>2 DEF Covered
<1>7. DiskListed' /\ AtMost'
  <2>1. PICK d, q \in Nat : d = DiskOf(fs, linked) /\ q = K + l
    BY <1>5, LengthsType
  <2>2. d <= D + f /\ f <= l
    BY <1>1, <2>1
  <2>3. d = Disk' /\ d = Listed(segs, linked)'
    BY <1>2, <2>1 DEF Disk, DiskOf
  <2>4. q = Slack' /\ Added' = 0
    BY <1>1, <1>2, <2>1, SlackGrows, DiskTyped DEF DiskInv, Added
  <2>5. d <= M + q + 0
    <3>1. CASE apc = "evict"
      BY <1>1, <2>1, <2>2, <3>1
    <3>2. CASE apc # "evict"
      BY <1>1, <2>1, <2>2, <3>2
    <3>3. QED
      BY <3>1, <3>2
  <2>6. d <= d + q
    OBVIOUS
  <2>7. QED
    BY <1>1, <2>1, <2>3, <2>4, <2>5, <2>6, DiskBound
<1>8. QED
  BY <1>3, <1>4, <1>6, <1>7 DEF DiskInv

LEMMA DiskKill ==
  ASSUME CapHolds, DiskInv, TypeInv', Kill
  PROVE  DiskInv'
<1>1. files' = files /\ Reopen(files, offset) /\ faults' = faults + 1
  BY DEF Kill, Fault
<1>2. PICK fs : fs = files
  OBVIOUS
<1>3. /\ fs = files' /\ fs \in [DOMAIN files -> Seq(Frame)] /\ EndsGrow(fs) /\ Reopen(fs, offset)
  BY <1>1, <1>2 DEF DiskInv, TypeInv, TypeOK
<1>4. Disk \in Nat /\ DiskOf(fs, linked) = Disk
  BY <1>2, DiskTyped DEF DiskInv
<1>5. 0 \in Nat /\ DiskOf(fs, linked) <= Disk + 0 /\ 0 <= LargestFrame
  BY <1>4, LargestIs
<1>6. QED
  BY <1>1, <1>3, <1>5, DiskRestart

LEMMA DiskKillTorn ==
  ASSUME CapHolds, DiskInv, TypeInv', KillTorn
  PROVE  DiskInv'
<1>1. apc = "write" /\ faults' = faults + 1 /\ Reopen(files', offset)
  BY DEF KillTorn, Fault
<1>2. PICK n \in 1..(asize - 1) : WriteFrame(n, FALSE)
  BY DEF KillTorn
<1>3. n \in Nat /\ n <= LargestFrame
  <2>1. PICK k, l \in Nat : k = asize /\ k <= l /\ l = LargestFrame
    BY <1>1, LargestIs DEF DiskInv, Rotated
  <2>2. QED
    BY <1>2, <2>1
<1>4. segs # <<>> /\ linked' = linked
  BY <1>1 DEF DiskInv, TypeInv, NewestListed, Reopen
<1>5. /\ files' \in [DOMAIN files -> Seq(Frame)] /\ EndsGrow(files)'
      /\ Disk' = Disk + IF Newest \in linked THEN n ELSE 0
  BY <1>2, <1>3, <1>4, DiskWrite
<1>6. PICK fs : fs = files'
  OBVIOUS
<1>7. fs \in [DOMAIN files -> Seq(Frame)] /\ EndsGrow(fs) /\ Reopen(fs, offset)
  BY <1>1, <1>5, <1>6 DEF EndsGrow
<1>8. DiskOf(fs, linked) <= Disk + n
  <2>1. PICK D, d \in Nat : D = Disk /\ d = IF Newest \in linked THEN n ELSE 0
    BY <1>3, DiskTyped DEF DiskInv
  <2>2. DiskOf(fs, linked) = D + d
    BY <1>4, <1>5, <1>6, <2>1 DEF Disk, DiskOf
  <2>3. D + d <= D + n
    BY <1>3, <2>1
  <2>4. QED
    BY <2>1, <2>2, <2>3
<1>9. QED
  BY <1>1, <1>3, <1>6, <1>7, <1>8, DiskRestart

LEMMA DiskPowerLoss ==
  ASSUME CapHolds, DiskInv, TypeInv', PowerLoss
  PROVE  DiskInv'
<1>1. segs # <<>> /\ faults' = faults + 1 /\ Reopen(files', offset)
  BY DEF PowerLoss, Fault
<1>2. PICK n \in synced..Len(files[Newest]) :
        files' = [files EXCEPT ![Newest] = SubSeq(@, 1, n)]
  BY DEF PowerLoss
<1>3. PICK b \in DOMAIN files : b = Newest /\ Len(files[b]) \in Nat
  BY <1>1, NewestFile DEF DiskInv
<1>4. n \in Nat /\ n <= Len(files[b])
  <2>1. synced \in Nat
    BY DEF DiskInv, TypeInv, TypeOK
  <2>2. QED
    BY <1>2, <1>3, <2>1
<1>5. PICK fs, gs, B : fs = files /\ gs = With(fs, b, SubSeq(fs[b], 1, n)) /\ B = linked
  OBVIOUS
<1>6. gs = files'
  BY <1>2, <1>3, <1>5 DEF With
<1>7. /\ Files(fs) /\ EndsGrow(fs) /\ b \in DOMAIN fs /\ n <= Len(fs[b])
      /\ B \in SUBSET DOMAIN fs /\ IsFiniteSet(B)
  BY <1>3, <1>4, <1>5, DiskTyped DEF DiskInv
<1>8. /\ Files(gs) /\ DOMAIN gs = DOMAIN fs /\ EndsGrow(gs)
      /\ DiskOf(gs, B) <= DiskOf(fs, B)
  BY <1>4, <1>5, <1>7, FileShrinks
<1>9. gs \in [DOMAIN files -> Seq(Frame)]
  BY <1>5, <1>8 DEF Files
<1>10. 0 \in Nat /\ DiskOf(gs, linked) <= Disk + 0 /\ 0 <= LargestFrame
  <2>1. PICK D \in Nat : D = Disk /\ D = DiskOf(files, linked)
    BY DiskTyped DEF DiskInv
  <2>2. DiskOf(gs, linked) <= D
    BY <1>5, <1>8, <2>1
  <2>3. D + 0 = D
    OBVIOUS
  <2>4. QED
    BY <2>1, <2>2, <2>3, LargestIs
<1>11. QED
  BY <1>1, <1>6, <1>8, <1>9, <1>10, DiskRestart

LEMMA NextDiskInv == CapHolds /\ DiskInv /\ [Next]_vars => DiskInv'
<1> SUFFICES ASSUME CapHolds, DiskInv, [Next]_vars
             PROVE  DiskInv'
  OBVIOUS
<1>1. TypeInv'
  BY NextTypeInv DEF DiskInv
<1>2. ASSUME NEW size \in Sizes, AppendBegin(size) PROVE DiskInv'
  BY <1>1, <1>2, DiskAppendBegin
<1>3. ASSUME NEW size \in Sizes, RotateFails(size) PROVE DiskInv'
  BY <1>1, <1>3, DiskAlone DEF RotateFails, Fault
<1>4. CASE AppendWrite
  BY <1>1, <1>4, DiskAppendWrite
<1>5. CASE ShortWrite
  BY <1>1, <1>5, DiskShortWrite
<1>6. CASE EvictOldest
  BY <1>1, <1>6, DiskEvictOldest
<1>7. CASE AppendReturn
  BY <1>1, <1>7, DiskAppendReturn
<1>8. CASE Close
  BY <1>1, <1>8, DiskAlone DEF Close, hvars
<1>9. CASE ReadFrame
  BY <1>1, <1>9, DiskAlone DEF ReadFrame, jvars, dvars
<1>10. CASE NoFrame
  BY <1>1, <1>10, DiskAlone DEF NoFrame, jvars, dvars, hvars
<1>11. CASE DecodeError
  BY <1>1, <1>11, DiskAlone DEF DecodeError, jvars, dvars, hvars
<1>12. CASE Snapshot
  BY <1>1, <1>12, DiskAlone DEF Snapshot, jvars, dvars, hvars
<1>13. CASE OpenSegment
  BY <1>1, <1>13, DiskAlone DEF OpenSegment, jvars, dvars, hvars
<1>14. CASE Wake
  BY <1>1, <1>14, DiskAlone DEF Wake, dvars, hvars
<1>15. CASE WaitExpires
  BY <1>1, <1>15, DiskAlone DEF WaitExpires, jvars, dvars, hvars
<1>16. CASE Commit
  BY <1>1, <1>16, DiskAlone DEF Commit, dvars
<1>17. CASE SaveOffset
  BY <1>1, <1>17, DiskAlone DEF SaveOffset, jvars
<1>18. CASE SaveOffsetFails
  BY <1>1, <1>18, DiskAlone DEF SaveOffsetFails, Fault, jvars, dvars
<1>19. CASE Kill
  BY <1>1, <1>19, DiskKill
<1>20. CASE KillTorn
  BY <1>1, <1>20, DiskKillTorn
<1>21. CASE PowerLoss
  BY <1>1, <1>21, DiskPowerLoss
<1>22. CASE UNCHANGED vars
  BY <1>1, <1>22, DiskAlone DEF vars, jvars, dvars, hvars
<1>23. QED
  BY <1>2, <1>3, <1>4, <1>5, <1>6, <1>7, <1>8, <1>9, <1>10, <1>11, <1>12, <1>13, <1>14,
     <1>15, <1>16, <1>17, <1>18, <1>19, <1>20, <1>21, <1>22 DEF Next

\* What DiskInv says of the directory between two Appends.
LEMMA DiskIsBounded == CapHolds /\ DiskInv => DiskBounded
<1> SUFFICES ASSUME CapHolds, DiskInv, apc = "idle"
             PROVE  DiskBytes <= MaxTotal + faults * LargestFrame
  BY DEF DiskBounded
<1>1. PICK D, A, K, M, l \in Nat :
           /\ D = Disk /\ A = Listed(segs, linked) /\ K = Slack /\ M = MaxTotal
           /\ l = LargestFrame /\ D <= A + K
           /\ apc # "evict" => D <= M + K
           /\ apc = "evict" => D <= M + K + l
  BY DiskValues
<1>2. D <= M + K
  BY <1>1
<1>3. DiskBytes = D
  BY <1>1, DiskBytesIs DEF DiskInv
<1>4. QED
  BY <1>1, <1>2, <1>3 DEF Slack

\* Whatever is evicted, rotated, torn or lost, and whenever the process is killed, between
\* two Appends the directory holds no more than the cap and one frame for each fault
\* (journal.go:6-9), provided that one segment and one frame fit the cap.
THEOREM DiskStaysBounded == CapHolds /\ Spec => []DiskBounded
<1> SUFFICES ASSUME CapHolds
             PROVE  Spec => []DiskBounded
  OBVIOUS
<1>1. Init => DiskInv
  BY InitDiskInv
<1>2. DiskInv /\ [Next]_vars => DiskInv'
  BY NextDiskInv
<1>3. DiskInv => DiskBounded
  BY DiskIsBounded
<1>4. QED
  BY <1>1, <1>2, <1>3, PTL DEF Spec

-----------------------------------------------------------------------------
(* What fragments do, when nothing is evicted: DamageConfined.              *)
(*                                                                          *)
(* Writes may be cut short here, and the process killed in one, so a file   *)
(* may hold fragments, two records may have one sequence number, and a      *)
(* segment may be listed twice.  What holds of the frames then holds of     *)
(* those that can be parsed.                                                *)

\* The frames that can be parsed ascend, within a file and from file to file, from the
\* file's base on and below n.
FramesOrdered(fs, n) ==
  \A b \in DOMAIN fs : \A i \in DOMAIN fs[b] : Reachable(fs[b], i) =>
    /\ b <= fs[b][i].seq /\ fs[b][i].seq < n
    /\ \A c \in DOMAIN fs : b < c => fs[b][i].seq < c
    /\ \A k \in DOMAIN fs[b] : Reachable(fs[b], k) /\ i < k => fs[b][i].seq < fs[b][k].seq

\* The first fragment of a file, which highestSeq may take for a record, was written
\* after what lies before it.
FragmentLast(fs) ==
  \A b \in DOMAIN fs : \A i \in DOMAIN fs[b] :
    (\A k \in 1..(i - 1) : fs[b][k].full) => \A k \in 1..(i - 1) : fs[b][k].seq < fs[b][i].seq

\* The next process will find a sequence number of x or above it, in a name or a frame.
Held(fs, x) ==
  \/ x = 0
  \/ \E b \in DOMAIN fs : \/ x <= b
                          \/ \E i \in DOMAIN fs[b] : Reachable(fs[b], i) /\ x <= fs[b][i].seq + 1

\* The records below x that can be parsed are in S.
Passed(fs, x, S) ==
  \A b \in DOMAIN fs : \A i \in DOMAIN fs[b] :
    Reachable(fs[b], i) /\ fs[b][i].seq < x => fs[b][i].id \in S

HasFrame(fs, id) == \E b \in DOMAIN fs : \E i \in DOMAIN fs[b] : fs[b][i].id = id

\* A reader at offset n of file b, with next sequence x, has read what is below x.
ReadUpTo(fs, b, n, x) ==
  /\ b \in DOMAIN fs /\ n <= Len(fs[b]) /\ b <= x
  /\ \A k \in 1..n : fs[b][k].full
  /\ \A i \in DOMAIN fs[b] : Reachable(fs[b], i) => (fs[b][i].seq < x <=> i <= n)

\* A file in which e was written at the end, and one that was created.
Wrote(fs, gs, b, e) ==
  /\ b \in DOMAIN fs /\ DOMAIN gs = DOMAIN fs
  /\ \A c \in DOMAIN fs : c # b => gs[c] = fs[c]
  /\ Len(gs[b]) = Len(fs[b]) + 1
  /\ \A i \in DOMAIN fs[b] : gs[b][i] = fs[b][i]
  /\ gs[b][Len(fs[b]) + 1] = e

Opened(fs, gs, n) ==
  /\ DOMAIN gs = DOMAIN fs \cup {n}
  /\ \A c \in DOMAIN fs : gs[c] = fs[c]
  /\ n \notin DOMAIN fs => gs[n] = <<>>

LEMMA FilesTyped ==
  ASSUME NEW fs, Files(fs), NEW b \in DOMAIN fs
  PROVE  /\ fs[b] \in Seq(Frame) /\ Len(fs[b]) \in Nat /\ DOMAIN fs[b] = 1..Len(fs[b])
         /\ \A i \in DOMAIN fs[b] : fs[b][i].seq \in Nat /\ fs[b][i].id \in Nat
<1>1. fs[b] \in Seq(Frame)
  BY DEF Files
<1>2. Len(fs[b]) \in Nat /\ DOMAIN fs[b] = 1..Len(fs[b])
  BY <1>1, LenProperties
<1>3. \A i \in DOMAIN fs[b] : fs[b][i].seq \in Nat /\ fs[b][i].id \in Nat
  BY <1>1, FrameFields
<1>4. QED
  BY <1>1, <1>2, <1>3

\* What can be parsed in one file is what lies before its first fragment.
LEMMA ReachesBelow ==
  ASSUME NEW f \in Seq(Frame), NEW i, Reachable(f, i), NEW k \in DOMAIN f, k <= i
  PROVE  Reachable(f, k)
<1>1. DOMAIN f = 1..Len(f) /\ Len(f) \in Nat
  BY LenProperties
<1>2. i \in 1..Len(f) /\ k \in 1..Len(f)
  BY <1>1 DEF Reachable
<1>3. \A m \in 1..k : m \in 1..i
  BY <1>2
<1>4. QED
  BY <1>3 DEF Reachable

LEMMA WroteReaches ==
  ASSUME NEW fs, Files(fs), NEW gs, Files(gs), NEW b, NEW e, Wrote(fs, gs, b, e),
         NEW c \in DOMAIN fs
  PROVE  /\ \A i : Reachable(fs[c], i) =>
              /\ i \in DOMAIN fs[c] /\ i \in DOMAIN gs[c]
              /\ Reachable(gs[c], i) /\ gs[c][i] = fs[c][i]
         /\ \A i : Reachable(gs[c], i) =>
              \/ i \in DOMAIN fs[c] /\ Reachable(fs[c], i) /\ gs[c][i] = fs[c][i]
              \/ /\ c = b /\ gs[c][i] = e /\ e.full /\ i = Len(fs[c]) + 1
                 /\ \A k \in DOMAIN fs[c] : k < i /\ Reachable(fs[c], k)
<1>1. CASE c # b
  BY <1>1 DEF Wrote, Reachable
<1>2. CASE c = b
  <2>1. PICK f, g : f = fs[c] /\ g = gs[c]
    OBVIOUS
  <2>2. PICK L \in Nat : L = Len(f) /\ DOMAIN f = 1..L
    BY <2>1, FilesTyped
  <2>3. DOMAIN g = 1..(L + 1) /\ (\A i \in 1..L : g[i] = f[i]) /\ g[L + 1] = e
    BY <1>2, <2>1, <2>2, FilesTyped DEF Wrote
  <2>4. ASSUME NEW i, Reachable(f, i)
        PROVE  i \in DOMAIN f /\ i \in DOMAIN g /\ Reachable(g, i) /\ g[i] = f[i]
    <3>1. i \in 1..L /\ \A k \in 1..i : f[k].full /\ k \in 1..L
      BY <2>2, <2>4 DEF Reachable
    <3>2. i \in 1..(L + 1)
      BY <3>1
    <3>3. QED
      BY <2>2, <2>3, <3>1, <3>2 DEF Reachable
  <2>5. ASSUME NEW i, Reachable(g, i)
        PROVE  \/ i \in DOMAIN f /\ Reachable(f, i) /\ g[i] = f[i]
               \/ /\ g[i] = e /\ e.full /\ i = L + 1
                  /\ \A k \in DOMAIN f : k < i /\ Reachable(f, k)
    <3>1. i \in 1..(L + 1) /\ (\A k \in 1..i : g[k].full) /\ i \in 1..i
      BY <2>3, <2>5 DEF Reachable
    <3>2. CASE i \in 1..L
      <4>1. \A k \in 1..i : k \in 1..L
        BY <3>2
      <4>2. QED
        BY <2>2, <2>3, <3>1, <3>2, <4>1 DEF Reachable
    <3>3. CASE i = L + 1
      <4>1. \A k \in 1..L : k < i /\ k \in 1..i /\ \A m \in 1..k : m \in 1..L /\ m \in 1..i
        BY <3>3
      <4>2. \A k \in 1..L : k < i /\ Reachable(f, k)
        BY <2>2, <2>3, <3>1, <4>1 DEF Reachable
      <4>3. QED
        BY <2>2, <2>3, <3>1, <3>3, <4>2
    <3>4. QED
      BY <3>1, <3>2, <3>3
  <2>6. QED
    BY <1>2, <2>1, <2>2, <2>4, <2>5
<1>3. QED
  BY <1>1, <1>2

\* A frame or a fragment of number n, above every base, keeps the order.
LEMMA WroteOrdered ==
  ASSUME NEW fs, Files(fs), NEW gs, Files(gs), NEW b, NEW e, Wrote(fs, gs, b, e),
         NEW n \in Nat, e.seq = n, DOMAIN fs \subseteq Nat,
         \A c \in DOMAIN fs : c <= b, b <= n, FramesOrdered(fs, n)
  PROVE  FramesOrdered(gs, n + 1) /\ (~e.full => FramesOrdered(gs, n))
<1>1. b \in DOMAIN fs /\ DOMAIN gs = DOMAIN fs /\ b \in Nat
  BY DEF Wrote
<1>2. ASSUME NEW c \in DOMAIN fs, NEW i, Reachable(fs[c], i)
      PROVE  /\ i \in DOMAIN fs[c] /\ fs[c][i].seq \in Nat
             /\ c <= fs[c][i].seq /\ fs[c][i].seq < n
             /\ \A d \in DOMAIN fs : c < d => fs[c][i].seq < d
             /\ \A k : Reachable(fs[c], k) /\ i < k => fs[c][i].seq < fs[c][k].seq
  <2>1. i \in DOMAIN fs[c]
    BY <1>2 DEF Reachable
  <2>2. \A k : Reachable(fs[c], k) => k \in DOMAIN fs[c]
    BY DEF Reachable
  <2>3. QED
    BY <1>2, <2>1, <2>2, FilesTyped DEF FramesOrdered
<1>3. ASSUME NEW c \in DOMAIN fs, NEW i, Reachable(gs[c], i)
      PROVE  /\ c <= gs[c][i].seq /\ gs[c][i].seq \in Nat
             /\ gs[c][i].seq < n \/ (e.full /\ gs[c][i].seq = n)
             /\ \A d \in DOMAIN fs : c < d => gs[c][i].seq < d
             /\ \A k : Reachable(gs[c], k) /\ i < k => gs[c][i].seq < gs[c][k].seq
  <2>1. CASE i \in DOMAIN fs[c] /\ Reachable(fs[c], i) /\ gs[c][i] = fs[c][i]
    <3>1. ASSUME NEW k, Reachable(gs[c], k), i < k
          PROVE  gs[c][i].seq < gs[c][k].seq
      <4>1. \/ Reachable(fs[c], k) /\ gs[c][k] = fs[c][k]
            \/ gs[c][k] = e
        BY <3>1, WroteReaches
      <4>2. QED
        BY <1>2, <2>1, <3>1, <4>1
    <3>2. QED
      BY <1>2, <2>1, <3>1
  <2>2. CASE /\ c = b /\ gs[c][i] = e /\ e.full /\ i = Len(fs[c]) + 1
             /\ \A k \in DOMAIN fs[c] : k < i /\ Reachable(fs[c], k)
    <3>1. \A k : Reachable(gs[c], k) => ~(i < k)
      <4> SUFFICES ASSUME NEW k, Reachable(gs[c], k)
                   PROVE  ~(i < k)
        OBVIOUS
      <4>1. Len(fs[c]) \in Nat /\ DOMAIN fs[c] = 1..Len(fs[c])
        BY FilesTyped
      <4>2. k \in DOMAIN fs[c] \/ k = Len(fs[c]) + 1
        BY WroteReaches
      <4>3. QED
        BY <2>2, <4>1, <4>2
    <3>2. \A d \in DOMAIN fs : ~(c < d)
      BY <1>1, <2>2
    <3>3. QED
      BY <1>1, <2>2, <3>1, <3>2
  <2>3. QED
    BY <1>3, <2>1, <2>2, WroteReaches
<1>4. QED
  BY <1>1, <1>3 DEF FramesOrdered

LEMMA WroteFragment ==
  ASSUME NEW fs, Files(fs), NEW gs, Files(gs), NEW b, NEW e, Wrote(fs, gs, b, e),
         NEW n \in Nat, e.seq = n, FramesOrdered(fs, n), FragmentLast(fs)
  PROVE  FragmentLast(gs)
<1> SUFFICES ASSUME NEW c \in DOMAIN gs, NEW i \in DOMAIN gs[c],
                    \A k \in 1..(i - 1) : gs[c][k].full
             PROVE  \A k \in 1..(i - 1) : gs[c][k].seq < gs[c][i].seq
  BY DEF FragmentLast
<1>1. c \in DOMAIN fs
  BY DEF Wrote
<1>2. CASE c # b
  BY <1>1, <1>2 DEF Wrote, FragmentLast
<1>3. CASE c = b
  <2>1. PICK L \in Nat : L = Len(fs[c]) /\ DOMAIN fs[c] = 1..L
    BY <1>1, FilesTyped
  <2>2. DOMAIN gs[c] = 1..(L + 1) /\ (\A k \in 1..L : gs[c][k] = fs[c][k]) /\ gs[c][L + 1] = e
    <3>1. DOMAIN gs[c] = 1..Len(gs[c]) /\ Len(gs[c]) \in Nat
      BY FilesTyped
    <3>2. Len(gs[c]) = L + 1 /\ (\A k \in 1..L : gs[c][k] = fs[c][k]) /\ gs[c][L + 1] = e
      BY <1>1, <1>3, <2>1 DEF Wrote
    <3>3. QED
      BY <3>1, <3>2
  <2>3. i \in 1..(L + 1) /\ \A k \in 1..(i - 1) : k \in 1..L /\ k \in 1..(i - 1)
    BY <2>2
  <2>4. CASE i \in 1..L
    BY <1>1, <2>1, <2>2, <2>3, <2>4 DEF FragmentLast
  <2>5. CASE i = L + 1
    <3>1. \A k \in 1..(i - 1) : \A m \in 1..k : m \in 1..(i - 1)
      BY <2>5
    <3>2. \A k \in 1..(i - 1) : Reachable(fs[c], k)
      BY <2>1, <2>2, <2>3, <3>1 DEF Reachable
    <3>3. \A k \in 1..(i - 1) : fs[c][k].seq < n
      BY <1>1, <2>1, <2>3, <3>2 DEF FramesOrdered
    <3>4. QED
      BY <2>2, <2>3, <2>5, <3>3
  <2>6. QED
    BY <2>3, <2>4, <2>5
<1>4. QED
  BY <1>2, <1>3

\* What was there before a write, of a frame or a fragment, is there after it.
LEMMA WroteKeeps ==
  ASSUME NEW fs, Files(fs), NEW gs, Files(gs), NEW b, NEW e, Wrote(fs, gs, b, e)
  PROVE  /\ \A x : Held(fs, x) => Held(gs, x)
         /\ \A x, S : ~(e.seq < x) /\ Passed(fs, x, S) => Passed(gs, x, S)
         /\ \A id : HasFrame(fs, id) => HasFrame(gs, id)
         /\ HasFrame(gs, e.id)
<1>1. b \in DOMAIN fs /\ DOMAIN gs = DOMAIN fs
  BY DEF Wrote
<1>2. ASSUME NEW x, Held(fs, x)
      PROVE  Held(gs, x)
  <2>1. CASE \E c \in DOMAIN fs : \E i \in DOMAIN fs[c] : Reachable(fs[c], i) /\ x <= fs[c][i].seq + 1
    BY <1>1, <2>1, WroteReaches DEF Held
  <2>2. QED
    BY <1>1, <1>2, <2>1 DEF Held
<1>3. ASSUME NEW x, NEW S, ~(e.seq < x), Passed(fs, x, S)
      PROVE  Passed(gs, x, S)
  BY <1>1, <1>3, WroteReaches DEF Passed
<1>4. ASSUME NEW id, HasFrame(fs, id)
      PROVE  HasFrame(gs, id)
  <2>1. PICK c \in DOMAIN fs : \E i \in DOMAIN fs[c] : fs[c][i].id = id
    BY <1>4 DEF HasFrame
  <2>2. PICK i \in DOMAIN fs[c] : fs[c][i].id = id
    BY <2>1
  <2>3. i \in DOMAIN gs[c] /\ gs[c][i] = fs[c][i]
    <3>1. CASE c # b
      BY <3>1 DEF Wrote
    <3>2. CASE c = b
      <4>1. PICK L \in Nat : L = Len(fs[c]) /\ DOMAIN fs[c] = 1..L
        BY FilesTyped
      <4>2. DOMAIN gs[c] = 1..(L + 1)
        BY <1>1, <3>2, <4>1, FilesTyped DEF Wrote
      <4>3. QED
        BY <3>2, <4>1, <4>2 DEF Wrote
    <3>3. QED
      BY <3>1, <3>2
  <2>4. QED
    BY <1>1, <2>2, <2>3 DEF HasFrame
<1>5. HasFrame(gs, e.id)
  <2>1. PICK L \in Nat : L = Len(fs[b])
    BY <1>1, FilesTyped
  <2>2. L + 1 \in DOMAIN gs[b] /\ gs[b][L + 1] = e
    BY <1>1, <2>1, FilesTyped DEF Wrote
  <2>3. QED
    BY <1>1, <2>2 DEF HasFrame
<1>6. QED
  BY <1>2, <1>3, <1>4, <1>5

LEMMA WroteUnread ==
  ASSUME NEW fs, Files(fs), NEW gs, Files(gs), NEW b, NEW e, Wrote(fs, gs, b, e),
         NEW c, NEW n \in Nat, NEW x, ~(e.seq < x), ReadUpTo(fs, c, n, x)
  PROVE  ReadUpTo(gs, c, n, x)
<1>1. b \in DOMAIN fs /\ DOMAIN gs = DOMAIN fs /\ c \in DOMAIN fs /\ c <= x
  BY DEF Wrote, ReadUpTo
<1>2. PICK L \in Nat : L = Len(fs[c]) /\ DOMAIN fs[c] = 1..L
  BY <1>1, FilesTyped
<1>3. n <= L /\ \A k \in 1..n : fs[c][k].full /\ k \in 1..L
  BY <1>2 DEF ReadUpTo
<1>4. L <= Len(gs[c]) /\ (\A k \in 1..L : gs[c][k] = fs[c][k]) /\ Len(gs[c]) \in Nat
  <2>1. CASE c # b
    BY <1>1, <1>2, <2>1 DEF Wrote
  <2>2. CASE c = b
    <3>1. Len(gs[c]) = L + 1 /\ (\A k \in 1..L : gs[c][k] = fs[c][k])
      BY <1>1, <1>2, <2>2 DEF Wrote
    <3>2. QED
      BY <3>1
  <2>3. QED
    BY <2>1, <2>2
<1>5. ASSUME NEW i \in DOMAIN gs[c], Reachable(gs[c], i)
      PROVE  gs[c][i].seq < x <=> i <= n
  <2>1. CASE i \in DOMAIN fs[c] /\ Reachable(fs[c], i) /\ gs[c][i] = fs[c][i]
    BY <2>1 DEF ReadUpTo
  <2>2. CASE gs[c][i] = e /\ i = L + 1
    <3>1. ~(i <= n)
      BY <1>3, <2>2
    <3>2. QED
      BY <2>2, <3>1
  <2>3. QED
    BY <1>1, <1>2, <1>5, <2>1, <2>2, WroteReaches
<1>6. n <= Len(gs[c]) /\ \A k \in 1..n : gs[c][k].full
  BY <1>3, <1>4
<1>7. QED
  BY <1>1, <1>5, <1>6 DEF ReadUpTo

\* The same of a file that is created.
LEMMA OpenedKeeps ==
  ASSUME NEW fs, NEW gs, NEW n \in Nat, Opened(fs, gs, n)
  PROVE  /\ FramesOrdered(fs, n) => FramesOrdered(gs, n)
         /\ FragmentLast(fs) => FragmentLast(gs)
         /\ \A x : Held(fs, x) => Held(gs, x)
         /\ \A x, S : Passed(fs, x, S) => Passed(gs, x, S)
         /\ \A id : HasFrame(fs, id) => HasFrame(gs, id)
         /\ \A c, m, x : ReadUpTo(fs, c, m, x) => ReadUpTo(gs, c, m, x)
<1>1. /\ \A c \in DOMAIN fs : c \in DOMAIN gs /\ gs[c] = fs[c]
      /\ \A c \in DOMAIN gs : c \in DOMAIN fs \/ (c = n /\ gs[c] = <<>>)
  BY DEF Opened
<1>2. \A c \in DOMAIN gs : \A i \in DOMAIN gs[c] :
        c \in DOMAIN fs /\ gs[c] = fs[c] /\ i \in DOMAIN fs[c]
  BY <1>1
<1>3. FramesOrdered(fs, n) => FramesOrdered(gs, n)
  <2> SUFFICES ASSUME FramesOrdered(fs, n), NEW b \in DOMAIN gs, NEW i \in DOMAIN gs[b],
                      Reachable(gs[b], i)
               PROVE  /\ b <= gs[b][i].seq /\ gs[b][i].seq < n
                      /\ \A c \in DOMAIN gs : b < c => gs[b][i].seq < c
                      /\ \A k \in DOMAIN gs[b] :
                           Reachable(gs[b], k) /\ i < k => gs[b][i].seq < gs[b][k].seq
    BY DEF FramesOrdered
  <2>1. b \in DOMAIN fs /\ gs[b] = fs[b] /\ i \in DOMAIN fs[b] /\ Reachable(fs[b], i)
    BY <1>2
  <2>2. \A c \in DOMAIN gs : c \in DOMAIN fs \/ c = n
    BY <1>1
  <2>3. QED
    BY <2>1, <2>2 DEF FramesOrdered
<1>4. FragmentLast(fs) => FragmentLast(gs)
  BY <1>2 DEF FragmentLast
<1>5. \A x : Held(fs, x) => Held(gs, x)
  BY <1>1 DEF Held
<1>6. \A x, S : Passed(fs, x, S) => Passed(gs, x, S)
  BY <1>2 DEF Passed
<1>7. \A id : HasFrame(fs, id) => HasFrame(gs, id)
  BY <1>1 DEF HasFrame
<1>8. \A c, m, x : ReadUpTo(fs, c, m, x) => ReadUpTo(gs, c, m, x)
  BY <1>1 DEF ReadUpTo
<1>9. QED
  BY <1>3, <1>4, <1>5, <1>6, <1>7, <1>8

\* Nothing that will be found is above the next sequence number.
LEMMA HeldBelow ==
  ASSUME NEW fs, Files(fs), NEW n \in Nat, FramesOrdered(fs, n),
         DOMAIN fs \subseteq Nat, \A b \in DOMAIN fs : b <= n,
         NEW x \in Nat, Held(fs, x)
  PROVE  x <= n
<1>1. ASSUME NEW b \in DOMAIN fs, x <= b
      PROVE  x <= n
  BY <1>1
<1>2. ASSUME NEW b \in DOMAIN fs, NEW i \in DOMAIN fs[b], Reachable(fs[b], i), x <= fs[b][i].seq + 1
      PROVE  x <= n
  <2>1. fs[b][i].seq \in Nat /\ fs[b][i].seq < n
    BY <1>2, FilesTyped DEF FramesOrdered
  <2>2. QED
    BY <1>2, <2>1
<1>3. QED
  BY <1>1, <1>2 DEF Held

\* Whatever highestSeq makes of a fragment, it returns no less than any record before it.
LEMMA HighestOfFragments ==
  ASSUME NEW f \in Seq(Frame), NEW hi \in HighestSeq(f),
         \A i, k : Reachable(f, i) /\ Reachable(f, k) /\ i < k => f[i].seq < f[k].seq,
         \A i \in DOMAIN f :
           (\A k \in 1..(i - 1) : f[k].full) => \A k \in 1..(i - 1) : f[k].seq < f[i].seq
  PROVE  \A i : Reachable(f, i) => f[i].seq \in Nat /\ f[i].seq <= hi
<1>1. PICK L \in Nat : L = Len(f) /\ DOMAIN f = 1..L
  BY LenProperties
<1>2. \A i : Reachable(f, i) => i \in 1..L /\ f[i].seq \in Nat
  BY <1>1, FrameFields DEF Reachable
<1>3. PICK T : T = {i \in DOMAIN f : Reachable(f, i)}
  OBVIOUS
<1>4. \A i : i \in T <=> Reachable(f, i)
  BY <1>3 DEF Reachable
<1> SUFFICES ASSUME NEW i, Reachable(f, i)
             PROVE  f[i].seq <= hi
  BY <1>2
<1>5. i \in T /\ i \in 1..L /\ f[i].seq \in Nat
  BY <1>2, <1>4
<1>6. hi \in {f[k].seq : k \in {m \in T : m + 1 \notin T}
                           \cup {m \in DOMAIN f : m - 1 \in T \cup {0} /\ ~f[m].full /\ m < Len(f)}}
  BY <1>3, <1>5 DEF HighestSeq
<1>7. PICK k : /\ hi = f[k].seq
               /\ \/ k \in T /\ k + 1 \notin T
                  \/ k \in DOMAIN f /\ k - 1 \in T \cup {0} /\ ~f[k].full
  BY <1>6
<1>8. CASE k \in T /\ k + 1 \notin T
  <2>1. k \in 1..L /\ Reachable(f, k) /\ f[k].seq \in Nat
    BY <1>2, <1>4, <1>8
  <2>2. i <= k
    <3> SUFFICES ASSUME k < i
                 PROVE  FALSE
      BY <1>5, <2>1
    <3>1. k + 1 \in DOMAIN f /\ k + 1 <= i
      BY <1>1, <1>5, <2>1
    <3>2. Reachable(f, k + 1)
      BY <3>1, ReachesBelow
    <3>3. QED
      BY <1>4, <1>8, <3>2
  <2>3. CASE i = k
    BY <1>5, <1>7, <2>3
  <2>4. CASE i < k
    <3>1. f[i].seq < f[k].seq
      BY <2>1, <2>4
    <3>2. QED
      BY <1>5, <1>7, <2>1, <3>1
  <2>5. QED
    BY <1>5, <2>1, <2>2, <2>3, <2>4
<1>9. CASE k \in DOMAIN f /\ k - 1 \in T \cup {0} /\ ~f[k].full
  <2>1. k \in 1..L /\ f[k].seq \in Nat
    BY <1>1, <1>9, FrameFields
  <2>2. \A m \in 1..(k - 1) : f[m].full
    <3>1. CASE k - 1 = 0
      BY <3>1
    <3>2. CASE k - 1 \in T
      BY <1>4, <3>2 DEF Reachable
    <3>3. QED
      BY <1>9, <3>1, <3>2
  <2>3. i < k
    <3> SUFFICES ASSUME k <= i
                 PROVE  FALSE
      BY <1>5, <2>1
    <3>1. k \in 1..i
      BY <1>5, <2>1
    <3>2. QED
      BY <1>9, <3>1 DEF Reachable
  <2>4. i \in 1..(k - 1)
    BY <1>5, <2>1, <2>3
  <2>5. f[i].seq < f[k].seq
    BY <1>1, <2>1, <2>2, <2>4
  <2>6. QED
    BY <1>5, <1>7, <2>1, <2>5
<1>10. QED
  BY <1>7, <1>8, <1>9

-----------------------------------------------------------------------------
(* The invariant.                                                           *)

\* The list is the directory, in order; a segment may be in it twice.
ListIsDirectory ==
  /\ linked = DOMAIN files /\ linked = {segs[i].base : i \in DOMAIN segs}
  /\ \A i, k \in DOMAIN segs : i < k => segs[i].base <= segs[k].base
  /\ \A b \in linked : b <= nextSeq

FilesSound == FramesOrdered(files, nextSeq) /\ FragmentLast(files)

AckedHaveFrames ==
  /\ \A id \in acked : HasFrame(files, id)
  /\ apc = "evict" => HasFrame(files, puts)

\* Each cursor, if the next process starts at it, is not above what that one finds.
CursorsHeld ==
  /\ Held(files, offset) /\ Held(files, cval) /\ Held(files, readNext) /\ Held(files, rmax)
  /\ offset <= readNext /\ cval <= readNext
  /\ rmax <= rseq /\ rseq <= nextSeq
  /\ rpc = "open" => rseg = None \/ rseg <= rseq

PassedDone == Passed(files, rseq, batch \cup done) /\ Passed(files, readNext, done)

ReaderAt == rfile # None => ReadUpTo(files, rfile, roff, rseq)

DamageInv ==
  /\ TypeInv /\ ListIsDirectory /\ FilesSound /\ AckedHaveFrames
  /\ CursorsHeld /\ PassedDone /\ ReaderAt

\* What Append's and the consumer's steps read of it, as numbers.
LEMMA DamageTyped ==
  ASSUME DamageInv
  PROVE  /\ Files(files) /\ linked = DOMAIN files /\ DOMAIN files \subseteq Nat
         /\ \A b \in DOMAIN files : b <= nextSeq
         /\ nextSeq \in Nat /\ readNext \in Nat /\ offset \in Nat /\ cval \in Nat
         /\ rseq \in Nat /\ rmax \in Nat /\ roff \in Nat /\ puts \in Nat
         /\ readNext <= nextSeq /\ rseq <= nextSeq /\ rmax <= nextSeq
<1>1. /\ Files(files) /\ linked = DOMAIN files /\ DOMAIN files \subseteq Nat
      /\ \A b \in DOMAIN files : b <= nextSeq
      /\ nextSeq \in Nat /\ readNext \in Nat /\ offset \in Nat /\ cval \in Nat
      /\ rseq \in Nat /\ rmax \in Nat /\ roff \in Nat /\ puts \in Nat
  BY DEF DamageInv, TypeInv, TypeOK, ListIsDirectory, Files
<1>2. Held(files, readNext) /\ rmax <= rseq /\ rseq <= nextSeq
  BY DEF DamageInv, CursorsHeld
<1>3. readNext <= nextSeq
  BY <1>1, <1>2, HeldBelow DEF DamageInv, FilesSound
<1>4. rmax <= nextSeq
  BY <1>1, <1>2
<1>5. QED
  BY <1>1, <1>2, <1>3, <1>4

\* The newest segment's base is the highest.
LEMMA NewestHighest ==
  ASSUME TypeInv, ListIsDirectory, segs # <<>>
  PROVE  /\ Newest \in DOMAIN files /\ Newest \in Nat
         /\ \A b \in DOMAIN files : b <= Newest
         /\ segs[1].base \in DOMAIN files /\ segs[1].base \in Nat
         /\ \A b \in DOMAIN files : segs[1].base <= b
<1>1. PICK n \in Nat : n = Len(segs) /\ DOMAIN segs = 1..n /\ n > 0
  <2>1. Len(segs) \in Nat /\ DOMAIN segs = 1..Len(segs) /\ Len(segs) \in DOMAIN segs
    BY NewestFile, LenProperties DEF TypeInv, TypeOK
  <2>2. PICK n : n = Len(segs)
    OBVIOUS
  <2>3. n \in Nat /\ DOMAIN segs = 1..n /\ n > 0
    BY <2>1, <2>2
  <2>4. QED
    BY <2>2, <2>3
<1>2. \A i \in 1..n : segs[i].base \in Nat /\ segs[i].base \in DOMAIN files
  BY <1>1, SegmentFields DEF TypeInv, ListIsDirectory
<1>3. ASSUME NEW b \in DOMAIN files
      PROVE  b <= segs[n].base /\ segs[1].base <= b
  <2>1. PICK i \in 1..n : b = segs[i].base
    BY <1>1 DEF ListIsDirectory
  <2>2. \A k \in 1..n : \A m \in 1..n : k < m => segs[k].base <= segs[m].base
    BY <1>1 DEF ListIsDirectory
  <2>3. n \in 1..n /\ 1 \in 1..n /\ (i = n \/ i < n) /\ (i = 1 \/ 1 < i)
    BY <1>1
  <2>4. QED
    BY <1>2, <2>1, <2>2, <2>3
<1>4. n \in 1..n /\ 1 \in 1..n /\ Newest = segs[n].base
  BY <1>1 DEF Newest
<1>5. QED
  BY <1>2, <1>3, <1>4

-----------------------------------------------------------------------------
(* Its preservation, one step at a time.                                    *)

LEMMA InitDamageInv == Init => DamageInv
<1> SUFFICES ASSUME Init PROVE DamageInv
  OBVIOUS
<1>1. /\ segs = <<>> /\ nextSeq = 0 /\ readNext = 0 /\ apc = "idle" /\ files = <<>>
      /\ linked = {} /\ offset = 0 /\ cval = 0 /\ rpc = "idle" /\ rfile = None /\ rseq = 0
      /\ rmax = 0 /\ acked = {}
  BY DEF Init
<1>2. DOMAIN segs = {} /\ DOMAIN files = {}
  BY <1>1
<1>3. ListIsDirectory
  BY <1>1, <1>2 DEF ListIsDirectory
<1>4. FilesSound /\ AckedHaveFrames
  BY <1>1, <1>2 DEF FilesSound, FramesOrdered, FragmentLast, AckedHaveFrames
<1>5. CursorsHeld /\ PassedDone /\ ReaderAt
  BY <1>1, <1>2 DEF CursorsHeld, Held, PassedDone, Passed, ReaderAt
<1>6. QED
  BY <1>3, <1>4, <1>5, InitTypeInv DEF DamageInv

\* Steps that leave the disk and the reader alone.
LEMMA DamageUntouched ==
  ASSUME DamageInv, TypeInv',
         UNCHANGED <<segs, nextSeq, readNext, files, linked, offset, rfile, roff, rseq, rmax,
                     cval, batch, done>>,
         rpc' = "open" => rpc = "open" /\ rseg' = rseg,
         acked' \subseteq acked \cup (IF apc = "evict" THEN {puts} ELSE {}),
         apc' = "evict" => apc = "evict" /\ puts' = puts
  PROVE  DamageInv'
<1>1. /\ segs' = segs /\ nextSeq' = nextSeq /\ readNext' = readNext /\ files' = files
      /\ linked' = linked /\ offset' = offset /\ rfile' = rfile /\ roff' = roff
      /\ rseq' = rseq /\ rmax' = rmax /\ cval' = cval /\ batch' = batch /\ done' = done
  OBVIOUS
<1>2. ListIsDirectory' /\ FilesSound'
  BY <1>1 DEF DamageInv, ListIsDirectory, FilesSound
<1>3. AckedHaveFrames'
  BY <1>1 DEF DamageInv, AckedHaveFrames
<1>4. CursorsHeld'
  BY <1>1 DEF DamageInv, CursorsHeld
<1>5. PassedDone' /\ ReaderAt'
  BY <1>1 DEF DamageInv, PassedDone, ReaderAt
<1>6. QED
  BY <1>2, <1>3, <1>4, <1>5 DEF DamageInv

LEMMA DamageAppendBegin ==
  ASSUME DamageInv, NEW size \in Sizes, AppendBegin(size)
  PROVE  DamageInv'
<1>1. TypeInv'
  BY AppendBeginType DEF DamageInv
<1>2. /\ apc' = "write" /\ acked' = acked /\ nextSeq' = nextSeq /\ readNext' = readNext
      /\ offset' = offset /\ rpc' = rpc /\ rfile' = rfile /\ roff' = roff /\ rseq' = rseq
      /\ rseg' = rseg /\ rmax' = rmax /\ cval' = cval /\ batch' = batch /\ done' = done
  BY DEF AppendBegin, rvars
<1>3. CASE UNCHANGED <<segs, linked, files>>
  BY <1>1, <1>2, <1>3, DamageUntouched
<1>4. CASE CreateSegment
  <2>1. PICK N \in Nat : N = nextSeq
    BY DamageTyped
  <2>2. /\ segs' = Append(segs, [base |-> N, bytes |-> 0])
        /\ linked' = linked \cup {N}
        /\ files' = [b \in DOMAIN files \cup {N} |->
                       IF b \in linked \cup (DOMAIN files \ {N}) THEN files[b] ELSE <<>>]
    BY <1>4, <2>1 DEF CreateSegment, CreateFile
  <2>3. linked = DOMAIN files
    BY DamageTyped
  <2>4. PICK gs : gs = files'
    OBVIOUS
  <2>5. Opened(files, gs, N)
    BY <2>2, <2>3, <2>4 DEF Opened
  <2>6. ListIsDirectory'
    <3>1. PICK n \in Nat : n = Len(segs) /\ DOMAIN segs = 1..n
      BY LenProperties DEF DamageInv, TypeInv, TypeOK
    <3>2. PICK s : s = segs'
      OBVIOUS
    <3>3. /\ DOMAIN s = 1..(n + 1) /\ \A i \in 1..n : s[i] = segs[i]
          /\ s[n + 1] = [base |-> N, bytes |-> 0]
      <4>1. segs \in Seq(Segment) /\ [base |-> N, bytes |-> 0] \in Segment
        BY DEF DamageInv, TypeInv, TypeOK, Segment
      <4>2. QED
        BY <2>2, <3>1, <3>2, <4>1
    <3>4. s[n + 1].base = N /\ \A i \in 1..n : s[i].base = segs[i].base
      BY <3>3
    <3>5. linked = {segs[i].base : i \in 1..n} /\ \A b \in linked : b <= N /\ b \in Nat
      BY <2>1, <3>1, DamageTyped DEF DamageInv, ListIsDirectory
    <3>6. linked' = {s[i].base : i \in 1..(n + 1)}
      <4>1. \A i : i \in 1..(n + 1) <=> i \in 1..n \/ i = n + 1
        BY <3>1
      <4>2. QED
        BY <2>2, <3>4, <3>5, <4>1
    <3>7. \A i, k \in 1..(n + 1) : i < k => s[i].base <= s[k].base
      <4>1. \A i, k \in 1..n : i < k => segs[i].base <= segs[k].base
        BY <3>1 DEF DamageInv, ListIsDirectory
      <4>2. \A i \in 1..n : segs[i].base <= N
        BY <3>5
      <4>3. \A i, k \in 1..(n + 1) : i < k => i \in 1..n /\ (k \in 1..n \/ k = n + 1)
        BY <3>1
      <4>4. QED
        BY <3>4, <4>1, <4>2, <4>3
    <3>8. linked' = DOMAIN files' /\ \A b \in linked' : b <= nextSeq'
      BY <1>2, <2>1, <2>2, <2>3, <3>5
    <3>9. QED
      BY <3>2, <3>3, <3>6, <3>7, <3>8 DEF ListIsDirectory
  <2>7. FilesSound'
    BY <1>2, <2>1, <2>4, <2>5, OpenedKeeps DEF DamageInv, FilesSound
  <2>8. AckedHaveFrames'
    BY <1>2, <2>4, <2>5, OpenedKeeps DEF DamageInv, AckedHaveFrames
  <2>9. CursorsHeld'
    BY <1>2, <2>4, <2>5, OpenedKeeps DEF DamageInv, CursorsHeld
  <2>10. PassedDone' /\ ReaderAt'
    BY <1>2, <2>4, <2>5, OpenedKeeps DEF DamageInv, PassedDone, ReaderAt
  <2>11. QED
    BY <1>1, <2>6, <2>7, <2>8, <2>9, <2>10 DEF DamageInv
<1>5. QED
  BY <1>3, <1>4 DEF AppendBegin

\* A frame or a fragment written by Append, and what holds of the files then.
LEMMA DamageOfWrite ==
  ASSUME DamageInv, apc = "write", NEW n \in Nat, NEW whole \in BOOLEAN, WriteFrame(n, whole)
  PROVE  /\ Files(files') /\ DOMAIN files' = DOMAIN files /\ files' \in [DOMAIN files -> Seq(Frame)]
         /\ FramesOrdered(files', nextSeq + 1) /\ (~whole => FramesOrdered(files', nextSeq))
         /\ FragmentLast(files')
         /\ \A x : Held(files, x) => Held(files', x)
         /\ Passed(files', rseq, batch \cup done) /\ Passed(files', readNext, done)
         /\ \A id : HasFrame(files, id) => HasFrame(files', id)
         /\ HasFrame(files', puts)
         /\ rfile # None => ReadUpTo(files', rfile, roff, rseq)
<1>1. segs # <<>>
  BY DEF DamageInv, TypeInv, NewestListed
<1>2. PICK b \in Nat : b = Newest /\ b \in DOMAIN files /\ \A c \in DOMAIN files : c <= b
  BY <1>1, NewestHighest DEF DamageInv
<1>3. PICK N \in Nat : N = nextSeq /\ b <= N /\ rseq <= N /\ readNext <= N
  BY <1>2, DamageTyped
<1>4. PICK e : e = [seq |-> N, id |-> puts, end |-> FileSize(files[b]) + n, full |-> whole]
  OBVIOUS
<1>5. e.seq = N /\ e.id = puts /\ e.full = whole /\ e \in Frame
  <2>1. FileSize(files[b]) \in Nat /\ puts \in Nat
    BY <1>2, DamageTyped, FilesTyped, FileSizeType
  <2>2. FileSize(files[b]) + n \in Nat
    BY <2>1
  <2>3. QED
    BY <1>4, <2>1, <2>2 DEF Frame
<1>6. PICK fs, gs : fs = files /\ gs = files'
  OBVIOUS
<1>7. DOMAIN gs = DOMAIN fs /\ gs \in [DOMAIN fs -> Seq(Frame)] /\ Files(gs) /\ Files(fs)
  <2>1. DOMAIN files' = DOMAIN files /\ files' \in [DOMAIN files -> Seq(Frame)]
    BY WriteFrameType DEF DamageInv, TypeInv
  <2>2. QED
    BY <1>6, <2>1, DamageTyped DEF Files
<1>8. gs = [fs EXCEPT ![b] = Append(fs[b], e)]
  BY <1>2, <1>3, <1>4, <1>6 DEF WriteFrame
<1>9. Wrote(fs, gs, b, e)
  <2>1. gs[b] = Append(fs[b], e) /\ \A c \in DOMAIN fs : c # b => gs[c] = fs[c]
    BY <1>2, <1>6, <1>7, <1>8
  <2>2. fs[b] \in Seq(Frame) /\ DOMAIN fs[b] = 1..Len(fs[b]) /\ Len(fs[b]) \in Nat
    BY <1>2, <1>6, <1>7, FilesTyped
  <2>3. /\ Len(gs[b]) = Len(fs[b]) + 1 /\ gs[b][Len(fs[b]) + 1] = e
        /\ \A i \in 1..Len(fs[b]) : gs[b][i] = fs[b][i]
    BY <1>5, <2>1, <2>2, AppendProperties
  <2>4. QED
    BY <1>2, <1>6, <1>7, <2>1, <2>2, <2>3 DEF Wrote
<1>10. FramesOrdered(fs, N) /\ FragmentLast(fs) /\ DOMAIN fs \subseteq Nat
  BY <1>3, <1>6, DamageTyped DEF DamageInv, FilesSound
<1>11. FramesOrdered(gs, N + 1) /\ (~whole => FramesOrdered(gs, N))
  BY <1>2, <1>3, <1>5, <1>6, <1>7, <1>9, <1>10, WroteOrdered
<1>12. FragmentLast(gs)
  BY <1>5, <1>7, <1>9, <1>10, WroteFragment
<1>13. ~(e.seq < rseq) /\ ~(e.seq < readNext) /\ roff \in Nat
  <2>1. rseq \in Nat /\ readNext \in Nat /\ roff \in Nat
    BY DamageTyped
  <2>2. QED
    BY <1>3, <1>5, <2>1
<1>14. /\ \A x : Held(fs, x) => Held(gs, x)
       /\ \A id : HasFrame(fs, id) => HasFrame(gs, id)
       /\ HasFrame(gs, puts)
  BY <1>5, <1>7, <1>9, WroteKeeps
<1>15. Passed(gs, rseq, batch \cup done) /\ Passed(gs, readNext, done)
  <2>1. Passed(fs, rseq, batch \cup done) /\ Passed(fs, readNext, done)
    BY <1>6 DEF DamageInv, PassedDone
  <2>2. \A x, S : ~(e.seq < x) /\ Passed(fs, x, S) => Passed(gs, x, S)
    BY <1>7, <1>9, WroteKeeps
  <2>3. QED
    BY <1>13, <2>1, <2>2
<1>16. rfile # None => ReadUpTo(gs, rfile, roff, rseq)
  <2>1. rfile # None => ReadUpTo(fs, rfile, roff, rseq)
    BY <1>6 DEF DamageInv, ReaderAt
  <2>2. QED
    BY <1>7, <1>9, <1>13, <2>1, WroteUnread
<1>17. QED
  BY <1>3, <1>6, <1>7, <1>11, <1>12, <1>14, <1>15, <1>16

LEMMA DamageAppendWrite ==
  ASSUME DamageInv, AppendWrite
  PROVE  DamageInv'
<1>1. TypeInv'
  BY AppendWriteType DEF DamageInv
<1>2. /\ apc = "write" /\ nextSeq' = nextSeq + 1 /\ apc' = "evict"
      /\ segs' = [segs EXCEPT ![Len(segs)].bytes = @ + asize]
      /\ readNext' = readNext /\ linked' = linked
      /\ offset' = offset /\ rpc' = rpc /\ rfile' = rfile /\ roff' = roff /\ rseq' = rseq
      /\ rseg' = rseg /\ rmax' = rmax /\ cval' = cval /\ puts' = puts /\ acked' = acked
      /\ batch' = batch /\ done' = done /\ WriteFrame(asize, TRUE) /\ asize \in Nat
  BY DEF AppendWrite, rvars, hvars, DamageInv, TypeInv, TypeOK
<1>3. /\ DOMAIN files' = DOMAIN files
      /\ FramesOrdered(files', nextSeq + 1) /\ FragmentLast(files')
      /\ \A x : Held(files, x) => Held(files', x)
      /\ Passed(files', rseq, batch \cup done) /\ Passed(files', readNext, done)
      /\ \A id : HasFrame(files, id) => HasFrame(files', id)
      /\ HasFrame(files', puts)
      /\ rfile # None => ReadUpTo(files', rfile, roff, rseq)
  BY <1>2, DamageOfWrite
<1>4. PICK N \in Nat : N = nextSeq /\ rseq <= N /\ rseq \in Nat /\ N <= N + 1
                       /\ \A b \in DOMAIN files : b <= N /\ b \in Nat
  BY DamageTyped
<1>5. ListIsDirectory'
  <2>1. DOMAIN segs' = DOMAIN segs /\ \A i \in DOMAIN segs : segs'[i].base = segs[i].base
    <3>1. segs \in Seq(Segment)
      BY DEF DamageInv, TypeInv, TypeOK
    <3>2. \A i \in DOMAIN segs : segs[i] \in Segment
      BY SegmentFields DEF DamageInv, TypeInv
    <3>3. DOMAIN segs' = DOMAIN segs
      BY <1>2, <3>1
    <3>4. ASSUME NEW i \in DOMAIN segs
          PROVE  segs'[i].base = segs[i].base
      BY <1>2, <3>1, <3>2 DEF Segment
    <3>5. QED
      BY <3>3, <3>4
  <2>2. {segs'[i].base : i \in DOMAIN segs'} = {segs[i].base : i \in DOMAIN segs}
    BY <2>1
  <2>3. \A b \in DOMAIN files : b <= N + 1
    BY <1>4
  <2>4. QED
    BY <1>2, <1>3, <1>4, <2>1, <2>2, <2>3 DEF DamageInv, ListIsDirectory
<1>6. FilesSound'
  BY <1>2, <1>3 DEF FilesSound
<1>7. AckedHaveFrames'
  BY <1>2, <1>3 DEF DamageInv, AckedHaveFrames
<1>8. CursorsHeld'
  <2>1. rseq <= N + 1
    BY <1>4
  <2>2. QED
    BY <1>2, <1>3, <1>4, <2>1 DEF DamageInv, CursorsHeld
<1>9. PassedDone' /\ ReaderAt'
  BY <1>2, <1>3 DEF PassedDone, ReaderAt
<1>10. QED
  BY <1>1, <1>5, <1>6, <1>7, <1>8, <1>9 DEF DamageInv

LEMMA DamageShortWrite ==
  ASSUME DamageInv, ShortWrite
  PROVE  DamageInv'
<1>1. TypeInv'
  BY ShortWriteType DEF DamageInv
<1>2. /\ apc = "write" /\ nextSeq' = nextSeq /\ apc' = "idle" /\ segs' = segs
      /\ readNext' = readNext /\ linked' = linked
      /\ offset' = offset /\ rpc' = rpc /\ rfile' = rfile /\ roff' = roff /\ rseq' = rseq
      /\ rseg' = rseg /\ rmax' = rmax /\ cval' = cval /\ puts' = puts /\ acked' = acked
      /\ batch' = batch /\ done' = done /\ asize \in Nat
  BY DEF ShortWrite, rvars, DamageInv, TypeInv, TypeOK
<1>3. CASE UNCHANGED files
  BY <1>1, <1>2, <1>3, DamageUntouched
<1>4. ASSUME NEW n \in 1..(asize - 1), WriteFrame(n, FALSE)
      PROVE  DamageInv'
  <2>1. n \in Nat
    BY <1>2
  <2>2. /\ DOMAIN files' = DOMAIN files
        /\ FramesOrdered(files', nextSeq) /\ FragmentLast(files')
        /\ \A x : Held(files, x) => Held(files', x)
        /\ Passed(files', rseq, batch \cup done) /\ Passed(files', readNext, done)
        /\ \A id : HasFrame(files, id) => HasFrame(files', id)
        /\ rfile # None => ReadUpTo(files', rfile, roff, rseq)
    BY <1>2, <1>4, <2>1, DamageOfWrite
  <2>3. ListIsDirectory' /\ FilesSound' /\ AckedHaveFrames'
    BY <1>2, <2>2 DEF DamageInv, ListIsDirectory, FilesSound, AckedHaveFrames
  <2>4. CursorsHeld' /\ PassedDone' /\ ReaderAt'
    BY <1>2, <2>2 DEF DamageInv, CursorsHeld, PassedDone, ReaderAt
  <2>5. QED
    BY <1>1, <2>3, <2>4 DEF DamageInv
<1>5. QED
  BY <1>3, <1>4 DEF ShortWrite

\* The frame that readFrame finds is the lowest that the reader is not past.
LEMMA FoundIsLowest ==
  ASSUME NEW fs, Files(fs), NEW n \in Nat, FramesOrdered(fs, n), DOMAIN fs \subseteq Nat,
         NEW b \in DOMAIN fs, NEW r \in Nat, NEW x \in Nat, ReadUpTo(fs, b, r, x),
         r < Len(fs[b]), fs[b][r + 1].full
  PROVE  /\ r + 1 \in DOMAIN fs[b] /\ Reachable(fs[b], r + 1)
         /\ fs[b][r + 1].seq \in Nat /\ fs[b][r + 1].id \in Nat
         /\ x <= fs[b][r + 1].seq /\ fs[b][r + 1].seq + 1 <= n
         /\ \A S : Passed(fs, x, S) =>
              Passed(fs, fs[b][r + 1].seq + 1, S \cup {fs[b][r + 1].id})
         /\ ReadUpTo(fs, b, r + 1, fs[b][r + 1].seq + 1)
<1>1. PICK f, L : f = fs[b] /\ f \in Seq(Frame) /\ L \in Nat /\ L = Len(f) /\ DOMAIN f = 1..L
  BY FilesTyped
<1>2. r + 1 \in 1..L /\ \A i \in 1..L : f[i].seq \in Nat /\ f[i].id \in Nat
  BY <1>1, FilesTyped
<1>3. (\A k \in 1..r : f[k].full) /\ b <= x /\ \A i \in 1..L : Reachable(f, i) => (f[i].seq < x <=> i <= r)
  BY <1>1 DEF ReadUpTo
<1>4. \A k \in 1..(r + 1) : f[k].full
  <2>1. \A k \in 1..(r + 1) : k \in 1..r \/ k = r + 1
    OBVIOUS
  <2>2. f[r + 1].full
    BY <1>1
  <2>3. QED
    BY <1>3, <2>1, <2>2
<1>5. Reachable(f, r + 1)
  BY <1>1, <1>2, <1>4 DEF Reachable
<1>6. PICK s \in Nat : s = f[r + 1].seq
  BY <1>2
<1>7. x <= s
  BY <1>2, <1>3, <1>5, <1>6
<1>8. s < n /\ b <= s /\ \A c \in DOMAIN fs : b < c => s < c
  BY <1>1, <1>2, <1>5, <1>6 DEF FramesOrdered
<1>9. ASSUME NEW i \in 1..L, Reachable(f, i)
      PROVE  f[i].seq < s + 1 <=> i <= r + 1
  <2>1. CASE i <= r + 1
    <3>1. i = r + 1 \/ i < r + 1
      BY <2>1
    <3>2. i < r + 1 => f[i].seq < s
      BY <1>1, <1>2, <1>5, <1>6, <1>9 DEF FramesOrdered
    <3>3. f[i].seq \in Nat
      BY <1>2
    <3>4. QED
      BY <1>6, <2>1, <3>1, <3>2, <3>3
  <2>2. CASE r + 1 < i
    <3>1. s < f[i].seq
      BY <1>1, <1>2, <1>5, <1>6, <1>9, <2>2 DEF FramesOrdered
    <3>2. f[i].seq \in Nat
      BY <1>2
    <3>3. QED
      BY <2>2, <3>1, <3>2
  <2>3. QED
    BY <2>1, <2>2
<1>10. ReadUpTo(fs, b, r + 1, s + 1)
  BY <1>1, <1>2, <1>4, <1>8, <1>9 DEF ReadUpTo
<1>11. ASSUME NEW S, Passed(fs, x, S)
       PROVE  Passed(fs, s + 1, S \cup {f[r + 1].id})
  <2> SUFFICES ASSUME NEW c \in DOMAIN fs, NEW i \in DOMAIN fs[c], Reachable(fs[c], i),
                      fs[c][i].seq < s + 1
               PROVE  fs[c][i].id \in S \cup {f[r + 1].id}
    BY DEF Passed
  <2>1. c \in Nat /\ b \in Nat /\ fs[c][i].seq \in Nat
    BY FilesTyped
  <2>2. CASE fs[c][i].seq < x
    BY <1>11, <2>2 DEF Passed
  <2>3. CASE c = b
    <3>1. i <= r + 1 /\ i \in 1..L
      BY <1>1, <1>9, <2>3
    <3>2. i = r + 1 \/ i <= r
      BY <3>1
    <3>3. i <= r => fs[c][i].seq < x
      BY <1>1, <1>3, <2>3, <3>1
    <3>4. QED
      BY <1>1, <2>2, <2>3, <3>2, <3>3
  <2>4. CASE c < b
    <3>1. fs[c][i].seq < b
      BY <2>4 DEF FramesOrdered
    <3>2. QED
      BY <1>3, <2>1, <2>2, <3>1
  <2>5. CASE b < c
    <3>1. s < c /\ c <= fs[c][i].seq
      BY <1>8, <2>5 DEF FramesOrdered
    <3>2. QED
      BY <2>1, <3>1
  <2>6. QED
    BY <2>1, <2>3, <2>4, <2>5
<1>12. x <= s /\ s + 1 <= n
  BY <1>7, <1>8
<1>13. QED
  BY <1>1, <1>2, <1>5, <1>6, <1>10, <1>11, <1>12

LEMMA DamageReadFrame ==
  ASSUME DamageInv, ReadFrame, TypeInv'
  PROVE  DamageInv'
<1>1. /\ rfile \in DOMAIN files /\ rfile # None /\ roff < Len(files[rfile])
      /\ files[rfile][roff + 1].full
  BY DEF ReadFrame, FrameAt, DamageInv, TypeInv, TypeOK
<1>2. PICK N \in Nat : N = nextSeq
  BY DamageTyped
<1>3. PICK f : f = files[rfile][roff + 1]
  OBVIOUS
<1>4. /\ rseq' = f.seq + 1 /\ rmax' = f.seq + 1 /\ batch' = batch \cup {f.id}
      /\ roff' = roff + 1 /\ rpc' = "idle"
      /\ segs' = segs /\ nextSeq' = nextSeq /\ readNext' = readNext /\ files' = files
      /\ linked' = linked /\ offset' = offset /\ rfile' = rfile /\ apc' = apc
      /\ puts' = puts /\ cval' = cval /\ acked' = acked /\ done' = done
  BY <1>3 DEF ReadFrame, jvars, dvars
<1>5. /\ ReadUpTo(files, rfile, roff, rseq) /\ Files(files) /\ FramesOrdered(files, N)
      /\ DOMAIN files \subseteq Nat /\ roff \in Nat /\ rseq \in Nat
  BY <1>1, <1>2, DamageTyped DEF DamageInv, ReaderAt, FilesSound
<1>6. /\ roff + 1 \in DOMAIN files[rfile] /\ Reachable(files[rfile], roff + 1)
      /\ f.seq \in Nat /\ f.seq + 1 <= N
      /\ \A S : Passed(files, rseq, S) => Passed(files, f.seq + 1, S \cup {f.id})
      /\ ReadUpTo(files, rfile, roff + 1, f.seq + 1)
  BY <1>1, <1>3, <1>5, FoundIsLowest
<1>7. ListIsDirectory' /\ FilesSound' /\ AckedHaveFrames'
  BY <1>4 DEF DamageInv, ListIsDirectory, FilesSound, AckedHaveFrames
<1>8. Held(files, f.seq + 1)
  <2>1. PICK x \in Nat : x = f.seq + 1 /\ x <= x
    BY <1>6
  <2>2. x <= files[rfile][roff + 1].seq + 1
    BY <1>3, <2>1
  <2>3. QED
    BY <1>1, <1>6, <2>1, <2>2 DEF Held
<1>9. CursorsHeld'
  <2>1. PICK x \in Nat : x = f.seq + 1 /\ x <= x
    BY <1>6
  <2>2. QED
    BY <1>2, <1>4, <1>6, <1>8, <2>1 DEF DamageInv, CursorsHeld
<1>10. PassedDone'
  <2>1. Passed(files, f.seq + 1, (batch \cup done) \cup {f.id}) /\ Passed(files, readNext, done)
    BY <1>6 DEF DamageInv, PassedDone
  <2>2. (batch \cup done) \cup {f.id} = batch' \cup done'
    BY <1>4
  <2>3. QED
    BY <1>4, <2>1, <2>2 DEF PassedDone
<1>11. ReaderAt'
  BY <1>4, <1>6 DEF ReaderAt
<1>12. QED
  BY <1>7, <1>9, <1>10, <1>11 DEF DamageInv

LEMMA SegmentForBelow ==
  ASSUME TypeInv, NEW t, NEW b \in SegmentFor(t)
  PROVE  b <= t
<1>1. PICK k \in DOMAIN segs : b = segs[k].base /\ \A m \in 1..k : segs[m].base <= t
  BY DEF SegmentFor
<1>2. k \in 1..k
  BY LenProperties DEF TypeInv, TypeOK
<1>3. QED
  BY <1>1, <1>2

LEMMA DamageSnapshot ==
  ASSUME DamageInv, Snapshot
  PROVE  DamageInv'
<1>1. TypeInv'
  BY SnapshotType DEF DamageInv
<1>2. /\ segs' = segs /\ nextSeq' = nextSeq /\ readNext' = readNext /\ files' = files
      /\ linked' = linked /\ offset' = offset /\ rfile' = rfile /\ apc' = apc
      /\ puts' = puts /\ cval' = cval /\ acked' = acked /\ done' = done
      /\ roff' = roff /\ rmax' = rmax /\ batch' = batch
  BY DEF Snapshot, jvars, dvars, hvars
<1>3. CASE rseq' = rseq /\ rpc' # "open"
  <2>1. UNCHANGED <<segs, nextSeq, readNext, files, linked, offset, rfile, roff, rseq, rmax,
                    cval, batch, done>>
    BY <1>2, <1>3
  <2>2. QED
    BY <1>1, <1>2, <1>3, <2>1, DamageUntouched
<1>4. ListIsDirectory' /\ FilesSound' /\ AckedHaveFrames'
  BY <1>2 DEF DamageInv, ListIsDirectory, FilesSound, AckedHaveFrames
<1>5. ASSUME NEW t, OpenAt(t)
      PROVE  rseq' = t /\ (rseg' = None \/ rseg' <= t)
  <2>1. rseq' = t /\ (rseg' = None \/ rseg' \in SegmentFor(t))
    BY <1>5 DEF OpenAt
  <2>2. QED
    BY <2>1, SegmentForBelow DEF DamageInv
<1>6. CASE OpenAt(rseq)
  <2>1. rseq' = rseq /\ (rseg' = None \/ rseg' <= rseq)
    BY <1>5, <1>6
  <2>2. CursorsHeld' /\ PassedDone' /\ ReaderAt'
    BY <1>2, <2>1 DEF DamageInv, CursorsHeld, PassedDone, ReaderAt
  <2>3. QED
    BY <1>1, <1>4, <2>2 DEF DamageInv
<1>7. CASE segs # <<>> /\ rseq < segs[1].base /\ OpenAt(segs[1].base)
  <2>1. PICK B \in Nat : /\ B = segs[1].base /\ B \in DOMAIN files /\ rseq < B
                         /\ \A b \in DOMAIN files : B <= b
    BY <1>7, NewestHighest DEF DamageInv
  <2>2. rseq' = B /\ (rseg' = None \/ rseg' <= B)
    BY <1>5, <1>7, <2>1
  <2>3. rfile = None
    <3> SUFFICES ASSUME rfile # None
                 PROVE  FALSE
      OBVIOUS
    <3>1. rfile \in DOMAIN files /\ rfile <= rseq
      BY DEF DamageInv, ReaderAt, ReadUpTo
    <3>2. rfile \in Nat /\ rseq \in Nat /\ B <= rfile
      BY <2>1, <3>1, DamageTyped
    <3>3. QED
      BY <2>1, <3>1, <3>2
  <2>4. PICK x \in Nat : x = rseq /\ rmax <= x /\ rmax \in Nat /\ x < B
    BY <2>1, DamageTyped DEF DamageInv, CursorsHeld
  <2>5. rmax <= B /\ B <= nextSeq
    <3>1. rmax <= B
      BY <2>4
    <3>2. QED
      BY <2>1, <3>1, DamageTyped
  <2>6. CursorsHeld'
    BY <1>2, <2>2, <2>5 DEF DamageInv, CursorsHeld
  <2>7. Passed(files, B, batch \cup done)
    <3>1. ASSUME NEW b \in DOMAIN files, NEW i \in DOMAIN files[b], Reachable(files[b], i)
          PROVE  ~(files[b][i].seq < B)
      <4>1. b <= files[b][i].seq
        BY <3>1 DEF DamageInv, FilesSound, FramesOrdered
      <4>2. B <= b /\ b \in Nat /\ files[b][i].seq \in Nat
        BY <2>1, DamageTyped, FilesTyped
      <4>3. QED
        BY <4>1, <4>2
    <3>2. QED
      BY <3>1 DEF Passed
  <2>8. PassedDone' /\ ReaderAt'
    BY <1>2, <2>2, <2>3, <2>7 DEF DamageInv, PassedDone, ReaderAt
  <2>9. QED
    BY <1>1, <1>4, <2>6, <2>8 DEF DamageInv
<1>8. QED
  BY <1>3, <1>6, <1>7 DEF Snapshot

LEMMA DamageOpenSegment ==
  ASSUME DamageInv, OpenSegment, TypeInv'
  PROVE  DamageInv'
<1>1. /\ segs' = segs /\ nextSeq' = nextSeq /\ readNext' = readNext /\ files' = files
      /\ linked' = linked /\ offset' = offset /\ apc' = apc
      /\ puts' = puts /\ cval' = cval /\ acked' = acked /\ done' = done
      /\ rmax' = rmax /\ batch' = batch /\ rpc' = "read" /\ rseq' = rseq /\ rpc = "open"
  BY DEF OpenSegment, jvars, dvars, hvars
<1>2. CASE rfile' = rfile /\ roff' = roff
  <2>1. UNCHANGED <<segs, nextSeq, readNext, files, linked, offset, rfile, roff, rseq, rmax,
                    cval, batch, done>>
    BY <1>1, <1>2
  <2>2. QED
    BY <1>1, <2>1, DamageUntouched
<1>3. CASE rseg \in linked
  <2>1. PICK n \in 0..Len(files[rseg]) : SeekPos(files[rseg], rseq, n) /\ roff' = n /\ rfile' = rseg
    BY <1>3 DEF OpenSegment
  <2>2. PICK b \in Nat : b = rseg /\ b \in DOMAIN files /\ b # None
    BY <1>3, DamageTyped, JournalAssumption
  <2>3. PICK f, L : /\ f = files[b] /\ f \in Seq(Frame) /\ L \in Nat /\ L = Len(f) /\ DOMAIN f = 1..L
                    /\ \A i \in DOMAIN f : f[i].seq \in Nat
    BY <2>2, DamageTyped, FilesTyped
  <2>4. b <= rseq /\ rseq \in Nat
    BY <1>1, <2>2, DamageTyped DEF DamageInv, CursorsHeld
  <2>5. n \in Nat /\ L \in Nat /\ n <= L
    BY <2>1, <2>2, <2>3
  <2>6. /\ \A k \in 1..n : f[k].full /\ f[k].seq < rseq
        /\ n < L => ~f[n + 1].full \/ f[n + 1].seq >= rseq
    BY <2>1, <2>2, <2>3 DEF SeekPos
  <2>7. ASSUME NEW i \in 1..L, Reachable(f, i)
        PROVE  f[i].seq < rseq <=> i <= n
    <3>1. CASE i <= n
      <4>1. i \in 1..n
        BY <2>5, <3>1
      <4>2. QED
        BY <2>6, <3>1, <4>1
    <3>2. CASE n < i
      <4>1. n + 1 \in 1..L /\ n < L /\ n + 1 <= i
        BY <2>5, <3>2
      <4>2. Reachable(f, n + 1)
        BY <2>3, <2>7, <4>1, ReachesBelow
      <4>3. f[n + 1].full /\ f[n + 1].seq >= rseq
        <5>1. n + 1 \in 1..(n + 1)
          BY <2>5
        <5>2. QED
          BY <2>6, <4>1, <4>2, <5>1 DEF Reachable
      <4>4. n + 1 < i => f[n + 1].seq < f[i].seq
        BY <2>2, <2>3, <2>7, <4>1, <4>2 DEF DamageInv, FilesSound, FramesOrdered
      <4>5. f[i].seq \in Nat /\ f[n + 1].seq \in Nat /\ (i = n + 1 \/ n + 1 < i)
        BY <2>3, <4>1
      <4>6. ~(f[i].seq < rseq)
        BY <2>4, <4>3, <4>4, <4>5
      <4>7. ~(i <= n)
        BY <2>5, <3>2
      <4>8. QED
        BY <4>6, <4>7
    <3>3. QED
      BY <2>5, <3>1, <3>2
  <2>8. ReadUpTo(files, b, n, rseq)
    BY <2>2, <2>3, <2>4, <2>5, <2>6, <2>7 DEF ReadUpTo
  <2>9. ListIsDirectory' /\ FilesSound' /\ AckedHaveFrames'
    BY <1>1 DEF DamageInv, ListIsDirectory, FilesSound, AckedHaveFrames
  <2>10. CursorsHeld' /\ PassedDone'
    BY <1>1 DEF DamageInv, CursorsHeld, PassedDone
  <2>11. ReaderAt'
    BY <1>1, <2>1, <2>2, <2>8 DEF ReaderAt
  <2>12. QED
    BY <2>9, <2>10, <2>11 DEF DamageInv
<1>4. QED
  BY <1>2, <1>3 DEF OpenSegment

LEMMA DamageCommit ==
  ASSUME DamageInv, Commit, TypeInv'
  PROVE  DamageInv'
<1>1. /\ segs' = segs /\ nextSeq' = nextSeq /\ files' = files /\ linked' = linked
      /\ offset' = offset /\ apc' = apc /\ rfile' = rfile /\ roff' = roff /\ rseq' = rseq
      /\ puts' = puts /\ acked' = acked /\ rmax' = rmax /\ rpc' = "commit"
      /\ batch' = {} /\ done' = done \cup batch /\ cval' = readNext'
      /\ readNext' = MovedTo(readNext, rmax)
  BY DEF Commit, dvars
<1>2. ListIsDirectory' /\ FilesSound' /\ AckedHaveFrames'
  BY <1>1 DEF DamageInv, ListIsDirectory, FilesSound, AckedHaveFrames
<1>3. PICK c, m, x, o \in Nat : c = readNext /\ m = rmax /\ x = rseq /\ o = offset /\ m <= x /\ o <= c
  BY DamageTyped DEF DamageInv, CursorsHeld
<1>4. PICK d \in Nat : d = readNext' /\ (d = c \/ (d = m /\ c < m)) /\ o <= d /\ d <= d
  BY <1>1, <1>3 DEF MovedTo
<1>5. CursorsHeld'
  <2>1. Held(files, d)
    BY <1>3, <1>4 DEF DamageInv, CursorsHeld
  <2>2. QED
    BY <1>1, <1>3, <1>4, <2>1 DEF DamageInv, CursorsHeld
<1>6. PassedDone'
  <2>1. PICK S : S = batch \cup done
    OBVIOUS
  <2>2. Passed(files, x, S) /\ Passed(files, c, done)
    BY <1>3, <2>1 DEF DamageInv, PassedDone
  <2>3. Passed(files, d, S)
    <3>1. CASE d = c
      BY <2>1, <2>2, <3>1 DEF Passed
    <3>2. CASE d = m
      <4>1. \A b \in DOMAIN files : \A i \in DOMAIN files[b] :
              files[b][i].seq < m => files[b][i].seq < x
        <5> SUFFICES ASSUME NEW b \in DOMAIN files, NEW i \in DOMAIN files[b], files[b][i].seq < m
                     PROVE  files[b][i].seq < x
          OBVIOUS
        <5>1. files[b][i].seq \in Nat
          BY DamageTyped, FilesTyped
        <5>2. QED
          BY <1>3, <5>1
      <4>2. QED
        BY <2>2, <3>2, <4>1 DEF Passed
    <3>3. QED
      BY <1>4, <3>1, <3>2
  <2>4. batch' \cup done' = S /\ done' = S
    BY <1>1, <2>1
  <2>5. QED
    BY <1>1, <1>3, <1>4, <2>2, <2>3, <2>4 DEF PassedDone
<1>7. ReaderAt'
  BY <1>1 DEF DamageInv, ReaderAt
<1>8. QED
  BY <1>2, <1>5, <1>6, <1>7 DEF DamageInv

LEMMA DamageSaveOffset ==
  ASSUME DamageInv, SaveOffset \/ SaveOffsetFails, TypeInv'
  PROVE  DamageInv'
<1>1. /\ segs' = segs /\ nextSeq' = nextSeq /\ files' = files /\ linked' = linked
      /\ apc' = apc /\ rfile' = rfile /\ roff' = roff /\ rseq' = rseq /\ readNext' = readNext
      /\ puts' = puts /\ acked' = acked /\ rmax' = rmax /\ rpc' = "idle"
      /\ batch' = batch /\ done' = done /\ cval' = 0 /\ (offset' = offset \/ offset' = cval)
  BY DEF SaveOffset, SaveOffsetFails, jvars, dvars
<1>2. ListIsDirectory' /\ FilesSound' /\ AckedHaveFrames' /\ PassedDone' /\ ReaderAt'
  BY <1>1 DEF DamageInv, ListIsDirectory, FilesSound, AckedHaveFrames, PassedDone, ReaderAt
<1>3. CursorsHeld'
  <2>1. Held(files, 0) /\ 0 <= readNext
    BY DamageTyped DEF Held
  <2>2. QED
    BY <1>1, <2>1 DEF DamageInv, CursorsHeld
<1>4. QED
  BY <1>2, <1>3 DEF DamageInv

\* Opening the journal on files whose frames are in order: everything that is held is found.
LEMMA DamageReopen ==
  ASSUME DamageInv, TypeInv', NEW fs, fs = files', Reopen(fs, offset), DOMAIN fs = DOMAIN files,
         Files(fs), offset' = offset, NEW n \in Nat, FramesOrdered(fs, n), FragmentLast(fs),
         Held(fs, offset), Passed(fs, readNext, done),
         \A id : HasFrame(files, id) => HasFrame(fs, id)
  PROVE  DamageInv'
<1>1. PICK c, m, D : c = Cardinality(linked) /\ m = offset /\ D = linked
  OBVIOUS
<1>2. /\ D = DOMAIN fs /\ D \in SUBSET Nat /\ IsFiniteSet(D) /\ c \in Nat /\ m \in Nat
      /\ c = Cardinality(D) /\ readNext \in Nat /\ m <= readNext
  BY <1>1, DamageTyped, FS_CardinalityType DEF DamageInv, TypeInv, CursorsHeld
<1>3. PICK bases \in [1..c -> D] :
        /\ Ascending(bases)
        /\ segs' = ListOf(bases, fs)
        /\ IF bases = <<>> THEN nextSeq' = 0
           ELSE LET last == bases[Len(bases)]
                IN  \E hi \in HighestSeq(fs[last]) :
                      nextSeq' = IF hi >= last THEN hi + 1 ELSE last
        /\ readNext' = IF m > nextSeq' THEN nextSeq' ELSE m
        /\ rseq' = ReaderStart(readNext', bases)
        /\ apc' = "idle" /\ rpc' = "idle" /\ rfile' = None
        /\ rmax' = rseq' /\ cval' = 0 /\ batch' = {}
        /\ UNCHANGED <<linked, puts, acked, done>>
  BY <1>1 DEF Reopen
<1>4. D = {bases[i] : i \in DOMAIN bases} /\ DOMAIN bases = 1..c
  BY <1>2, <1>3, AscendingListsAll
<1>5. /\ bases \in Seq(D) /\ Len(bases) = c /\ (bases = <<>> <=> c = 0)
      /\ \A i \in 1..c : bases[i] \in D /\ bases[i] \in Nat
  <2>1. bases \in Seq(D) /\ Len(bases) = c
    BY <1>2, <1>3
  <2>2. \A i \in 1..c : bases[i] \in D /\ bases[i] \in Nat
    BY <1>2, <1>3
  <2>3. QED
    BY <1>2, <2>1, <2>2, EmptySeq
<1>6. PICK N, R, X : N = nextSeq' /\ R = readNext' /\ X = rseq'
  OBVIOUS
<1>7. N \in Nat /\ R \in Nat /\ X \in Nat
  BY <1>6 DEF TypeInv, TypeOK
<1>8. PICK s : s = segs'
  OBVIOUS
<1>9. DOMAIN s = 1..c /\ \A i \in 1..c : s[i].base = bases[i]
  BY <1>3, <1>4, <1>8 DEF ListOf
<1>10. \A i, k \in 1..c : i < k => bases[i] < bases[k]
  BY <1>3, <1>4 DEF Ascending
<1>11. \A b \in D : \A i \in DOMAIN fs[b] : fs[b][i].seq \in Nat
  BY <1>2, FilesTyped
\* The last base and the sequence number that recover() finds bound the files.
<1>12. (\A b \in D : b <= N) /\ FramesOrdered(fs, N)
  <2>1. CASE c = 0
    <3>1. D = {}
      BY <1>4, <2>1
    <3>2. QED
      BY <1>2, <3>1 DEF FramesOrdered
  <2>2. CASE c > 0
    <3>1. PICK l \in Nat : l = bases[c] /\ l \in D
      BY <1>2, <1>5, <2>2
    <3>2. \A b \in D : b \in Nat /\ b <= l
      <4> SUFFICES ASSUME NEW i \in 1..c
                   PROVE  bases[i] \in Nat /\ bases[i] <= l
        BY <1>4
      <4>1. i = c \/ (i < c /\ c \in 1..c)
        BY <1>2, <2>2
      <4>2. QED
        BY <1>5, <1>10, <3>1, <4>1
    <3>3. PICK f : f = fs[l] /\ f \in Seq(Frame)
      BY <1>2, <3>1, FilesTyped
    <3>4. PICK hi \in HighestSeq(f) : N = IF hi >= l THEN hi + 1 ELSE l
      BY <1>2, <1>3, <1>5, <1>6, <2>2, <3>1, <3>3
    <3>5. hi \in Nat
      BY <3>3, HighestSeqType
    <3>6. l <= N /\ (hi >= l => N = hi + 1)
      BY <3>1, <3>4, <3>5
    <3>7. \A b \in D : b <= N
      BY <1>7, <3>1, <3>2, <3>6
    <3>8. \A i : Reachable(f, i) => f[i].seq \in Nat /\ f[i].seq <= hi
      <4>1. \A i : Reachable(f, i) => i \in DOMAIN f
        BY DEF Reachable
      <4>2. \A i, k : Reachable(f, i) /\ Reachable(f, k) /\ i < k => f[i].seq < f[k].seq
        BY <1>2, <3>1, <3>3, <4>1 DEF FramesOrdered
      <4>3. \A i \in DOMAIN f :
              (\A k \in 1..(i - 1) : f[k].full) => \A k \in 1..(i - 1) : f[k].seq < f[i].seq
        BY <1>2, <3>1, <3>3 DEF FragmentLast
      <4>4. QED
        BY <3>3, <4>2, <4>3, HighestOfFragments
    <3>9. ASSUME NEW b \in D, NEW i \in DOMAIN fs[b], Reachable(fs[b], i)
          PROVE  fs[b][i].seq < N
      <4>1. fs[b][i].seq \in Nat /\ b <= fs[b][i].seq /\ b \in Nat
        BY <1>2, <1>11, <3>2, <3>9 DEF FramesOrdered
      <4>2. CASE b = l
        <5>1. fs[b][i].seq <= hi
          BY <3>3, <3>8, <3>9, <4>2
        <5>2. QED
          BY <3>1, <3>5, <3>6, <4>1, <4>2, <5>1
      <4>3. CASE b < l
        <5>1. fs[b][i].seq < l
          BY <1>2, <3>1, <3>9, <4>3 DEF FramesOrdered
        <5>2. QED
          BY <1>7, <3>1, <3>6, <4>1, <5>1
      <4>4. QED
        BY <3>1, <3>2, <4>1, <4>2, <4>3
    <3>10. FramesOrdered(fs, N)
      BY <1>2, <3>9 DEF FramesOrdered
    <3>11. QED
      BY <3>7, <3>10
  <2>3. QED
    BY <1>2, <2>1, <2>2
<1>13. m <= N
  BY <1>1, <1>2, <1>7, <1>12, HeldBelow
<1>14. R = m
  BY <1>2, <1>3, <1>6, <1>7, <1>13
<1>15. \/ X = m
       \/ c > 0 /\ X = bases[1] /\ m < X
  BY <1>2, <1>3, <1>5, <1>6, <1>7, <1>14 DEF ReaderStart
<1>16. \A b \in D : X <= b \/ X = m
  <2> SUFFICES ASSUME NEW i \in 1..c, c > 0, X = bases[1]
               PROVE  X <= bases[i]
    BY <1>4, <1>15
  <2>1. i = 1 \/ (1 < i /\ 1 \in 1..c)
    BY <1>2
  <2>2. QED
    BY <1>5, <1>7, <1>10, <2>1
<1>17. X <= N /\ Held(fs, X) /\ m <= m /\ X <= X
  <2>1. CASE X = m
    BY <1>1, <1>2, <1>13, <2>1
  <2>2. CASE c > 0 /\ X = bases[1]
    <3>1. X \in D
      BY <1>2, <1>5, <2>2
    <3>2. X <= X
      BY <1>7
    <3>3. QED
      BY <1>2, <1>12, <3>1, <3>2 DEF Held
  <2>3. QED
    BY <1>2, <1>7, <1>15, <2>1, <2>2
<1>18. ListIsDirectory'
  <2>1. {s[i].base : i \in 1..c} = {bases[i] : i \in 1..c}
    BY <1>9
  <2>2. \A i, k \in 1..c : i < k => s[i].base <= s[k].base
    BY <1>5, <1>9, <1>10
  <2>3. linked' = D /\ D = DOMAIN files'
    BY <1>1, <1>2, <1>3
  <2>4. QED
    BY <1>4, <1>6, <1>8, <1>9, <1>12, <2>1, <2>2, <2>3 DEF ListIsDirectory
<1>19. FilesSound' /\ AckedHaveFrames'
  BY <1>3, <1>6, <1>12 DEF DamageInv, FilesSound, AckedHaveFrames
<1>20. CursorsHeld'
  <2>1. Held(fs, 0) /\ 0 <= m
    BY <1>2 DEF Held
  <2>2. QED
    BY <1>1, <1>3, <1>6, <1>14, <1>17, <2>1 DEF CursorsHeld
<1>21. PassedDone' /\ ReaderAt'
  <2>1. ASSUME NEW b \in DOMAIN fs, NEW i \in DOMAIN fs[b], Reachable(fs[b], i)
        PROVE  /\ fs[b][i].seq < X => fs[b][i].seq < m
               /\ fs[b][i].seq < m => fs[b][i].seq < readNext
    <3>1. fs[b][i].seq \in Nat /\ b <= fs[b][i].seq /\ b \in Nat
      BY <1>2, <1>11, <2>1 DEF FramesOrdered
    <3>2. X <= b \/ X = m
      BY <1>2, <1>16
    <3>3. QED
      BY <1>2, <1>7, <3>1, <3>2
  <2>2. Passed(fs, X, done) /\ Passed(fs, m, done)
    BY <2>1 DEF Passed
  <2>3. batch' \cup done' = done /\ done' = done
    BY <1>3
  <2>4. QED
    BY <1>3, <1>6, <1>14, <2>2, <2>3 DEF PassedDone, ReaderAt
<1>22. QED
  BY <1>18, <1>19, <1>20, <1>21 DEF DamageInv

LEMMA DamageKill ==
  ASSUME DamageInv, Kill, TypeInv'
  PROVE  DamageInv'
<1>1. files' = files /\ Reopen(files, offset) /\ offset' = offset
  BY DEF Kill
<1>2. /\ Files(files) /\ nextSeq \in Nat /\ FramesOrdered(files, nextSeq) /\ FragmentLast(files)
      /\ Held(files, offset) /\ Passed(files, readNext, done)
  BY DamageTyped DEF DamageInv, FilesSound, CursorsHeld, PassedDone
<1>3. QED
  BY <1>1, <1>2, DamageReopen

LEMMA DamageKillTorn ==
  ASSUME DamageInv, KillTorn, TypeInv'
  PROVE  DamageInv'
<1>1. apc = "write" /\ Reopen(files', offset) /\ offset' = offset
  BY DEF KillTorn
<1>2. PICK k \in 1..(asize - 1) : WriteFrame(k, FALSE)
  BY DEF KillTorn
<1>3. k \in Nat
  <2>1. PICK a \in Nat : a = asize
    BY DEF DamageInv, TypeInv, TypeOK
  <2>2. k \in 1..(a - 1)
    BY <1>2, <2>1
  <2>3. QED
    BY <2>1, <2>2
<1>4. /\ Files(files') /\ DOMAIN files' = DOMAIN files
      /\ FramesOrdered(files', nextSeq) /\ FragmentLast(files')
      /\ \A x : Held(files, x) => Held(files', x)
      /\ Passed(files', readNext, done)
      /\ \A id : HasFrame(files, id) => HasFrame(files', id)
  BY <1>1, <1>2, <1>3, DamageOfWrite
<1>5. PICK fs : fs = files'
  OBVIOUS
<1>6. /\ Files(fs) /\ DOMAIN fs = DOMAIN files
      /\ FramesOrdered(fs, nextSeq) /\ FragmentLast(fs)
      /\ Held(fs, offset) /\ Passed(fs, readNext, done) /\ Reopen(fs, offset)
      /\ \A id : HasFrame(files, id) => HasFrame(fs, id)
  BY <1>1, <1>4, <1>5 DEF DamageInv, CursorsHeld
<1>7. nextSeq \in Nat
  BY DamageTyped
<1>8. QED
  BY <1>1, <1>5, <1>6, <1>7, DamageReopen

LEMMA NextDamageInv ==
  ASSUME "power" \notin Faults, DamageInv, ~OverCap, [Next]_vars
  PROVE  DamageInv'
<1>1. TypeInv'
  BY NextTypeInv DEF DamageInv
<1>2. ASSUME NEW size \in Sizes, AppendBegin(size) PROVE DamageInv'
  BY <1>2, DamageAppendBegin
<1>3. ASSUME NEW size \in Sizes, RotateFails(size) PROVE DamageInv'
  BY <1>1, <1>3, DamageUntouched DEF RotateFails, rvars
<1>4. CASE AppendWrite
  BY <1>4, DamageAppendWrite
<1>5. CASE ShortWrite
  BY <1>5, DamageShortWrite
<1>6. ~EvictOldest /\ ~PowerLoss
  BY DEF EvictOldest, PowerLoss, Fault
<1>7. CASE AppendReturn
  BY <1>1, <1>7, DamageUntouched DEF AppendReturn, dvars, rvars
<1>8. CASE Close
  BY <1>1, <1>8, DamageUntouched DEF Close, rvars, hvars
<1>9. CASE ReadFrame
  BY <1>1, <1>9, DamageReadFrame
<1>10. CASE NoFrame
  BY <1>1, <1>10, DamageUntouched DEF NoFrame, jvars, dvars, hvars
<1>11. CASE DecodeError
  BY <1>1, <1>11, DamageUntouched DEF DecodeError, jvars, dvars, hvars
<1>12. CASE Snapshot
  BY <1>12, DamageSnapshot
<1>13. CASE OpenSegment
  BY <1>1, <1>13, DamageOpenSegment
<1>14. CASE Wake
  BY <1>1, <1>14, DamageUntouched DEF Wake, dvars, hvars
<1>15. CASE WaitExpires
  BY <1>1, <1>15, DamageUntouched DEF WaitExpires, jvars, dvars, hvars
<1>16. CASE Commit
  BY <1>1, <1>16, DamageCommit
<1>17. CASE SaveOffset \/ SaveOffsetFails
  BY <1>1, <1>17, DamageSaveOffset
<1>18. CASE Kill
  BY <1>1, <1>18, DamageKill
<1>19. CASE KillTorn
  BY <1>1, <1>19, DamageKillTorn
<1>20. CASE UNCHANGED vars
  BY <1>1, <1>20, DamageUntouched DEF vars, jvars, dvars, rvars, hvars
<1>21. QED
  BY <1>2, <1>3, <1>4, <1>5, <1>6, <1>7, <1>8, <1>9, <1>10, <1>11, <1>12, <1>13, <1>14,
     <1>15, <1>16, <1>17, <1>18, <1>19, <1>20 DEF Next

\* A fragment, of a write that failed or was killed, costs the records behind it in its own
\* file and no other, however often that happens (journal.go's recover and highestSeq,
\* reader.go's readFrame), as long as nothing is evicted and no machine loses power.
THEOREM DamageStaysConfined ==
  ASSUME "power" \notin Faults
  PROVE  Spec /\ []~OverCap => []DamageConfined
<1>1. DamageInv => DamageConfined
  <2> SUFFICES ASSUME DamageInv, NEW id \in Owed, ~BehindFragment(id)
               PROVE  OnDisk(id, offset)
    BY DEF DamageConfined
  <2>1. id \in acked /\ id \notin done /\ linked = DOMAIN files
    BY DamageTyped DEF Owed
  <2>2. PICK b \in DOMAIN files : \E i \in DOMAIN files[b] : files[b][i].id = id
    BY <2>1 DEF DamageInv, AckedHaveFrames, HasFrame
  <2>3. PICK i \in DOMAIN files[b] : files[b][i].id = id
    BY <2>2
  <2>4. Reachable(files[b], i)
    BY <2>1, <2>3 DEF BehindFragment
  <2>5. ~(files[b][i].seq < readNext)
    BY <2>1, <2>3, <2>4 DEF DamageInv, PassedDone, Passed
  <2>6. files[b][i].seq >= offset
    <3>1. files[b][i].seq \in Nat /\ offset \in Nat /\ readNext \in Nat /\ offset <= readNext
      BY DamageTyped, FilesTyped DEF DamageInv, CursorsHeld
    <3>2. QED
      BY <2>5, <3>1
  <2>7. QED
    BY <2>1, <2>3, <2>4, <2>6 DEF OnDisk
<1>2. DamageInv /\ ~OverCap /\ [Next]_vars => DamageInv'
  BY NextDamageInv
<1>3. Init => DamageInv
  BY InitDamageInv
<1>4. QED
  BY <1>1, <1>2, <1>3, PTL DEF Spec

=============================================================================
