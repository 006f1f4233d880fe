----------------------------- MODULE GelfChunks -----------------------------
(***************************************************************************)
(* The reassembly of chunked GELF datagrams (internal/input/gelf.go).  The      *)
(* network delivers the chunks of a message in any order, late, more than once  *)
(* or never.  All chunks of a message carry the same count, as senders make    *)
(* them; add does not test it, and panics at a larger one (gelf.go:149).      *)
(***************************************************************************)
EXTENDS Integers, Sequences, SequencesExt

CONSTANTS
  Ids,          \* message ids
  Count,        \* chunks of each message
  EmptyChunks,  \* chunks <<id, seq>> without a payload
  Timeout,      \* gelfChunkTimeout
  MaxDelivered, \* bound: datagrams
  MaxTime       \* bound: the clock

ASSUME GelfAssumption ==
  /\ Count \in [Ids -> 1..128] /\ {Timeout, MaxDelivered, MaxTime} \subseteq Nat

VARIABLES
  now,
  datagrams,  \* the chunks that arrived, with their time
  msgs,       \* chunkReassembler.msgs: parts holds the number of the datagram
  emitted     \* the messages that were put together, as such parts

gfvars == <<now, datagrams, msgs, emitted>>

NoParts == [n \in {} |-> 0]

IsPartsOf(p, id) == DOMAIN p \subseteq 0..(Count[id] - 1) /\ Range(p) \subseteq DOMAIN datagrams

GelfTypeOK ==
  /\ now \in 0..MaxTime
  /\ Len(datagrams) <= MaxDelivered
  /\ DOMAIN msgs \subseteq Ids
  /\ \A id \in DOMAIN msgs :
       /\ IsPartsOf(msgs[id].parts, id)
       /\ msgs[id].received \in 1..(Count[id] - 1) /\ msgs[id].ts \in 0..now
  /\ \A i \in DOMAIN emitted : IsPartsOf(emitted[i].parts, emitted[i].id)

GelfInit == now = 0 /\ datagrams = <<>> /\ msgs = <<>> /\ emitted = <<>>

Passes ==
  /\ now < MaxTime /\ now' = now + 1
  /\ UNCHANGED <<datagrams, msgs, emitted>>

\* evictExpiredLocked.
Expired == {id \in DOMAIN msgs : now - msgs[id].ts > Timeout}

Received_Duplicates(p, seq) ==       \* mutant: a chunk that came again is counted
  p.received + 1
Received(p, seq) == IF seq \in DOMAIN p.parts THEN p.received ELSE p.received + 1

\* An assignment to f[x].
Put(f, x, v) == [y \in DOMAIN f \cup {x} |-> IF y = x THEN v ELSE f[y]]

\* p.parts[seq] stays nil when the payload is empty.
WithPart(p, id, seq) ==
  IF seq \in DOMAIN p.parts \/ <<id, seq>> \in EmptyChunks THEN p.parts
  ELSE Put(p.parts, seq, Len(datagrams) + 1)

\* onPacket, with add: what is expired goes first, the message the chunk belongs to too.
Add(id, seq) ==
  LET kept == [i \in DOMAIN msgs \ Expired |-> msgs[i]]
      old  == IF id \in DOMAIN kept THEN kept[id]
              ELSE [parts |-> NoParts, received |-> 0, ts |-> now]
      new  == [old EXCEPT !.parts = WithPart(old, id, seq), !.received = Received(old, seq)]
  IN /\ Len(datagrams) < MaxDelivered
     /\ datagrams' = Append(datagrams, [id |-> id, seq |-> seq, at |-> now])
     /\ IF new.received < Count[id]
        THEN msgs' = Put(kept, id, new) /\ UNCHANGED emitted
        ELSE /\ msgs' = [i \in DOMAIN kept \ {id} |-> kept[i]]
             /\ emitted' = Append(emitted, [id |-> id, parts |-> new.parts])
  /\ UNCHANGED now

GelfNext == Passes \/ \E id \in Ids : \E seq \in 0..(Count[id] - 1) : Add(id, seq)

GelfSpec == GelfInit /\ [][GelfNext]_gfvars

-----------------------------------------------------------------------------
(* Properties.                                                              *)

\* A message that is emitted has each of its chunks, no chunk served for two messages,
\* and all came within the timeout, however datagrams are lost, repeated, reordered or
\* late; unless it has a chunk without a payload, which is not remembered and counts
\* each time it comes (gelf.go:127-171).
WholeAndOnce ==
  \A i \in DOMAIN emitted :
    LET parts == emitted[i].parts
        id    == emitted[i].id
        at(s) == datagrams[parts[s]].at
    IN (\A s \in 0..(Count[id] - 1) : <<id, s>> \notin EmptyChunks) =>
         /\ DOMAIN parts = 0..(Count[id] - 1)
         /\ \A s \in DOMAIN parts :
              /\ datagrams[parts[s]].id = id /\ datagrams[parts[s]].seq = s
              /\ \A t \in DOMAIN parts : at(s) - at(t) <= Timeout
              /\ \A k \in DOMAIN emitted \ {i} : parts[s] \notin Range(emitted[k].parts)

=============================================================================
