------------------------------ MODULE BlobArena ------------------------------
(***************************************************************************)
(* Large payloads beside the wire: a message's payloads are spilled to a   *)
(* fixed region (transport.py over ipc.py's ShmBlobArena), which is written *)
(* from the start again when its end is reached, and resolved later by a   *)
(* receiver, of the same process or of another one with an epoch of its    *)
(* own.  A byte is known by the blob it belongs to and its place there; a  *)
(* header and a payload each take some of them.                            *)
(***************************************************************************)
EXTENDS Integers, Sequences, FiniteSets

CONSTANTS Capacity, HeaderLen, Value, Length, Threshold, MaxGeneration, MaxBlobs, MaxEpoch, None

VARIABLES
  shared,      \* one process: the receiver's backend is the producer's
  region,      \* the bytes
  offset,      \* _write_offset
  generation,  \* _next_generation
  epochs,      \* _epoch of the producer's and of the receiver's backend
  writing,     \* the descriptor whose payload is not written yet, None
  minted       \* ghost: descriptors returned, in order
vars == <<shared, region, offset, generation, epochs, writing, minted>>

Init ==
  /\ shared \in BOOLEAN
  /\ region = [i \in 0..Capacity - 1 |-> None]
  /\ offset = 0 /\ generation = 1
  /\ epochs = [producer |-> 0, receiver |-> 0]
  /\ writing = None /\ minted = <<>>

\* What the bytes of a blob are; equal payloads have equal bytes.
HeaderByte(d, i) == [part |-> "header", of |-> d, at |-> i]
PayloadByte(d, i) == [part |-> "payload", of |-> [value |-> d.checksum, len |-> d.len], at |-> i]
HeaderAt(o, d) == \A i \in 0..HeaderLen - 1 : region[o + i] = HeaderByte(d, i)
PayloadAt(d) == \A i \in 0..d.len - 1 : region[d.offset + HeaderLen + i] = PayloadByte(d, i)
TotalLen(n) == HeaderLen + n

\* spill_value, for each payload of a message in turn: it stays inline when it
\* is small, too large, or there are no generations left, and the offset may
\* have wrapped by then.
Wrapped(n) == IF offset + TotalLen(n) > Capacity THEN 0 ELSE offset
Stays(n) == n < Threshold \/ n > Capacity - HeaderLen
StayInline(n) ==
  /\ writing = None
  /\ Stays(n) \/ generation = MaxGeneration
  /\ offset' = IF Stays(n) THEN offset ELSE Wrapped(n)
  /\ UNCHANGED <<shared, region, generation, epochs, writing, minted>>
\* The header goes first, the payload after it.
WriteHeader(v, n) ==
  LET o == Wrapped(n)
      d == [offset |-> o, len |-> n, generation |-> generation, epoch |-> epochs.producer, checksum |-> v]
  IN /\ writing = None /\ ~Stays(n) /\ generation < MaxGeneration /\ Len(minted) < MaxBlobs
     /\ generation' = generation + 1 /\ writing' = d /\ offset' = o
     /\ region' = [i \in DOMAIN region |-> IF i \in o..o + HeaderLen - 1 THEN HeaderByte(d, i - o) ELSE region[i]]
     /\ UNCHANGED <<shared, epochs, minted>>
\* Mutant: the offset moves past the payload only, not past the header.
NextOffsetShort(d) == IF offset + d.len = Capacity THEN 0 ELSE offset + d.len

NextOffset(d) == IF offset + TotalLen(d.len) = Capacity THEN 0 ELSE offset + TotalLen(d.len)

WritePayload ==
  /\ writing # None
  /\ LET d == writing
         first == d.offset + HeaderLen
     IN /\ region' = [i \in DOMAIN region |->
                        IF i \in first..first + d.len - 1 THEN PayloadByte(d, i - first) ELSE region[i]]
        /\ offset' = NextOffset(d) /\ minted' = Append(minted, d)
  /\ writing' = None /\ UNCHANGED <<shared, generation, epochs>>

AdvanceEpoch ==
  /\ epochs.producer < MaxEpoch /\ writing = None
  /\ epochs' = [producer |-> epochs.producer + 1,
                receiver |-> IF shared THEN epochs.producer + 1 ELSE epochs.receiver]
  /\ UNCHANGED <<shared, region, offset, generation, writing, minted>>
\* The other process's backend has an epoch of its own.
ReceiverAdvances ==
  /\ ~shared /\ epochs.receiver < MaxEpoch /\ epochs' = [epochs EXCEPT !.receiver = @ + 1]
  /\ UNCHANGED <<shared, region, offset, generation, writing, minted>>
\* A producer that crashed replaces the region it left, and the receiver opens
\* the new one; descriptors of the old one are still on their way.
Create ==
  /\ ~shared /\ region' = [i \in DOMAIN region |-> None] /\ offset' = 0 /\ generation' = 1
  /\ epochs' = [producer |-> 0, receiver |-> 0] /\ writing' = None
  /\ minted # <<>> /\ UNCHANGED <<shared, minted>>

Next ==
  \/ \E n \in Length : StayInline(n) \/ \E v \in Value : WriteHeader(v, n)
  \/ WritePayload \/ AdvanceEpoch \/ ReceiverAdvances \/ Create
Spec == Init /\ [][Next]_vars

-----------------------------------------------------------------------------
\* BlobBackend.read_view.
Resolves(d, epoch) == d.epoch = epoch /\ HeaderAt(d.offset, d) /\ PayloadAt(d)

\* A blob resolves to its own payload or not at all: while the header of a
\* descriptor is in place so are the bytes behind it, through every wrap and a
\* restart of the producer; only the header being written is there before its
\* bytes, and the checksum refuses it.  The last blob stays until the next
\* write, and no blob reaches over the end of the region.
BlobsIntact ==
  /\ \A j \in DOMAIN minted : LET d == minted[j] IN
       /\ (HeaderAt(d.offset, d) /\ d # writing) => PayloadAt(d)
       /\ d.offset + TotalLen(d.len) <= Capacity
  /\ LET last == minted[Len(minted)] IN
       (minted # <<>> /\ writing = None /\ generation > 1) => Resolves(last, last.epoch)
  /\ offset < Capacity
=============================================================================
