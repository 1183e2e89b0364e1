---------------------------- MODULE RingBuffer ----------------------------
(***************************************************************************)
(* pif_ring_buffer.c: a byte ring buffer between one writer and one reader, *)
(* of which one is the main context and the other an interrupt.  A step is  *)
(* what happens between two accesses to a field the other side changes, or  *)
(* a section under the lock; the side in the interrupt finishes its call    *)
(* before the main context goes on.                                         *)
(***************************************************************************)
EXTENDS Integers, Sequences

CONSTANTS
  Size,        \* _size
  Byte,        \* the bytes
  Policies,    \* the overflow policies a buffer may be given: "none", "char", "length"
  ChopChar,    \* __ui.chop_off_char
  ChopLength,  \* __ui.chop_off_length
  MaxPut,      \* longest block given to a put
  Linear,      \* lengths given to pifRingBuffer_MoveHeadForLinear()
  Word         \* 2^16, where a uint16_t wraps

ASSUME SizeAssumption == Size \in Nat /\ Size > 0 /\ Word \in Nat /\ Size < Word
ASSUME ChopAssumption ==
  /\ Policies \subseteq {"none", "char", "length"}
  /\ ChopLength \in Nat
  /\ MaxPut \in Nat /\ Linear \subseteq Nat

VARIABLES
  chopOff,    \* _bt.chop_off
  writerIsr,  \* the writer is the interrupt, and the reader the main context
  buf,      \* __p_buffer
  head,     \* __head
  tail,     \* __tail
  putHead,  \* __put_head
  claim,    \* __claim
  putting,  \* _bt.putting
  wpc,      \* where the put of the writer is
  todo,     \* bytes it has still to store
  need,     \* bytes it has to free first
  rpc,      \* where pifRingBuffer_GetFillSize() of the reader is
  seen,     \* the head it has read
  fill,     \* what it returned
  handed    \* bytes from the tail the reader was handed in place

\* Chosen before the first byte.
setup == <<chopOff, writerIsr>>
writer == <<wpc, todo, need>>
reader == <<rpc, seen, fill, handed>>
vars == <<setup, buf, head, tail, putHead, claim, putting, writer, reader>>

Index == 0 .. Size - 1

\* The index n bytes after i, for n up to the size.
After(i, n) == IF i + n >= Size THEN i + n - Size ELSE i + n
Distance(i, j) == IF j >= i THEN j - i ELSE Size - i + j

Less(a, n) == IF a > n THEN a - n ELSE 0

\* Mutated Remain: no slot is kept free.
WholeRemain == IF putHead < tail THEN tail - putHead ELSE Size - putHead + tail

\* pifRingBuffer_GetFillSize() and pifRingBuffer_GetRemainSize()
Fill == Distance(tail, head)
Remain == IF putHead < tail THEN tail - putHead - 1 ELSE Size - putHead + tail - 1

Init ==
  /\ chopOff \in Policies /\ writerIsr \in BOOLEAN
  /\ buf \in [Index -> Byte]
  /\ head = 0 /\ tail = 0 /\ putHead = 0
  /\ claim = 0
  /\ putting = FALSE
  /\ wpc = "idle" /\ todo = 0 /\ need = 0
  /\ rpc = "idle" /\ seen = 0 /\ fill = 0 /\ handed = 0

WriterRuns == ~writerIsr => rpc = "idle"
ReaderRuns == writerIsr => wpc = "idle"

(***************************************************************************)
(* The writer                                                              *)
(***************************************************************************)

\* pifRingBuffer_PutByte() and pifRingBuffer_PutData(): is there room?
PutCheck(n) ==
  /\ WriterRuns /\ wpc = "idle"
  /\ todo' = n
  /\ wpc' = IF n > Remain THEN "chop" ELSE "store"
  /\ need' = Less(n, Remain)
  /\ UNCHANGED <<setup, buf, head, tail, putHead, claim, putting, reader>>

\* Mutated WholeSteps: what is needed, and no more.
ExactSteps(count) == count

\* The smallest number of whole records that frees count bytes.
WholeSteps(count) == ((count + ChopLength - 1) \div ChopLength) * ChopLength

\* Mutated Claimed: bytes the reader holds are not looked at.
NeverClaimed == FALSE

Claimed == claim > 0

\* What _chopOff() drops to free count bytes, at most one number.
Drops(count) ==
  IF Claimed \/ chopOff = "none" THEN {}
  ELSE IF chopOff = "char"
  THEN LET hit(k) == buf[After(tail, k)] = ChopChar
       IN  {k \in count .. Fill - 1 : hit(k) /\ \A j \in count .. k - 1 : ~hit(j)}
  ELSE IF ChopLength = 0 THEN {}
  ELSE IF WholeSteps(count) < Fill THEN {WholeSteps(count)}
  ELSE IF count <= Fill THEN {Fill} ELSE {}

\* The tail after n bytes are dropped.  A step of records is added in 16 bits;
\* a search for a character, and all of the bytes, end at an index.
ChoppedTail(n) ==
  IF chopOff = "length" /\ n < Fill
  THEN LET sum == (tail + n) % Word
       IN  IF sum >= Size THEN sum - Size ELSE sum
  ELSE After(tail, n)

\* _chopOff() under the lock.  Without room the put gives up.
Chop ==
  /\ WriterRuns /\ wpc = "chop"
  /\ \/ /\ \E n \in Drops(need) : tail' = ChoppedTail(n)
        /\ wpc' = "store"
        /\ UNCHANGED todo
     \/ /\ Drops(need) = {}
        /\ wpc' = "idle"
        /\ todo' = 0
        /\ UNCHANGED tail
  /\ need' = 0
  /\ UNCHANGED <<setup, buf, head, putHead, claim, putting, reader>>

\* One byte is written, not yet to be seen.
Store ==
  /\ WriterRuns /\ wpc = "store"
  /\ \E b \in Byte : buf' = [buf EXCEPT ![putHead] = b]
  /\ wpc' = "publish"
  /\ UNCHANGED <<setup, head, tail, putHead, claim, putting, todo, need, reader>>

\* _publish()
Publish ==
  /\ WriterRuns /\ wpc = "publish"
  /\ putHead' = After(putHead, 1)
  /\ head' = IF putting THEN head ELSE After(putHead, 1)
  /\ todo' = todo - 1
  /\ wpc' = IF todo = 1 THEN "idle" ELSE "store"
  /\ UNCHANGED <<setup, buf, tail, claim, putting, need, reader>>

BeginPutting ==
  /\ WriterRuns /\ wpc = "idle"
  /\ putHead' = head
  /\ putting' = TRUE
  /\ UNCHANGED <<setup, buf, head, tail, claim, writer, reader>>

CommitPutting ==
  /\ WriterRuns /\ wpc = "idle"
  /\ putting' = FALSE
  /\ head' = putHead
  /\ UNCHANGED <<setup, buf, tail, putHead, claim, writer, reader>>

\* Mutated RollbackHead: the bytes of the session are kept.
KeptHead == putHead

RollbackHead == head

RollbackPutting ==
  /\ WriterRuns /\ wpc = "idle"
  /\ putHead' = RollbackHead
  /\ putting' = FALSE
  /\ UNCHANGED <<setup, buf, head, tail, claim, writer, reader>>

\* An empty buffer whose end is too near is moved back to its start, by a writer in
\* the main context that puts frames in one piece (pif_gps_ublox.c).
MoveHeadForLinear(n) ==
  /\ WriterRuns /\ ~writerIsr /\ wpc = "idle"
  /\ n < Size /\ ~putting
  /\ putHead = tail
  /\ Size - putHead < n
  /\ head' = 0 /\ putHead' = 0 /\ tail' = 0 /\ claim' = 0
  /\ UNCHANGED <<setup, buf, putting, writer, reader>>

(***************************************************************************)
(* The reader                                                              *)
(***************************************************************************)

\* pifRingBuffer_GetByte() and pifRingBuffer_GetBytes()
GetBytes(n) ==
  /\ ReaderRuns /\ rpc = "idle"
  /\ n <= Fill
  /\ tail' = After(tail, n)
  /\ claim' = Less(claim, n)
  /\ handed' = Less(handed, n)
  /\ UNCHANGED <<setup, buf, head, putHead, putting, writer, rpc, seen, fill>>

\* pifRingBuffer_GetReadPointer(): the bytes from pos up to the end of the
\* memory, for a reader that asks on from what it was handed before.
GetReadPointer(pos) ==
  /\ ReaderRuns /\ rpc = "idle"
  /\ pos < Fill
  /\ LET room == Size - After(tail, pos)
         length == IF Fill - pos > room THEN room ELSE Fill - pos
     IN  /\ claim' = IF claim < pos + length THEN pos + length ELSE claim
         /\ handed' = IF handed < pos + length THEN pos + length ELSE handed
  /\ UNCHANGED <<setup, buf, head, tail, putHead, putting, writer, rpc, seen, fill>>

\* pifRingBuffer_Remove(), of the bytes that were sent.
Remove(n) ==
  /\ ReaderRuns /\ rpc = "idle"
  /\ n <= handed
  /\ tail' = IF n >= Fill THEN head ELSE After(tail, n)
  /\ claim' = 0
  /\ handed' = 0
  /\ UNCHANGED <<setup, buf, head, putHead, putting, writer, rpc, seen, fill>>

\* pifRingBuffer_GetFillSize() outside the lock reads the head, then the tail.
ReadHead ==
  /\ ReaderRuns /\ rpc = "idle"
  /\ seen' = head
  /\ rpc' = "tail"
  /\ UNCHANGED <<setup, buf, head, tail, putHead, claim, putting, writer, fill, handed>>

ReadTail ==
  /\ ReaderRuns /\ rpc = "tail"
  /\ fill' = Distance(tail, seen)
  /\ rpc' = "idle"
  /\ UNCHANGED <<setup, buf, head, tail, putHead, claim, putting, writer, seen, handed>>

\* pifRingBuffer_Empty() by the reader, which is done with what it was handed.
Empty ==
  /\ ReaderRuns /\ rpc = "idle"
  /\ tail' = head
  /\ claim' = 0
  /\ handed' = 0
  /\ UNCHANGED <<setup, buf, head, putHead, putting, writer, rpc, seen, fill>>

Next ==
  \/ \E n \in 1 .. MaxPut : PutCheck(n)
  \/ \E n \in Linear : MoveHeadForLinear(n)
  \/ Chop \/ Store \/ Publish
  \/ BeginPutting \/ CommitPutting \/ RollbackPutting
  \/ \E n \in 1 .. Fill : GetBytes(n)
  \/ \E n \in 0 .. handed : GetReadPointer(n) \/ Remove(n)
  \/ ReadHead \/ ReadTail
  \/ Empty

Spec == Init /\ [][Next]_vars

(***************************************************************************)
(* Properties                                                              *)
(***************************************************************************)

TypeOK ==
  /\ chopOff \in Policies /\ writerIsr \in BOOLEAN
  /\ buf \in [Index -> Byte]
  /\ head \in Index /\ tail \in Index /\ putHead \in Index
  /\ claim \in Nat
  /\ putting \in BOOLEAN
  /\ wpc \in {"idle", "chop", "store", "publish"}
  /\ todo \in Nat /\ need \in Nat
  /\ rpc \in {"idle", "tail"}
  /\ seen \in Index /\ fill \in Nat /\ handed \in Nat

\* The bytes from i up to j.
Between(i, j) == [k \in 1 .. Distance(i, j) |-> buf[After(i, k - 1)]]

\* Bytes come out once and in order, a put session is seen whole or not at all,
\* and what is dropped is the oldest: the buffer is a byte queue.
Queue == INSTANCE ByteQueue WITH
           Capacity <- Size - 1, queue <- Between(tail, head), session <- Between(head, putHead),
           open <- putting
IsByteQueue == Queue!Spec

\* The writer never catches up with the tail: the bytes of the reader and of the
\* session leave one slot free, with room for the block being put once it is
\* under way ("all or none", pifRingBuffer_PutData), and the session lies
\* between the head and the tail.
NeverLapped ==
  /\ Fill + Distance(head, putHead) = Distance(tail, putHead)
  /\ wpc \in {"store", "publish"} => todo <= Remain
  /\ claim <= Fill

\* "They stay claimed until the reader removes them" (StPifRingBuffer): bytes
\* handed out in place stay where they are, and what they are, until the reader
\* takes or removes them.
HandedStay ==
  [][(handed > 0 /\ handed' = handed /\ rpc' = rpc) =>
        /\ tail' = tail
        /\ \A k \in 0 .. handed - 1 : buf'[After(tail, k)] = buf[After(tail, k)]]_vars

\* "Read head and tail once each, since an interrupt may move either of them"
\* (pifRingBuffer_GetFillSize): what it returns to the reader is not more than
\* there is, as long as no policy of the writer moves the tail in between.
FillIsThere == [][chopOff = "none" /\ rpc = "tail" /\ rpc' = "idle" => fill' <= Fill]_vars

\* "Drops old data in steps of length bytes" (pifRingBuffer_ChopsOffLength).
DropsWholeRecords ==
  [][chopOff = "length" /\ wpc = "chop" /\ wpc' = "store" =>
        \/ tail' = head
        \/ Distance(tail, tail') % ChopLength = 0]_vars
=============================================================================
