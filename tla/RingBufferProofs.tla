------------------------- MODULE RingBufferProofs -------------------------
(***************************************************************************)
(* What TLAPS proves of the ring buffer for every size and every policy.    *)
(***************************************************************************)
EXTENDS RingBuffer, TLAPS

\* No step of records wraps an index in 16 bits.
Narrow == "length" \in Policies => 2 * Size <= Word

(***************************************************************************)
(* Indices                                                                 *)
(***************************************************************************)

\* After stays an index, and Distance counts the bytes between two of them.
LEMMA AfterType ==
  ASSUME NEW i \in Index, NEW n \in 0 .. Size
  PROVE  After(i, n) \in Index
BY SizeAssumption DEF Index, After

LEMMA DistanceType ==
  ASSUME NEW i \in Index, NEW j \in Index
  PROVE  /\ Distance(i, j) \in 0 .. Size - 1
         /\ Distance(i, j) = 0 <=> i = j
BY SizeAssumption DEF Index, Distance

\* Moving the far end away adds to a distance, moving the near end takes from it.
LEMMA DistanceFar ==
  ASSUME NEW i \in Index, NEW j \in Index, NEW n \in Nat, Distance(i, j) + n < Size
  PROVE  Distance(i, After(j, n)) = Distance(i, j) + n
BY SizeAssumption DEF Index, Distance, After

LEMMA DistanceNear ==
  ASSUME NEW i \in Index, NEW j \in Index, NEW n \in Nat, n <= Distance(i, j)
  PROVE  Distance(After(i, n), j) = Distance(i, j) - n
BY SizeAssumption DEF Index, Distance, After

\* The bytes before the distance of an index are not at that index.
LEMMA NotBefore ==
  ASSUME NEW i \in Index, NEW j \in Index, NEW n \in Nat, n < Distance(i, j)
  PROVE  After(i, n) # j /\ After(i, n) \in Index
BY SizeAssumption DEF Index, Distance, After

\* What is used and what is free fill the memory up to one slot.
LEMMA RemainDistance ==
  ASSUME TypeOK
  PROVE  Remain = Size - 1 - Distance(tail, putHead)
BY SizeAssumption DEF TypeOK, Index, Remain, Distance

\* Whole records free at least what is asked.
LEMMA WholeStepsEnough ==
  ASSUME NEW count \in Nat, ChopLength # 0
  PROVE  WholeSteps(count) \in Nat /\ count <= WholeSteps(count)
<1> DEFINE q == (count + ChopLength - 1) \div ChopLength
<1>1. ChopLength \in Nat /\ ChopLength > 0
  BY ChopAssumption
<1>2. q \in Nat
  BY <1>1
<1>3. /\ count + ChopLength - 1 = (ChopLength * q) + ((count + ChopLength - 1) % ChopLength)
      /\ (count + ChopLength - 1) % ChopLength \in 0 .. ChopLength - 1
  BY <1>1
<1>4. q * ChopLength = ChopLength * q /\ ChopLength * q \in Nat
  BY <1>1, <1>2
<1> HIDE DEF q
<1>5. count <= q * ChopLength
  BY <1>1, <1>3, <1>4
<1> QED
  BY <1>4, <1>5 DEF WholeSteps, q

\* A chop-off frees at least what is asked, at most what the reader may take, and
\* nothing while the reader holds bytes.
LEMMA DropsEnough ==
  ASSUME TypeOK, NEW count \in Nat, NEW n \in Drops(count)
  PROVE  n \in Nat /\ count <= n /\ n <= Fill /\ claim = 0
<1> Fill \in 0 .. Size - 1
  BY DistanceType DEF Fill, TypeOK
<1>1. claim = 0
  BY DEF Drops, Claimed, TypeOK
<1>2. CASE chopOff = "char"
  BY <1>1, <1>2, SizeAssumption DEF Drops
<1>3. CASE chopOff = "length" /\ ChopLength # 0
  BY <1>1, <1>3, WholeStepsEnough, SizeAssumption DEF Drops
<1> QED
  BY <1>1, <1>2, <1>3, ChopAssumption DEF Drops, TypeOK

\* The tail moves over what is dropped.
LEMMA ChoppedTailAfter ==
  ASSUME Narrow, TypeOK, NEW n \in Nat, n <= Fill
  PROVE  ChoppedTail(n) = After(tail, n) /\ ChoppedTail(n) \in Index
<1> Fill \in 0 .. Size - 1 /\ tail \in Index
  BY DistanceType DEF Fill, TypeOK
<1>1. After(tail, n) \in Index
  BY AfterType, SizeAssumption
<1>2. CASE chopOff = "length" /\ n < Fill
  <2>1. tail \in Nat /\ tail + n < Word
    BY <1>2, SizeAssumption DEF Narrow, Index, TypeOK
  <2>2. (tail + n) % Word = tail + n
    BY <2>1, SizeAssumption
  <2>3. ChoppedTail(n) = After(tail, n)
    BY <1>2, <2>1, <2>2, SizeAssumption DEF ChoppedTail, After
  <2> QED
    BY <1>1, <2>3
<1>3. CASE ~(chopOff = "length" /\ n < Fill)
  BY <1>1, <1>3 DEF ChoppedTail
<1> QED
  BY <1>2, <1>3

(***************************************************************************)
(* The invariant                                                           *)
(***************************************************************************)

\* A put that has looked at the room finds it, or finds it after the chop-off.
PutHasRoom ==
  /\ wpc = "idle" \/ todo > 0
  /\ wpc = "chop" => todo <= Remain + need

IInv == TypeOK /\ NeverLapped /\ PutHasRoom

LEMMA InitIInv == Init => IInv
<1> SUFFICES ASSUME Init PROVE IInv
  OBVIOUS
<1>1. 0 \in Index
  BY SizeAssumption DEF Index
<1>2. TypeOK
  BY <1>1 DEF Init, TypeOK
<1>3. Distance(0, 0) = 0
  BY <1>1, DistanceType
<1>4. NeverLapped /\ PutHasRoom
  BY <1>3 DEF Init, NeverLapped, PutHasRoom, Fill
<1> QED
  BY <1>2, <1>4 DEF IInv

\* Moving only the tail forward, over bytes the reader may take, keeps it.
LEMMA TailForward ==
  ASSUME IInv, NEW n \in Nat, n <= Fill, tail' = After(tail, n),
         UNCHANGED <<head, putHead>>
  PROVE  /\ tail' \in Index
         /\ Fill' = Fill - n
         /\ Fill' + Distance(head', putHead') = Distance(tail', putHead')
         /\ Remain' = Remain + n
<1> /\ head \in Index /\ tail \in Index /\ putHead \in Index
    /\ Fill \in Nat /\ Fill < Size
    /\ Distance(head, putHead) \in Nat /\ Distance(tail, putHead) \in Nat
    /\ Distance(head, putHead) + Fill = Distance(tail, putHead)
  <2>1. head \in Index /\ tail \in Index /\ putHead \in Index
    BY DEF IInv, TypeOK
  <2>2. Fill + Distance(head, putHead) = Distance(tail, putHead)
    BY DEF IInv, NeverLapped
  <2> QED
    BY <2>1, <2>2, DistanceType, SizeAssumption DEF Fill
<1>1. tail' \in Index
  BY AfterType, SizeAssumption
<1>2. Fill' = Fill - n
  BY DistanceNear DEF Fill
<1>3. Distance(tail', putHead) = Distance(tail, putHead) - n
  BY DistanceNear
<1>4. Remain' = Size - 1 - Distance(tail', putHead)
  BY <1>1, SizeAssumption DEF Index, Remain, Distance
<1>5. Remain = Size - 1 - Distance(tail, putHead)
  BY RemainDistance DEF IInv
<1> QED
  BY <1>1, <1>2, <1>3, <1>4, <1>5, SizeAssumption

\* The steps of the writer that move its cursor by one byte.
LEMMA PutForward ==
  ASSUME IInv, Remain > 0, putHead' = After(putHead, 1), tail' = tail,
         head' = head \/ head' = putHead'
  PROVE  /\ putHead' \in Index /\ head' \in Index
         /\ Fill' + Distance(head', putHead') = Distance(tail', putHead')
         /\ Fill <= Fill'
         /\ Remain' = Remain - 1
<1>1. /\ head \in Index /\ tail \in Index /\ putHead \in Index
      /\ Distance(tail, head) \in Nat /\ Distance(head, putHead) \in Nat
      /\ Distance(tail, head) + Distance(head, putHead) = Distance(tail, putHead)
  BY DistanceType DEF IInv, TypeOK, NeverLapped, Fill
<1>2. Remain = Size - 1 - Distance(tail, putHead)
  BY RemainDistance DEF IInv
<1>3. putHead' \in Index /\ head' \in Index
  BY <1>1, AfterType, SizeAssumption
<1>4. Distance(tail, putHead') = Distance(tail, putHead) + 1
  BY <1>1, <1>2, DistanceFar, DistanceType, SizeAssumption
<1>5. Remain' = Size - 1 - Distance(tail, putHead')
  BY <1>1, <1>3, SizeAssumption DEF Index, Remain, Distance
<1>6. CASE head' = head
  <2>1. Distance(head, putHead') = Distance(head, putHead) + 1
    BY <1>1, <1>2, DistanceFar, DistanceType, SizeAssumption
  <2> QED
    BY <1>1, <1>2, <1>3, <1>4, <1>5, <1>6, <2>1, DistanceType, SizeAssumption DEF Fill
<1>7. CASE head' = putHead'
  <2>1. Distance(head', putHead') = 0
    BY <1>3, <1>7, DistanceType
  <2> QED
    BY <1>1, <1>2, <1>3, <1>4, <1>5, <1>7, <2>1, DistanceType, SizeAssumption DEF Fill
<1> QED
  BY <1>6, <1>7

\* A step that leaves the cursors, the claim and the put alone disturbs nothing.
LEMMA CursorsKept ==
  ASSUME IInv, UNCHANGED <<head, tail, putHead, claim, writer>>, TypeOK'
  PROVE  IInv'
BY DEF IInv, NeverLapped, PutHasRoom, Fill, Remain, Distance, writer

\* A step of the reader that moves the tail over n bytes.
LEMMA TailMoved ==
  ASSUME IInv, NEW n \in Nat, n <= Fill, tail' = After(tail, n),
         UNCHANGED <<head, putHead, writer>>, TypeOK',
         claim' = Less(claim, n) \/ claim' = 0
  PROVE  IInv'
<1>1. /\ claim \in Nat /\ claim <= Fill /\ Fill \in Nat
      /\ todo \in Nat /\ need \in Nat /\ Remain \in Nat
  <2>1. head \in Index /\ tail \in Index /\ putHead \in Index
    BY DEF IInv, TypeOK
  <2>2. Fill \in Nat
    BY <2>1, DistanceType DEF Fill
  <2>3. Remain \in Nat
    BY <2>1, RemainDistance, DistanceType, SizeAssumption DEF IInv
  <2> QED
    BY <2>2, <2>3 DEF IInv, TypeOK, NeverLapped
<1>2. /\ Fill' = Fill - n
      /\ Fill' + Distance(head', putHead') = Distance(tail', putHead')
      /\ Remain' = Remain + n
  BY TailForward
<1>3. claim' <= Fill'
  BY <1>1, <1>2 DEF Less
<1>4. wpc' \in {"store", "publish"} => todo' <= Remain'
  BY <1>1, <1>2 DEF IInv, NeverLapped, writer
<1>5. PutHasRoom'
  BY <1>1, <1>2 DEF IInv, PutHasRoom, writer
<1> QED
  BY <1>2, <1>3, <1>4, <1>5 DEF IInv, NeverLapped

\* What the steps use of the state before them.
LEMMA Facts ==
  ASSUME IInv
  PROVE  /\ head \in Index /\ tail \in Index /\ putHead \in Index
         /\ Fill \in 0 .. Size - 1 /\ Remain \in Nat /\ Remain < Size
         /\ todo \in Nat /\ need \in Nat /\ claim \in Nat /\ claim <= Fill
         /\ handed \in Nat
<1>1. /\ head \in Index /\ tail \in Index /\ putHead \in Index
      /\ todo \in Nat /\ need \in Nat /\ claim \in Nat /\ claim <= Fill
      /\ handed \in Nat
  BY DEF IInv, TypeOK, NeverLapped
<1>2. Fill \in 0 .. Size - 1
  BY <1>1, DistanceType DEF Fill
<1>3. Remain \in Nat /\ Remain < Size
  BY <1>1, RemainDistance, DistanceType, SizeAssumption DEF IInv
<1> QED
  BY <1>1, <1>2, <1>3

(***************************************************************************)
(* The steps of the writer                                                 *)
(***************************************************************************)

LEMMA PutCheckStep == ASSUME IInv, NEW n \in 1 .. MaxPut, PutCheck(n) PROVE IInv'
<1>1. n \in Nat /\ n > 0
  BY ChopAssumption
<1>2. Less(n, Remain) \in Nat /\ n <= Remain + Less(n, Remain)
  BY <1>1, Facts DEF Less
<1>3. /\ todo' = n /\ need' = Less(n, Remain)
      /\ wpc' = IF n > Remain THEN "chop" ELSE "store"
      /\ UNCHANGED <<head, tail, putHead, claim>>
  BY DEF PutCheck
<1>4. Fill' = Fill /\ Remain' = Remain /\ Distance(head', putHead') = Distance(head, putHead)
      /\ Distance(tail', putHead') = Distance(tail, putHead)
  BY <1>3 DEF Fill, Remain, Distance
<1>5. TypeOK'
  BY <1>1, <1>2 DEF PutCheck, IInv, TypeOK, setup, reader
<1>6. NeverLapped'
  BY <1>1, <1>3, <1>4, Facts DEF IInv, NeverLapped
<1>7. PutHasRoom'
  BY <1>1, <1>2, <1>3, <1>4 DEF PutHasRoom
<1> QED
  BY <1>5, <1>6, <1>7 DEF IInv

LEMMA ChopStep == ASSUME Narrow, IInv, Chop PROVE IInv'
<1>1. wpc = "chop" /\ need' = 0 /\ UNCHANGED <<setup, buf, head, putHead, claim, putting, reader>>
  BY DEF Chop
<1>2. ASSUME NEW n \in Drops(need), tail' = ChoppedTail(n), wpc' = "store", todo' = todo
      PROVE  IInv'
  <2>1. n \in Nat /\ need <= n /\ n <= Fill /\ claim = 0
    BY DropsEnough, Facts DEF IInv
  <2>2. tail' = After(tail, n)
    BY <1>2, <2>1, ChoppedTailAfter DEF IInv
  <2>3. /\ tail' \in Index
        /\ Fill' = Fill - n
        /\ Fill' + Distance(head', putHead') = Distance(tail', putHead')
        /\ Remain' = Remain + n
    BY <1>1, <2>1, <2>2, TailForward
  <2>4. TypeOK'
    BY <1>1, <1>2, <2>3 DEF IInv, TypeOK, setup, reader
  <2>5. todo > 0 /\ todo <= Remain + need
    BY <1>1 DEF IInv, PutHasRoom
  <2>6. todo' <= Remain'
    BY <1>2, <2>1, <2>3, <2>5, Facts
  <2>7. claim' <= Fill'
    BY <1>1, <2>1, <2>3, Facts
  <2> QED
    BY <1>2, <2>3, <2>4, <2>5, <2>6, <2>7 DEF IInv, NeverLapped, PutHasRoom
<1>3. ASSUME wpc' = "idle", todo' = 0, tail' = tail
      PROVE  IInv'
  <2>1. TypeOK'
    BY <1>1, <1>3 DEF IInv, TypeOK, setup, reader
  <2>2. UNCHANGED <<head, tail, putHead, claim>>
    BY <1>1, <1>3
  <2> QED
    BY <1>3, <2>1, <2>2 DEF IInv, NeverLapped, PutHasRoom, Fill, Distance
<1> QED
  BY <1>2, <1>3 DEF Chop

LEMMA StoreStep == ASSUME IInv, Store PROVE IInv'
<1>1. /\ wpc = "store" /\ wpc' = "publish"
      /\ UNCHANGED <<setup, head, tail, putHead, claim, putting, todo, need, reader>>
  BY DEF Store
<1>2. buf' \in [Index -> Byte]
  BY DEF Store, IInv, TypeOK
<1>3. TypeOK'
  BY <1>1, <1>2 DEF IInv, TypeOK, setup, reader
<1> QED
  BY <1>1, <1>3 DEF IInv, NeverLapped, PutHasRoom, Fill, Remain, Distance

LEMMA PublishStep == ASSUME IInv, Publish PROVE IInv'
<1>1. /\ wpc = "publish" /\ putHead' = After(putHead, 1)
      /\ head' = head \/ head' = putHead'
      /\ todo' = todo - 1 /\ wpc' = IF todo = 1 THEN "idle" ELSE "store"
      /\ UNCHANGED <<setup, buf, tail, claim, putting, need, reader>>
  BY DEF Publish
<1>2. todo > 0 /\ todo <= Remain
  BY <1>1 DEF IInv, NeverLapped, PutHasRoom
<1>3. /\ putHead' \in Index /\ head' \in Index
      /\ Fill' + Distance(head', putHead') = Distance(tail', putHead')
      /\ Fill <= Fill'
      /\ Remain' = Remain - 1
  BY <1>1, <1>2, Facts, PutForward
<1>4. todo' \in Nat /\ (wpc' # "idle" => todo' > 0) /\ todo' <= Remain'
  BY <1>1, <1>2, <1>3, Facts
<1>5. TypeOK'
  BY <1>1, <1>3, <1>4 DEF IInv, TypeOK, setup, reader
<1>6. Fill' \in Nat
  BY <1>5, DistanceType DEF TypeOK, Fill
<1>7. claim' <= Fill'
  BY <1>1, <1>3, <1>6, Facts
<1> QED
  BY <1>1, <1>3, <1>4, <1>5, <1>7 DEF IInv, NeverLapped, PutHasRoom

\* The ends of a put session bring the two heads together, at one of them.
LEMMA SessionStep ==
  ASSUME IInv, BeginPutting \/ CommitPutting \/ RollbackPutting PROVE IInv'
<1>1. /\ wpc = "idle"
      /\ head' = putHead' /\ (head' = head \/ head' = putHead)
      /\ UNCHANGED <<setup, buf, tail, claim, writer, reader>>
  BY DEF BeginPutting, CommitPutting, RollbackPutting, RollbackHead
<1>2. putting' \in BOOLEAN
  BY DEF BeginPutting, CommitPutting, RollbackPutting
<1>3. head' \in Index /\ putHead' \in Index
  BY <1>1, Facts
<1>4. TypeOK'
  BY <1>1, <1>2, <1>3 DEF IInv, TypeOK, setup, writer, reader
<1>5. Distance(head', putHead') = 0
  BY <1>1, <1>3, DistanceType
<1>6. Fill' = Distance(tail', putHead') /\ Fill' \in Nat
  BY <1>1, <1>3, Facts, DistanceType DEF Fill
<1>7. Fill <= Fill'
  <2>1. Fill + Distance(head, putHead) = Distance(tail, putHead)
    BY DEF IInv, NeverLapped
  <2>2. Distance(head, putHead) \in Nat /\ Distance(tail, putHead) \in Nat
    BY Facts, DistanceType
  <2>3. Fill' = Fill \/ Fill' = Distance(tail, putHead)
    BY <1>1 DEF Fill
  <2> QED
    BY <2>1, <2>2, <2>3, Facts
<1>8. claim' <= Fill'
  BY <1>1, <1>6, <1>7, Facts
<1>9. Fill' + Distance(head', putHead') = Distance(tail', putHead')
  BY <1>5, <1>6
<1> QED
  BY <1>1, <1>4, <1>8, <1>9 DEF IInv, NeverLapped, PutHasRoom, writer

LEMMA MoveHeadStep == ASSUME IInv, NEW n \in Linear, MoveHeadForLinear(n) PROVE IInv'
<1>1. /\ wpc = "idle" /\ head' = 0 /\ putHead' = 0 /\ tail' = 0 /\ claim' = 0
      /\ UNCHANGED <<setup, buf, putting, writer, reader>>
  BY DEF MoveHeadForLinear
<1>2. 0 \in Index
  BY SizeAssumption DEF Index
<1>3. TypeOK'
  BY <1>1, <1>2 DEF IInv, TypeOK, setup, writer, reader
<1>4. Fill' = 0 /\ Distance(head', putHead') = 0 /\ Distance(tail', putHead') = 0
  BY <1>1, <1>2, DistanceType DEF Fill
<1> QED
  BY <1>1, <1>3, <1>4 DEF IInv, NeverLapped, PutHasRoom, writer

(***************************************************************************)
(* The steps of the reader                                                 *)
(***************************************************************************)

\* Less stays a number and takes at most what is there.
LEMMA LessType == \A a, n \in Nat : Less(a, n) \in Nat /\ Less(a, n) <= a
BY DEF Less

LEMMA GetBytesStep == ASSUME IInv, NEW n \in 1 .. Fill, GetBytes(n) PROVE IInv'
<1>1. /\ tail' = After(tail, n) /\ claim' = Less(claim, n) /\ handed' = Less(handed, n)
      /\ UNCHANGED <<setup, buf, head, putHead, putting, writer, rpc, seen, fill>>
  BY DEF GetBytes
<1>2. n \in Nat /\ n <= Fill
  BY Facts
<1>3. tail' \in Index
  BY <1>1, <1>2, Facts, AfterType, SizeAssumption
<1>4. claim' \in Nat /\ handed' \in Nat
  BY <1>1, <1>2, Facts, LessType
<1>5. TypeOK'
  BY <1>1, <1>3, <1>4 DEF IInv, TypeOK, setup, writer
<1> QED
  BY <1>1, <1>2, <1>5, TailMoved

\* What pifRingBuffer_GetReadPointer() claims is there.
LEMMA GetReadPointerStep ==
  ASSUME IInv, NEW pos \in 0 .. handed, GetReadPointer(pos) PROVE IInv'
<1> DEFINE room == Size - After(tail, pos)
           length == IF Fill - pos > room THEN room ELSE Fill - pos
<1>1. /\ pos < Fill
      /\ claim' = IF claim < pos + length THEN pos + length ELSE claim
      /\ handed' = IF handed < pos + length THEN pos + length ELSE handed
      /\ UNCHANGED <<setup, buf, head, tail, putHead, putting, writer, rpc, seen, fill>>
  BY DEF GetReadPointer
<1>2. pos \in Nat /\ pos < Fill
  BY <1>1, Facts
<1>3. room \in Nat
  <2>1. After(tail, pos) \in Index
    BY <1>2, Facts, AfterType, SizeAssumption
  <2> QED
    BY <2>1, SizeAssumption DEF Index
<1>4. pos + length \in Nat /\ pos + length <= Fill
  BY <1>2, <1>3, Facts
<1> HIDE DEF length, room
<1>5. claim' \in Nat /\ handed' \in Nat /\ claim' <= Fill
  BY <1>1, <1>4, Facts
<1>6. TypeOK'
  BY <1>1, <1>5 DEF IInv, TypeOK, setup, writer
<1>7. UNCHANGED <<Fill, Remain, Distance(head, putHead), Distance(tail, putHead)>>
  BY <1>1 DEF Fill, Remain, Distance
<1>8. NeverLapped' /\ PutHasRoom'
  BY <1>1, <1>5, <1>7 DEF IInv, NeverLapped, PutHasRoom, writer
<1> QED
  BY <1>6, <1>8 DEF IInv

LEMMA RemoveStep == ASSUME IInv, NEW n \in 0 .. handed, Remove(n) PROVE IInv'
<1>1. /\ tail' = IF n >= Fill THEN head ELSE After(tail, n)
      /\ claim' = 0 /\ handed' = 0
      /\ UNCHANGED <<setup, buf, head, putHead, putting, writer, rpc, seen, fill>>
  BY DEF Remove
<1>2. n \in Nat
  BY Facts
<1>3. After(tail, Fill) = head
  BY Facts, SizeAssumption DEF Fill, Index, After, Distance
<1>4. PICK k \in Nat : k <= Fill /\ tail' = After(tail, k)
  BY <1>1, <1>2, <1>3, Facts
<1>5. tail' \in Index
  BY <1>4, Facts, AfterType, SizeAssumption
<1>6. TypeOK'
  BY <1>1, <1>5 DEF IInv, TypeOK, setup, writer
<1> QED
  BY <1>1, <1>4, <1>6, TailMoved

LEMMA FillSizeStep == ASSUME IInv, ReadHead \/ ReadTail PROVE IInv'
<1>1. Distance(tail, seen) \in Nat
  BY DistanceType DEF IInv, TypeOK
<1>2. TypeOK'
  BY <1>1 DEF ReadHead, ReadTail, IInv, TypeOK, setup, writer
<1> QED
  BY <1>2, CursorsKept DEF ReadHead, ReadTail

LEMMA EmptyStep == ASSUME IInv, Empty PROVE IInv'
<1>1. /\ tail' = head /\ claim' = 0 /\ handed' = 0
      /\ UNCHANGED <<setup, buf, head, putHead, putting, writer, rpc, seen, fill>>
  BY DEF Empty
<1>2. After(tail, Fill) = head
  BY Facts, SizeAssumption DEF Fill, Index, After, Distance
<1>3. TypeOK'
  BY <1>1, Facts DEF IInv, TypeOK, setup, writer
<1> QED
  BY <1>1, <1>2, <1>3, Facts, TailMoved

(***************************************************************************)
(* The theorems                                                            *)
(***************************************************************************)

LEMMA NextIInv == Narrow /\ IInv /\ [Next]_vars => IInv'
<1> SUFFICES ASSUME Narrow, IInv, [Next]_vars PROVE IInv'
  OBVIOUS
<1>1. ASSUME NEW n \in 1 .. MaxPut, PutCheck(n) PROVE IInv'
  BY <1>1, PutCheckStep
<1>2. ASSUME NEW n \in Linear, MoveHeadForLinear(n) PROVE IInv'
  BY <1>2, MoveHeadStep
<1>3. CASE Chop \/ Store \/ Publish
  BY <1>3, ChopStep, StoreStep, PublishStep
<1>4. CASE BeginPutting \/ CommitPutting \/ RollbackPutting
  BY <1>4, SessionStep
<1>5. ASSUME NEW n \in 1 .. Fill, GetBytes(n) PROVE IInv'
  BY <1>5, GetBytesStep
<1>6. ASSUME NEW n \in 0 .. handed, GetReadPointer(n) \/ Remove(n) PROVE IInv'
  BY <1>6, GetReadPointerStep, RemoveStep
<1>7. CASE ReadHead \/ ReadTail
  BY <1>7, FillSizeStep
<1>8. CASE Empty
  BY <1>8, EmptyStep
<1>9. CASE UNCHANGED vars
  BY <1>9, CursorsKept DEF vars, setup, writer, reader, IInv, TypeOK, Index
<1> QED
  BY <1>1, <1>2, <1>3, <1>4, <1>5, <1>6, <1>7, <1>8, <1>9 DEF Next

\* The indices of the buffer stay inside its memory, whatever its size.
THEOREM TypeCorrect == Narrow => (Spec => []TypeOK)
<1> SUFFICES ASSUME Narrow PROVE Spec => []TypeOK
  OBVIOUS
<1>1. IInv => TypeOK
  BY DEF IInv
<1>2. IInv /\ [Next]_vars => IInv'
  BY NextIInv
<1> QED
  BY <1>1, <1>2, InitIInv, PTL DEF Spec

\* The writer never catches up with the reader, for every size, policy and length
\* of a put, whichever side is the interrupt.
THEOREM WriterBehindTail == Narrow => (Spec => []NeverLapped)
<1> SUFFICES ASSUME Narrow PROVE Spec => []NeverLapped
  OBVIOUS
<1>1. IInv => NeverLapped
  BY DEF IInv
<1>2. IInv /\ [Next]_vars => IInv'
  BY NextIInv
<1> QED
  BY <1>1, <1>2, InitIInv, PTL DEF Spec

\* Under the lock, what the reader was handed is claimed.
HeldInv == handed = claim

LEMMA InitHeldInv == Init => HeldInv
BY DEF Init, HeldInv

LEMMA NextHeldInv == IInv /\ HeldInv /\ [Next]_vars => HeldInv'
<1> SUFFICES ASSUME IInv, HeldInv, [Next]_vars
             PROVE  handed' = claim'
  BY DEF HeldInv
<1>1. CASE UNCHANGED <<claim, handed>>
  BY <1>1 DEF HeldInv
<1>2. ASSUME NEW n \in Linear, MoveHeadForLinear(n) PROVE handed' = claim'
  <2>1. putHead = tail /\ claim' = 0 /\ handed' = handed
    BY <1>2 DEF MoveHeadForLinear, reader
  <2>2. Distance(head, putHead) \in Nat /\ Distance(tail, putHead) = 0
    BY <2>1, Facts, DistanceType
  <2>3. Fill = 0
    <3>1. Fill + Distance(head, putHead) = Distance(tail, putHead)
      BY DEF IInv, NeverLapped
    <3> QED
      BY <3>1, <2>2, Facts
  <2> QED
    BY <2>1, <2>3, Facts DEF HeldInv
<1>3. ASSUME NEW n, GetBytes(n) PROVE handed' = claim'
  BY <1>3 DEF GetBytes, HeldInv
<1>4. ASSUME NEW n, GetReadPointer(n) PROVE handed' = claim'
  BY <1>4 DEF GetReadPointer, HeldInv
<1>5. ASSUME NEW n, Remove(n) PROVE handed' = claim'
  BY <1>5 DEF Remove
<1>6. CASE Empty
  BY <1>6 DEF Empty
<1>7. CASE \E n \in 1 .. MaxPut : PutCheck(n)
  BY <1>1, <1>7 DEF PutCheck, reader
<1>8. CASE Chop \/ Store \/ Publish
  BY <1>1, <1>8 DEF Chop, Store, Publish, reader
<1>9. CASE BeginPutting \/ CommitPutting \/ RollbackPutting
  BY <1>1, <1>9 DEF BeginPutting, CommitPutting, RollbackPutting, reader
<1>10. CASE ReadHead \/ ReadTail
  BY <1>1, <1>10 DEF ReadHead, ReadTail
<1>11. CASE UNCHANGED vars
  BY <1>1, <1>11 DEF vars, reader
<1> QED
  BY <1>2, <1>3, <1>4, <1>5, <1>6, <1>7, <1>8, <1>9, <1>10, <1>11 DEF Next

\* Bytes behind the tail of a write are not those the reader was handed.
LEMMA StoreSpares ==
  ASSUME IInv, handed <= Fill, Store, NEW k \in 0 .. handed - 1
  PROVE  buf'[After(tail, k)] = buf[After(tail, k)]
<1>1. k \in Nat /\ k < Fill
  BY Facts
<1>2. Fill <= Distance(tail, putHead)
  <2>1. Fill + Distance(head, putHead) = Distance(tail, putHead)
    BY DEF IInv, NeverLapped
  <2> QED
    BY <2>1, Facts, DistanceType
<1>3. After(tail, k) # putHead /\ After(tail, k) \in Index
  <2>1. Distance(tail, putHead) \in Nat
    BY Facts, DistanceType
  <2>2. k < Distance(tail, putHead)
    BY <1>1, <1>2, <2>1, Facts
  <2> QED
    BY <1>1, <2>2, Facts, NotBefore
<1>4. buf \in [Index -> Byte] /\ \E b \in Byte : buf' = [buf EXCEPT ![putHead] = b]
  BY DEF IInv, TypeOK, Store
<1> QED
  BY <1>3, <1>4

\* Bytes handed out in place are neither moved nor overwritten until the reader is
\* done with them, whatever the policy drops and whichever side is the interrupt.
THEOREM HandedBytesStay == Narrow => (Spec => HandedStay)
<1> SUFFICES ASSUME Narrow PROVE Spec => HandedStay
  OBVIOUS
<1>1. Init => IInv /\ HeldInv
  BY InitIInv, InitHeldInv
<1>2. IInv /\ HeldInv /\ [Next]_vars => IInv' /\ HeldInv'
  BY NextIInv, NextHeldInv
<1> DEFINE Kept == tail' = tail /\ \A k \in 0 .. handed - 1 :
                                    buf'[After(tail, k)] = buf[After(tail, k)]
           Stay == handed > 0 /\ handed' = handed /\ rpc' = rpc => Kept
<1>3. IInv /\ HeldInv /\ [Next]_vars => [Stay]_vars
  <2> SUFFICES ASSUME IInv, HeldInv, Next, handed > 0, handed' = handed, rpc' = rpc
               PROVE  Kept
    BY DEF vars
  <2>0. handed \in Nat /\ handed = claim /\ handed <= Fill
    BY Facts DEF HeldInv
  <2>1. CASE UNCHANGED <<tail, buf>>
    BY <2>1
  <2>2. CASE Store
    <3>1. tail' = tail
      BY <2>2 DEF Store
    <3> QED
      BY <2>0, <2>2, <3>1, StoreSpares
  <2>3. CASE Chop
    <3>1. Drops(need) = {}
      BY <2>0 DEF Drops, Claimed
    <3> QED
      BY <2>1, <2>3, <3>1 DEF Chop
  <2>4. ASSUME NEW n \in Linear, MoveHeadForLinear(n) PROVE Kept
    <3>1. claim' = 0
      BY <2>4 DEF MoveHeadForLinear
    <3>2. HeldInv'
      BY NextHeldInv
    <3> QED
      BY <2>0, <3>1, <3>2 DEF HeldInv
  <2>5. ASSUME NEW n \in 1 .. Fill, GetBytes(n) PROVE Kept
    <3>1. handed' = Less(handed, n)
      BY <2>5 DEF GetBytes
    <3>2. n \in Nat /\ n > 0
      BY Facts
    <3> QED
      BY <2>0, <3>1, <3>2 DEF Less
  <2>6. ASSUME NEW n \in 0 .. handed, GetReadPointer(n) \/ Remove(n) PROVE Kept
    BY <2>0, <2>1, <2>6 DEF GetReadPointer, Remove
  <2>7. CASE Empty
    BY <2>7 DEF Empty
  <2>8. CASE \E n \in 1 .. MaxPut : PutCheck(n)
    BY <2>1, <2>8 DEF PutCheck
  <2>9. CASE Publish \/ BeginPutting \/ CommitPutting \/ RollbackPutting
    BY <2>1, <2>9 DEF Publish, BeginPutting, CommitPutting, RollbackPutting
  <2>10. CASE ReadHead \/ ReadTail
    BY <2>1, <2>10 DEF ReadHead, ReadTail
  <2> QED
    BY <2>2, <2>3, <2>4, <2>5, <2>6, <2>7, <2>8, <2>9, <2>10 DEF Next
<1> QED
  BY <1>1, <1>2, <1>3, PTL DEF Spec, HandedStay

\* Between the two reads of pifRingBuffer_GetFillSize() the writer only adds, unless
\* a policy lets it drop.
SeenInv == rpc = "tail" /\ chopOff = "none" => Distance(tail, seen) <= Fill

LEMMA NextSeenInv == IInv /\ SeenInv /\ [Next]_vars => SeenInv'
<1> SUFFICES ASSUME IInv, SeenInv, [Next]_vars, rpc' = "tail", chopOff = "none"
             PROVE  Distance(tail', seen') <= Fill'
  <2>1. [Next]_vars => chopOff' = chopOff
    BY DEF Next, vars, setup, PutCheck, MoveHeadForLinear, Chop, Store, Publish,
       BeginPutting, CommitPutting, RollbackPutting, GetBytes, GetReadPointer, Remove,
       ReadHead, ReadTail, Empty
  <2> QED
    BY <2>1 DEF SeenInv
<1>1. CASE ReadHead
  <2>1. Distance(tail', seen') = Fill' /\ Fill' = Fill
    BY <1>1 DEF ReadHead, Fill
  <2> QED
    BY <2>1, Facts
<1>2. ASSUME UNCHANGED <<tail, head, rpc, seen>> PROVE Distance(tail', seen') <= Fill'
  BY <1>2 DEF SeenInv, Fill
<1>3. CASE Publish
  <2>1. /\ wpc = "publish" /\ putHead' = After(putHead, 1) /\ tail' = tail
        /\ head' = head \/ head' = putHead'
        /\ UNCHANGED <<rpc, seen>>
    BY <1>3 DEF Publish, reader
  <2>2. Remain > 0
    BY <2>1, Facts DEF IInv, NeverLapped, PutHasRoom
  <2>3. Fill <= Fill'
    BY <2>1, <2>2, PutForward
  <2>4. head' \in Index /\ tail' \in Index /\ Fill' \in Nat
    BY <2>1, <2>2, Facts, PutForward, DistanceType DEF Fill
  <2>5. seen \in Index /\ Distance(tail, seen) \in Nat
    BY DistanceType DEF IInv, TypeOK
  <2>6. Distance(tail, seen) <= Fill
    BY <2>1 DEF SeenInv
  <2> QED
    BY <2>1, <2>3, <2>4, <2>5, <2>6, Facts
<1>4. CASE BeginPutting \/ CommitPutting \/ RollbackPutting
  <2>1. /\ tail' = tail /\ (head' = head \/ head' = putHead)
        /\ UNCHANGED <<rpc, seen>>
    BY <1>4 DEF BeginPutting, CommitPutting, RollbackPutting, reader
  <2>2. Fill + Distance(head, putHead) = Distance(tail, putHead)
    BY DEF IInv, NeverLapped
  <2>3. /\ Distance(head, putHead) \in Nat /\ Distance(tail, putHead) \in Nat
        /\ Distance(tail, seen) \in Nat
    BY Facts, DistanceType DEF IInv, TypeOK
  <2>4. Fill' = Fill \/ Fill' = Distance(tail, putHead)
    BY <2>1 DEF Fill
  <2>5. Distance(tail, seen) <= Fill
    BY <2>1 DEF SeenInv
  <2>6. Distance(tail', seen') = Distance(tail, seen)
    BY <2>1
  <2> QED
    BY <2>2, <2>3, <2>4, <2>5, <2>6, Facts
<1>5. CASE Chop
  <2>1. Drops(need) = {}
    BY DEF Drops
  <2> QED
    BY <1>2, <1>5, <2>1 DEF Chop, reader
<1>6. CASE Store \/ (\E n \in 1 .. MaxPut : PutCheck(n)) \/ UNCHANGED vars
  BY <1>2, <1>6 DEF Store, PutCheck, vars, reader
<1>7. CASE ReadTail
  BY <1>7 DEF ReadTail
<1>8. ASSUME NEW n, GetBytes(n) \/ GetReadPointer(n) \/ Remove(n)
      PROVE  Distance(tail', seen') <= Fill'
  BY <1>8 DEF GetBytes, GetReadPointer, Remove
<1>9. ASSUME NEW n, MoveHeadForLinear(n) PROVE Distance(tail', seen') <= Fill'
  BY <1>9 DEF MoveHeadForLinear, WriterRuns, reader
<1>10. CASE Empty
  BY <1>10 DEF Empty
<1> QED
  BY <1>1, <1>2, <1>3, <1>4, <1>5, <1>6, <1>7, <1>8, <1>9, <1>10 DEF Next

\* When no policy lets the writer drop bytes, the fill size the reader computes from
\* two reads is never more than there is, with no lock and whatever the writer does
\* in between.
THEOREM FillSizeIsThere == Narrow => (Spec => FillIsThere)
<1> SUFFICES ASSUME Narrow PROVE Spec => FillIsThere
  OBVIOUS
<1>1. Init => IInv /\ SeenInv
  BY InitIInv DEF Init, SeenInv
<1>2. IInv /\ SeenInv /\ [Next]_vars => IInv' /\ SeenInv'
  BY NextIInv, NextSeenInv
<1>3. IInv /\ SeenInv /\ [Next]_vars => [chopOff = "none" /\ rpc = "tail" /\ rpc' = "idle" => fill' <= Fill]_vars
  <2> SUFFICES ASSUME SeenInv, Next, chopOff = "none", rpc = "tail", rpc' = "idle" PROVE fill' <= Fill
    BY DEF vars
  <2>1. rpc' # rpc
    OBVIOUS
  <2>2. CASE ReadTail
    BY <2>2 DEF ReadTail, SeenInv
  <2>3. CASE ReadHead
    BY <2>3 DEF ReadHead
  <2> QED
    BY <2>1, <2>2, <2>3 DEF Next, PutCheck, MoveHeadForLinear, Chop, Store, Publish,
       BeginPutting, CommitPutting, RollbackPutting, GetBytes, GetReadPointer, Remove,
       Empty, reader
<1> QED
  BY <1>1, <1>2, <1>3, PTL DEF Spec, FillIsThere

(***************************************************************************)
(* The bytes between two indices                                           *)
(***************************************************************************)

\* n bytes of the memory b, from i on.
Bytes(b, i, n) == [k \in 1 .. n |-> b[After(i, k - 1)]]

\* Steps add up, and the distance leads to the far index.
LEMMA AfterAfter ==
  ASSUME NEW i \in Index, NEW m \in Nat, NEW k \in Nat, m + k <= Size
  PROVE  After(After(i, m), k) = After(i, m + k)
BY SizeAssumption DEF Index, After

LEMMA AfterDistance ==
  ASSUME NEW i \in Index, NEW j \in Index
  PROVE  After(i, Distance(i, j)) = j
BY SizeAssumption DEF Index, After, Distance

LEMMA BetweenBytes == \A i, j : Between(i, j) = Bytes(buf, i, Distance(i, j))
BY DEF Between, Bytes

\* Bytes is a sequence of n bytes; the next lemmas say how it grows at its far end,
\* loses bytes at its near end, is put together of two, and what leaves it as it is.
LEMMA BytesType ==
  ASSUME NEW b \in [Index -> Byte], NEW i \in Index, NEW n \in 0 .. Size
  PROVE  Bytes(b, i, n) \in Seq(Byte) /\ Len(Bytes(b, i, n)) = n
<1>1. n \in Nat
  BY SizeAssumption
<1>2. ASSUME NEW k \in 1 .. n PROVE b[After(i, k - 1)] \in Byte
  BY <1>1, AfterType, SizeAssumption
<1> QED
  BY <1>1, <1>2 DEF Bytes

LEMMA BytesAppend ==
  ASSUME NEW b \in [Index -> Byte], NEW i \in Index, NEW n \in Nat, n < Size
  PROVE  Bytes(b, i, n + 1) = Append(Bytes(b, i, n), b[After(i, n)])
<1>1. Bytes(b, i, n) \in Seq(Byte) /\ Len(Bytes(b, i, n)) = n
  BY BytesType, SizeAssumption
<1> QED
  BY <1>1 DEF Bytes

LEMMA BytesRest ==
  ASSUME NEW b \in [Index -> Byte], NEW i \in Index, NEW n \in 0 .. Size, NEW m \in 0 .. n
  PROVE  Bytes(b, After(i, m), n - m) = SubSeq(Bytes(b, i, n), m + 1, n)
<1>1. m \in Nat /\ n \in Nat /\ m <= n /\ n <= Size
  BY SizeAssumption
<1>2. \A k \in 1 .. n - m : After(After(i, m), k - 1) = After(i, (k + m) - 1)
  BY <1>1, AfterAfter, SizeAssumption
<1>3. SubSeq(Bytes(b, i, n), m + 1, n) = [k \in 1 .. n - m |-> Bytes(b, i, n)[k + m]]
  BY <1>1 DEF Bytes
<1>4. \A k \in 1 .. n - m : Bytes(b, i, n)[k + m] = b[After(i, (k + m) - 1)]
  BY <1>1 DEF Bytes
<1> QED
  BY <1>2, <1>3, <1>4 DEF Bytes

LEMMA BytesJoin ==
  ASSUME NEW b \in [Index -> Byte], NEW i \in Index, NEW n \in Nat, NEW m \in Nat, n + m <= Size
  PROVE  Bytes(b, i, n + m) = Bytes(b, i, n) \o Bytes(b, After(i, n), m)
<1> DEFINE joined == Bytes(b, i, n) \o Bytes(b, After(i, n), m)
<1>1. Bytes(b, i, n) \in Seq(Byte) /\ Len(Bytes(b, i, n)) = n
  BY BytesType, SizeAssumption
<1>2. Bytes(b, After(i, n), m) \in Seq(Byte) /\ Len(Bytes(b, After(i, n), m)) = m
  BY BytesType, AfterType, SizeAssumption
<1>3. joined \in Seq(Byte) /\ Len(joined) = n + m
  BY <1>1, <1>2
<1>4. \A k \in 1 .. n : joined[k] = b[After(i, k - 1)]
  BY <1>1, <1>2 DEF Bytes
<1>5. \A k \in n + 1 .. n + m : joined[k] = b[After(i, k - 1)]
  <2> SUFFICES ASSUME NEW k \in n + 1 .. n + m PROVE joined[k] = b[After(i, k - 1)]
    OBVIOUS
  <2>1. k - n \in 1 .. m /\ joined[k] = Bytes(b, After(i, n), m)[k - n]
    BY <1>1, <1>2
  <2>2. After(After(i, n), (k - n) - 1) = After(i, k - 1)
    BY AfterAfter, SizeAssumption
  <2> QED
    BY <2>1, <2>2 DEF Bytes
<1> HIDE DEF joined
<1>6. joined = [k \in 1 .. n + m |-> joined[k]]
  BY <1>3
<1>7. \A k \in 1 .. n + m : joined[k] = b[After(i, k - 1)]
  BY <1>4, <1>5
<1>8. joined = Bytes(b, i, n + m)
  BY <1>6, <1>7 DEF Bytes
<1> QED
  BY <1>8 DEF joined

LEMMA BytesSame ==
  ASSUME NEW b, NEW c, NEW i, NEW n \in Nat, \A k \in 0 .. n - 1 : c[After(i, k)] = b[After(i, k)]
  PROVE  Bytes(c, i, n) = Bytes(b, i, n)
<1>1. \A k \in 1 .. n : k - 1 \in 0 .. n - 1
  OBVIOUS
<1> QED
  BY <1>1 DEF Bytes

LEMMA BytesNone == \A b, i : Bytes(b, i, 0) = <<>>
BY DEF Bytes

(***************************************************************************)
(* The byte queue                                                          *)
(***************************************************************************)

\* Outside a put session there is one head.
SessionInv == ~putting => head = putHead

LEMMA NextSessionInv == SessionInv /\ [Next]_vars => SessionInv'
<1> SUFFICES ASSUME SessionInv, [Next]_vars PROVE SessionInv'
  OBVIOUS
<1>1. CASE UNCHANGED <<putting, head, putHead>>
  BY <1>1 DEF SessionInv
<1>2. CASE Publish \/ BeginPutting \/ CommitPutting \/ RollbackPutting
  BY <1>2 DEF SessionInv, Publish, BeginPutting, CommitPutting, RollbackPutting, RollbackHead
<1>3. ASSUME NEW n, MoveHeadForLinear(n) PROVE SessionInv'
  BY <1>3 DEF SessionInv, MoveHeadForLinear
<1> QED
  BY <1>1, <1>2, <1>3 DEF Next, vars, PutCheck, Chop, Store, GetBytes, GetReadPointer, Remove,
     ReadHead, ReadTail, Empty

\* What the queue of the reader and the session hold.
LEMMA QueueFacts ==
  ASSUME IInv
  PROVE  /\ buf \in [Index -> Byte]
         /\ Distance(head, putHead) \in 0 .. Size - 1
         /\ Fill + Distance(head, putHead) = Distance(tail, putHead)
         /\ Between(tail, head) = Bytes(buf, tail, Fill)
         /\ Between(tail, head) \in Seq(Byte) /\ Len(Between(tail, head)) = Fill
         /\ Between(head, putHead) = Bytes(buf, head, Distance(head, putHead))
         /\ Between(head, putHead) \in Seq(Byte)
         /\ Len(Between(head, putHead)) = Distance(head, putHead)
<1>1. /\ buf \in [Index -> Byte]
      /\ Fill + Distance(head, putHead) = Distance(tail, putHead)
  BY DEF IInv, TypeOK, NeverLapped
<1>2. Distance(head, putHead) \in 0 .. Size - 1
  BY Facts, DistanceType
<1>3. Fill \in 0 .. Size /\ Distance(head, putHead) \in 0 .. Size
  BY <1>2, Facts, SizeAssumption
<1>4. /\ Between(tail, head) = Bytes(buf, tail, Fill)
      /\ Between(head, putHead) = Bytes(buf, head, Distance(head, putHead))
  BY BetweenBytes DEF Fill
<1> QED
  BY <1>1, <1>2, <1>3, <1>4, Facts, BytesType

\* Moving the tail forward takes bytes from the front of the queue.
LEMMA QueueForward ==
  ASSUME IInv, NEW n \in Nat, n <= Fill, tail' = After(tail, n), UNCHANGED <<buf, head, putHead>>
  PROVE  /\ Between(tail, head)' = Queue!Rest(n)
         /\ Between(head, putHead)' = Between(head, putHead)
<1>1. Fill' = Fill - n
  BY TailForward
<1>2. Between(tail, head)' = Bytes(buf, After(tail, n), Fill - n)
  BY <1>1 DEF Between, Bytes, Fill
<1>3. n \in 0 .. Fill /\ Fill \in 0 .. Size
  BY Facts, SizeAssumption
<1>4. Bytes(buf, After(tail, n), Fill - n) = SubSeq(Bytes(buf, tail, Fill), n + 1, Fill)
  BY <1>3, Facts, QueueFacts, BytesRest
<1>5. Between(head, putHead)' = Between(head, putHead)
  BY DEF Between
<1> QED
  BY <1>2, <1>4, <1>5, QueueFacts DEF Queue!Rest

LEMMA ChopMaps == ASSUME Narrow, IInv, Chop PROVE [Queue!Next]_Queue!vars
<1>1. UNCHANGED <<buf, head, putHead, claim, putting>>
  BY DEF Chop
<1>2. ASSUME NEW n \in Drops(need), tail' = ChoppedTail(n) PROVE [Queue!Next]_Queue!vars
  <2>1. n \in Nat /\ n <= Fill /\ claim = 0
    BY DropsEnough, Facts DEF IInv
  <2>2. tail' = After(tail, n)
    BY <1>2, <2>1, ChoppedTailAfter DEF IInv
  <2>3. /\ Between(tail, head)' = Queue!Rest(n)
        /\ Between(head, putHead)' = Between(head, putHead)
    BY <1>1, <2>1, <2>2, QueueForward
  <2>4. CASE n = 0
    <3>1. tail' = tail
      BY <2>2, <2>4, Facts, SizeAssumption DEF After, Index
    <3> QED
      BY <1>1, <3>1 DEF Queue!vars, Between
  <2>5. CASE n # 0
    <3>1. n \in 1 .. Len(Between(tail, head))
      BY <2>1, <2>5, Facts, QueueFacts
    <3>2. Queue!Drop(n)
      BY <1>1, <2>1, <2>3 DEF Queue!Drop
    <3> QED
      BY <3>1, <3>2 DEF Queue!Next
  <2> QED
    BY <2>4, <2>5
<1>3. CASE tail' = tail
  BY <1>1, <1>3 DEF Queue!vars, Between
<1> QED
  BY <1>2, <1>3 DEF Chop

LEMMA StoreMaps == ASSUME IInv, Store PROVE UNCHANGED Queue!vars
<1>1. /\ UNCHANGED <<head, tail, putHead, claim, putting>>
      /\ \E b \in Byte : buf' = [buf EXCEPT ![putHead] = b]
  BY DEF Store
<1>2. \A i \in Index : i # putHead => buf'[i] = buf[i]
  BY <1>1, QueueFacts
<1>3. \A k \in 0 .. Fill - 1 : buf'[After(tail, k)] = buf[After(tail, k)]
  <2> SUFFICES ASSUME NEW k \in 0 .. Fill - 1 PROVE buf'[After(tail, k)] = buf[After(tail, k)]
    OBVIOUS
  <2>1. k \in Nat /\ k < Distance(tail, putHead)
    BY Facts, QueueFacts
  <2> QED
    BY <1>2, <2>1, Facts, NotBefore
<1>4. \A k \in 0 .. Distance(head, putHead) - 1 : buf'[After(head, k)] = buf[After(head, k)]
  <2> SUFFICES ASSUME NEW k \in 0 .. Distance(head, putHead) - 1
               PROVE  buf'[After(head, k)] = buf[After(head, k)]
    OBVIOUS
  <2>1. k \in Nat /\ k < Distance(head, putHead)
    BY QueueFacts
  <2> QED
    BY <1>2, <2>1, Facts, NotBefore
<1>5. Between(tail, head)' = Between(tail, head)
  <2>1. Between(tail, head)' = Bytes(buf', tail, Fill)
    BY <1>1 DEF Between, Bytes, Fill
  <2>2. Fill \in Nat
    BY Facts
  <2> QED
    BY <1>3, <2>1, <2>2, QueueFacts, BytesSame
<1>6. Between(head, putHead)' = Between(head, putHead)
  <2>1. Between(head, putHead)' = Bytes(buf', head, Distance(head, putHead))
    BY <1>1 DEF Between, Bytes
  <2>2. Distance(head, putHead) \in Nat
    BY QueueFacts
  <2> QED
    BY <1>4, <2>1, <2>2, QueueFacts, BytesSame
<1> QED
  BY <1>1, <1>5, <1>6 DEF Queue!vars

\* A published byte is put at the end of the session, or of the queue.
LEMMA PublishMaps == ASSUME IInv, SessionInv, Publish PROVE Queue!Put(buf[putHead])
<1>1. /\ wpc = "publish" /\ putHead' = After(putHead, 1)
      /\ head' = IF putting THEN head ELSE After(putHead, 1)
      /\ UNCHANGED <<buf, tail, claim, putting>>
  BY DEF Publish
<1>2. Remain > 0
  BY <1>1, Facts DEF IInv, NeverLapped, PutHasRoom
<1>3. Distance(tail, putHead) + 1 < Size
  <2>1. Remain = Size - 1 - Distance(tail, putHead)
    BY RemainDistance DEF IInv
  <2> QED
    BY <1>2, <2>1, Facts, DistanceType, SizeAssumption
<1>4. Len(Between(tail, head)) + Len(Between(head, putHead)) < Size - 1
  BY <1>3, Facts, QueueFacts, SizeAssumption
<1>5. CASE putting
  <2>1. head' = head
    BY <1>1, <1>5
  <2>2. Distance(head, putHead') = Distance(head, putHead) + 1
    BY <1>1, <1>3, Facts, QueueFacts, DistanceFar, SizeAssumption
  <2>3. Between(head, putHead)' = Bytes(buf, head, Distance(head, putHead) + 1)
    BY <1>1, <2>1, <2>2 DEF Between, Bytes
  <2>4. Bytes(buf, head, Distance(head, putHead) + 1) =
          Append(Bytes(buf, head, Distance(head, putHead)), buf[putHead])
    <3>1. Distance(head, putHead) \in Nat /\ Distance(head, putHead) < Size
      BY QueueFacts, SizeAssumption
    <3>2. buf \in [Index -> Byte] /\ head \in Index /\ After(head, Distance(head, putHead)) = putHead
      BY Facts, QueueFacts, AfterDistance
    <3> QED
      BY <3>1, <3>2, BytesAppend
  <2>5. Between(tail, head)' = Between(tail, head)
    BY <1>1, <2>1 DEF Between
  <2> QED
    BY <1>1, <1>4, <1>5, <2>3, <2>4, <2>5, QueueFacts DEF Queue!Put
<1>6. CASE ~putting
  <2>1. head = putHead /\ head' = After(head, 1) /\ putHead' = head'
    BY <1>1, <1>6 DEF SessionInv
  <2>2. Distance(tail, head') = Fill + 1
    BY <1>3, <2>1, Facts, DistanceFar, SizeAssumption DEF Fill
  <2>3. Between(tail, head)' = Bytes(buf, tail, Fill + 1)
    BY <1>1, <2>2 DEF Between, Bytes
  <2>4. Bytes(buf, tail, Fill + 1) = Append(Bytes(buf, tail, Fill), buf[putHead])
    <3>1. Fill \in Nat /\ Fill < Size
      BY Facts, SizeAssumption
    <3>2. After(tail, Fill) = putHead
      BY <2>1, Facts, AfterDistance DEF Fill
    <3> QED
      BY <3>1, <3>2, Facts, QueueFacts, BytesAppend
  <2>5. Between(head, putHead)' = Between(head, putHead)
    <3>1. head' \in Index /\ head \in Index
      BY <2>1, Facts, AfterType, SizeAssumption
    <3>2. Distance(head, putHead) = 0 /\ Distance(head', putHead') = 0
      BY <2>1, <3>1, DistanceType
    <3> QED
      BY <3>2 DEF Between
  <2> QED
    BY <1>1, <1>4, <1>6, <2>3, <2>4, <2>5, QueueFacts DEF Queue!Put
<1> QED
  BY <1>5, <1>6

LEMMA SessionMaps ==
  ASSUME IInv, BeginPutting \/ CommitPutting \/ RollbackPutting PROVE Queue!Next
<1>1. UNCHANGED <<buf, tail, claim>> /\ head' = putHead' /\ head' \in Index
  BY Facts DEF BeginPutting, CommitPutting, RollbackPutting, RollbackHead
<1>2. Between(head, putHead)' = <<>>
  <2>1. Distance(head', putHead') = 0
    BY <1>1, DistanceType
  <2> QED
    BY <2>1 DEF Between
<1>3. CASE BeginPutting
  <2>1. Between(tail, head)' = Between(tail, head)
    BY <1>3 DEF BeginPutting, Between
  <2> QED
    BY <1>1, <1>2, <1>3, <2>1 DEF BeginPutting, Queue!Begin, Queue!Next
<1>4. CASE CommitPutting
  <2>1. Between(tail, head)' = Bytes(buf, tail, Fill + Distance(head, putHead))
    BY <1>4, QueueFacts DEF CommitPutting, Between, Bytes
  <2>2. Bytes(buf, tail, Fill + Distance(head, putHead)) =
          Bytes(buf, tail, Fill) \o Bytes(buf, head, Distance(head, putHead))
    <3>1. Distance(tail, putHead) \in 0 .. Size - 1
      BY Facts, DistanceType
    <3>2. Fill \in Nat /\ Distance(head, putHead) \in Nat
          /\ Fill + Distance(head, putHead) <= Size
      BY <3>1, Facts, QueueFacts, SizeAssumption
    <3>3. buf \in [Index -> Byte] /\ tail \in Index /\ After(tail, Fill) = head
      BY Facts, QueueFacts, AfterDistance DEF Fill
    <3> QED
      BY <3>2, <3>3, BytesJoin
  <2> QED
    BY <1>1, <1>2, <1>4, <2>1, <2>2, QueueFacts DEF CommitPutting, Queue!Commit, Queue!Next
<1>5. CASE RollbackPutting
  <2>1. Between(tail, head)' = Between(tail, head)
    BY <1>5 DEF RollbackPutting, Between
  <2> QED
    BY <1>1, <1>2, <1>5, <2>1 DEF RollbackPutting, Queue!Rollback, Queue!Next
<1> QED
  BY <1>3, <1>4, <1>5

\* The buffer that is moved to its start is empty.
LEMMA MoveHeadMaps == ASSUME IInv, NEW n, MoveHeadForLinear(n) PROVE UNCHANGED Queue!vars
<1>1. /\ putHead = tail /\ head' = 0 /\ putHead' = 0 /\ tail' = 0 /\ claim' = 0
      /\ UNCHANGED putting
  BY DEF MoveHeadForLinear
<1>2. Distance(tail, putHead) = 0
  BY <1>1, Facts, DistanceType
<1>3. Fill = 0 /\ Distance(head, putHead) = 0 /\ claim = 0
  BY <1>2, Facts, QueueFacts
<1>4. Distance(0, 0) = 0
  BY SizeAssumption DEF Distance
<1>5. Between(tail, head)' = Between(tail, head) /\ Between(head, putHead)' = Between(head, putHead)
  BY <1>1, <1>3, <1>4 DEF Between, Fill
<1> QED
  BY <1>1, <1>3, <1>5 DEF Queue!vars

LEMMA GetBytesMaps ==
  ASSUME IInv, NEW n \in 1 .. Fill, GetBytes(n) PROVE Queue!Next
<1>1. n \in Nat /\ n <= Fill /\ n \in 1 .. Len(Between(tail, head))
  BY Facts, QueueFacts
<1>2. tail' = After(tail, n) /\ claim' = Less(claim, n) /\ UNCHANGED <<buf, head, putHead, putting>>
  BY DEF GetBytes
<1>3. Queue!Take(n)
  BY <1>1, <1>2, QueueForward DEF Queue!Take, Less
<1> QED
  BY <1>1, <1>3 DEF Queue!Next

LEMMA GetReadPointerMaps ==
  ASSUME IInv, NEW pos \in 0 .. handed, GetReadPointer(pos) PROVE [Queue!Next]_Queue!vars
<1> DEFINE room == Size - After(tail, pos)
           length == IF Fill - pos > room THEN room ELSE Fill - pos
<1>1. /\ pos < Fill
      /\ claim' = IF claim < pos + length THEN pos + length ELSE claim
      /\ UNCHANGED <<buf, head, tail, putHead, putting>>
  BY DEF GetReadPointer
<1>2. pos \in Nat /\ pos < Fill
  BY <1>1, Facts
<1>3. room \in Nat /\ room > 0
  <2>1. After(tail, pos) \in Index
    BY <1>2, Facts, AfterType, SizeAssumption
  <2> QED
    BY <2>1, SizeAssumption DEF Index
<1>4. pos + length \in 1 .. Fill
  BY <1>2, <1>3, Facts
<1> HIDE DEF length, room
<1>5. Between(tail, head)' = Between(tail, head) /\ Between(head, putHead)' = Between(head, putHead)
  BY <1>1 DEF Between
<1>6. CASE claim < pos + length
  <2>1. Queue!Claim(pos + length)
    BY <1>1, <1>4, <1>5, <1>6, Facts DEF Queue!Claim
  <2> QED
    BY <1>4, <2>1, QueueFacts DEF Queue!Next
<1>7. CASE ~(claim < pos + length)
  BY <1>1, <1>5, <1>7 DEF Queue!vars
<1> QED
  BY <1>6, <1>7

LEMMA GiveBackMaps ==
  ASSUME IInv, Empty \/ (\E n \in 0 .. handed : Remove(n)) PROVE Queue!Next
<1>1. claim' = 0 /\ UNCHANGED <<buf, head, putHead, putting>>
  BY DEF Empty, Remove
<1>2. After(tail, Fill) = head
  BY Facts, AfterDistance DEF Fill
<1>3. PICK k \in Nat : k <= Fill /\ tail' = After(tail, k)
  BY <1>2, Facts DEF Empty, Remove
<1>4. k \in 0 .. Len(Between(tail, head))
  BY <1>3, Facts, QueueFacts
<1>5. Queue!Release(k)
  BY <1>1, <1>3, QueueForward DEF Queue!Release
<1> QED
  BY <1>4, <1>5 DEF Queue!Next

LEMMA NextMaps ==
  Narrow /\ IInv /\ SessionInv /\ [Next]_vars => [Queue!Next]_Queue!vars
<1> SUFFICES ASSUME Narrow, IInv, SessionInv, [Next]_vars PROVE [Queue!Next]_Queue!vars
  OBVIOUS
<1>1. ASSUME UNCHANGED <<buf, head, tail, putHead, claim, putting>> PROVE UNCHANGED Queue!vars
  BY <1>1 DEF Queue!vars, Between
<1>2. CASE (\E n \in 1 .. MaxPut : PutCheck(n)) \/ ReadHead \/ ReadTail \/ UNCHANGED vars
  BY <1>1, <1>2 DEF PutCheck, ReadHead, ReadTail, vars
<1>3. CASE Chop
  BY <1>3, ChopMaps
<1>4. CASE Store
  BY <1>4, StoreMaps
<1>5. CASE Publish
  <2>1. buf[putHead] \in Byte
    BY Facts, QueueFacts
  <2> QED
    BY <1>5, <2>1, PublishMaps DEF Queue!Next
<1>6. CASE BeginPutting \/ CommitPutting \/ RollbackPutting
  BY <1>6, SessionMaps
<1>7. ASSUME NEW n \in Linear, MoveHeadForLinear(n) PROVE [Queue!Next]_Queue!vars
  BY <1>7, MoveHeadMaps
<1>8. ASSUME NEW n \in 1 .. Fill, GetBytes(n) PROVE [Queue!Next]_Queue!vars
  BY <1>8, GetBytesMaps
<1>9. ASSUME NEW n \in 0 .. handed, GetReadPointer(n) PROVE [Queue!Next]_Queue!vars
  BY <1>9, GetReadPointerMaps
<1>10. CASE Empty \/ (\E n \in 0 .. handed : Remove(n))
  BY <1>10, GiveBackMaps
<1> QED
  BY <1>2, <1>3, <1>4, <1>5, <1>6, <1>7, <1>8, <1>9, <1>10 DEF Next

LEMMA InitMaps == Init => Queue!Init
<1>1. Distance(0, 0) = 0
  BY SizeAssumption DEF Distance
<1> QED
  BY <1>1 DEF Init, Queue!Init, Between

\* Bytes come out once and in order, a session is seen whole or not at all, and only
\* the oldest are dropped, for every size, policy and choice of the interrupt: each
\* step of the indices is a step of the byte queue or leaves it as it is.
THEOREM BytesAreQueued == Narrow => (Spec => IsByteQueue)
<1> SUFFICES ASSUME Narrow PROVE Spec => IsByteQueue
  OBVIOUS
<1>1. Init => IInv /\ SessionInv /\ Queue!Init
  BY InitIInv, InitMaps DEF Init, SessionInv
<1>2. IInv /\ SessionInv /\ [Next]_vars => IInv' /\ SessionInv'
  BY NextIInv, NextSessionInv
<1>3. IInv /\ SessionInv /\ [Next]_vars => [Queue!Next]_Queue!vars
  BY NextMaps
<1> QED
  BY <1>1, <1>2, <1>3, PTL DEF Spec, IsByteQueue, Queue!Spec

\* A multiple of a length is left no rest by it.
LEMMA MultipleHasNoRest ==
  ASSUME NEW q \in Nat, NEW l \in Nat, l > 0
  PROVE  (q * l) % l = 0
<1> DEFINE d == (q * l) \div l
           r == (q * l) % l
<1>1. q * l \in Nat
  OBVIOUS
<1>2. d \in Int /\ r \in 0 .. l - 1 /\ q * l = l * d + r
  BY <1>1
<1> HIDE DEF d, r
<1>3. l * (q - d) = r
  BY <1>2
<1>4. q - d < 1
  <2>1. ASSUME q - d >= 1 PROVE l * (q - d) >= l
    BY <1>2, <2>1
  <2> QED
    BY <1>2, <1>3, <2>1
<1>5. q - d > -1
  <2>1. ASSUME q - d <= -1 PROVE l * (q - d) <= -l
    BY <1>2, <2>1
  <2> QED
    BY <1>2, <1>3, <2>1
<1>6. q - d = 0
  BY <1>2, <1>4, <1>5
<1>7. r = 0
  BY <1>3, <1>6
<1> QED
  BY <1>7 DEF r

\* Under the policy of a record length, a chop-off drops whole records or all there is,
\* so that what is left still starts with a record, for every length and size.
THEOREM RecordsDroppedWhole == Narrow => (Spec => DropsWholeRecords)
<1> SUFFICES ASSUME Narrow PROVE Spec => DropsWholeRecords
  OBVIOUS
<1> DEFINE Whole == chopOff = "length" /\ wpc = "chop" /\ wpc' = "store" =>
                      \/ tail' = head
                      \/ Distance(tail, tail') % ChopLength = 0
<1>1. IInv /\ [Next]_vars => IInv'
  BY NextIInv
<1>2. IInv /\ [Next]_vars => [Whole]_vars
  <2> SUFFICES ASSUME IInv, Next, chopOff = "length", wpc = "chop", wpc' = "store"
               PROVE  \/ tail' = head
                      \/ Distance(tail, tail') % ChopLength = 0
    BY DEF vars
  <2>1. PICK n \in Drops(need) : tail' = ChoppedTail(n)
    <3>1. Chop
      BY DEF Next, PutCheck, MoveHeadForLinear, Store, Publish, BeginPutting, CommitPutting,
         RollbackPutting, GetBytes, GetReadPointer, Remove, ReadHead, ReadTail, Empty, writer
    <3> QED
      BY <3>1 DEF Chop
  <2>2. need \in Nat /\ n \in Nat /\ n <= Fill
    BY Facts, DropsEnough DEF IInv
  <2>3. tail' = After(tail, n)
    BY <2>1, <2>2, ChoppedTailAfter DEF IInv
  <2>4. ChopLength # 0 /\ (n = Fill \/ n = WholeSteps(need))
    BY <2>1 DEF Drops
  <2>5. CASE n = Fill
    BY <2>3, <2>5, Facts, AfterDistance DEF Fill
  <2>6. CASE n = WholeSteps(need)
    <3>1. Distance(tail, tail) = 0 /\ n < Size
      BY <2>2, Facts, DistanceType, SizeAssumption
    <3>2. Distance(tail, tail') = n
      <4>1. tail \in Index /\ Distance(tail, tail) + n < Size
        BY <2>2, <3>1, Facts
      <4>2. Distance(tail, After(tail, n)) = Distance(tail, tail) + n
        BY <2>2, <4>1, DistanceFar
      <4> QED
        BY <2>2, <2>3, <3>1, <4>2
    <3> DEFINE q == (need + ChopLength - 1) \div ChopLength
    <3>3. ChopLength \in Nat /\ ChopLength > 0
      BY <2>4, ChopAssumption
    <3>4. q \in Nat
      BY <2>2, <3>3
    <3>5. n = q * ChopLength
      BY <2>6 DEF WholeSteps
    <3> HIDE DEF q
    <3> QED
      BY <3>2, <3>3, <3>4, <3>5, MultipleHasNoRest
  <2> QED
    BY <2>4, <2>5, <2>6
<1> QED
  BY <1>1, <1>2, InitIInv, PTL DEF Spec, DropsWholeRecords
=============================================================================
