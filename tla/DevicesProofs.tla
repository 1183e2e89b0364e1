--------------------------- MODULE DevicesProofs ---------------------------
(* What the drivers of the devices promise, proved for every size, number of channels, delay and *)
(* number of faults: each of the five keeps its inductive invariant, which its module states, and *)
(* a step of another one leaves it alone.  Behind them, the receivers of a remote control.        *)
EXTENDS Devices, SequenceTheorems, WellFoundedInduction, TLAPS

-----------------------------------------------------------------------------
(* Induction over the numbers, as the order of the numbers is well founded.  *)

Smaller == {pair \in Nat \X Nat : pair[1] < pair[2]}

\* A set of numbers that is not empty has a least one: what proofs by induction use below.
LEMMA LeastNumber == ASSUME NEW T \in SUBSET Nat, T # {} PROVE \E m \in T : \A j \in T : m <= j
<1>1. IsWellFoundedOn(Smaller, Nat)
  BY NatLessThanWellFounded DEF OpToRel, Smaller
<1>2. PICK m \in T : \A j \in T : ~(<<j, m>> \in Smaller)
  BY <1>1, WFMin
<1>3. ASSUME NEW j \in T PROVE m <= j
  <2>1. j \in Nat /\ m \in Nat /\ ~(<<j, m>> \in Smaller)
    BY <1>2
  <2>2. j < m => <<j, m>> \in Smaller
    BY <2>1 DEF Smaller
  <2> QED
    BY <2>1, <2>2
<1> QED
  BY <1>3

\* Induction, for a set of the numbers for which something holds.
LEMMA UpTo ==
  ASSUME NEW n \in Nat, NEW T, 0 \in T,
         \A m \in 1..n : m - 1 \in T => m \in T
  PROVE  0..n \subseteq T
<1> DEFINE Missing == {m \in Nat : m <= n /\ m \notin T}
<1>1. CASE Missing = {}
  BY <1>1
<1>2. CASE Missing # {}
  <2>1. Missing \in SUBSET Nat
    OBVIOUS
  <2>2. PICK m \in Missing : \A j \in Missing : m <= j
    <3> HIDE DEF Missing
    <3> QED
      BY <1>2, <2>1, LeastNumber
  <2>3. m \in Nat /\ m <= n /\ m \notin T
    BY <2>2
  <2>4. CASE m = 0
    BY <2>3, <2>4
  <2>5. CASE m # 0
    <3>1. m - 1 \in Nat /\ m - 1 <= n /\ m \in 1..n /\ ~(m <= m - 1)
      BY <2>3, <2>5
    <3>2. m - 1 \notin Missing
      <4> HIDE DEF Missing
      <4> QED
        BY <2>2, <3>1
    <3> QED
      BY <2>3, <3>1, <3>2
  <2> QED
    BY <2>4, <2>5
<1> QED
  BY <1>1, <1>2

-----------------------------------------------------------------------------
(* The calls of the NOR flash.                                               *)

LEMMA NorInit == Nor!Init => Nor!Inv
<1> SUFFICES ASSUME Nor!Init PROVE Nor!Inv
  OBVIOUS
<1> USE DEF Nor!Init, Nor!NoAnswer
<1>1. Nor!TypeOK
  BY DEF Nor!TypeOK
<1>2. Nor!Placed /\ Nor!AnswersAreTrue
  BY DEF Nor!Placed, Nor!AnswersAreTrue
<1>3. Nor!Awaited /\ Nor!Enabled /\ Nor!Written
  BY DEF Nor!Awaited, Nor!EraseRemembered, Nor!Enabled, Nor!Written
<1> QED
  BY <1>1, <1>2, <1>3 DEF Nor!Inv

\* Every transfer of a call and every step of the device keeps the invariant.
LEMMA NorStep == ASSUME Nor!Inv, [Nor!Next]_Nor!vars PROVE Nor!Inv'
<1> USE DEF Nor!Inv, Nor!Placed, Nor!Awaited, Nor!Enabled, Nor!Written, Nor!AnswersAreTrue,
    Nor!EraseRemembered, Nor!driver, Nor!device
<1>1. ASSUME NEW c \in {"read", "check", "start", "erase"}, Nor!Call(c, {}) PROVE Nor!Inv'
  <2>1. Nor!TypeOK'
    BY <1>1 DEF Nor!TypeOK, Nor!Call, Nor!NoAnswer
  <2>2. Nor!Placed'
    BY <1>1 DEF Nor!TypeOK, Nor!Call, Nor!NoAnswer
  <2>3. Nor!Awaited'
    <3>1. norBusy' = norBusy /\ norErasing' = norErasing /\ norFailed' = norFailed
            /\ norCall = "none"
      BY <1>1 DEF Nor!Call
    <3>2. norBusy = "erase" => norAt' = "free"
      BY <1>1 DEF Nor!Call
    <3> QED
      BY <3>1, <3>2
  <2>4. Nor!Enabled'
    BY <1>1 DEF Nor!TypeOK, Nor!Call, Nor!NoAnswer
  <2>5. Nor!Written'
    BY <1>1 DEF Nor!TypeOK, Nor!Call, Nor!NoAnswer
  <2>6. Nor!AnswersAreTrue'
    BY <1>1 DEF Nor!TypeOK, Nor!Call, Nor!NoAnswer
  <2> QED
    BY <2>1, <2>2, <2>3, <2>4, <2>5, <2>6
<1>2. ASSUME NEW pages \in SUBSET NorPages \ {{}}, Nor!Call("program", pages) PROVE Nor!Inv'
  <2>1. Nor!TypeOK'
    BY <1>2 DEF Nor!TypeOK, Nor!Call, Nor!NoAnswer
  <2>2. Nor!Placed'
    BY <1>2 DEF Nor!TypeOK, Nor!Call, Nor!NoAnswer
  <2>3. Nor!Awaited'
    BY <1>2 DEF Nor!TypeOK, Nor!Call, Nor!NoAnswer
  <2>4. Nor!Enabled'
    BY <1>2 DEF Nor!TypeOK, Nor!Call, Nor!NoAnswer
  <2>5. Nor!Written'
    BY <1>2 DEF Nor!TypeOK, Nor!Call, Nor!NoAnswer
  <2>6. Nor!AnswersAreTrue'
    BY <1>2 DEF Nor!TypeOK, Nor!Call, Nor!NoAnswer
  <2> QED
    BY <2>1, <2>2, <2>3, <2>4, <2>5, <2>6
<1>3. ASSUME Nor!TransferFails PROVE Nor!Inv'
  <2>1. Nor!TypeOK'
    BY <1>3 DEF Nor!TypeOK, Nor!TransferFails, Nor!Fail, Nor!Refuse, Nor!NoAnswer
  <2>2. Nor!Placed'
    BY <1>3 DEF Nor!TypeOK, Nor!TransferFails, Nor!Fail, Nor!Refuse, Nor!NoAnswer
  <2>3. Nor!Awaited'
    BY <1>3 DEF Nor!TypeOK, Nor!TransferFails, Nor!Fail, Nor!Refuse, Nor!NoAnswer
  <2>4. Nor!Enabled'
    BY <1>3 DEF Nor!TypeOK, Nor!TransferFails, Nor!Fail, Nor!Refuse, Nor!NoAnswer
  <2>5. Nor!Written'
    BY <1>3 DEF Nor!TypeOK, Nor!TransferFails, Nor!Fail, Nor!Refuse, Nor!NoAnswer
  <2>6. Nor!AnswersAreTrue'
    BY <1>3 DEF Nor!TypeOK, Nor!TransferFails, Nor!Fail, Nor!Refuse, Nor!NoAnswer
  <2> QED
    BY <2>1, <2>2, <2>3, <2>4, <2>5, <2>6
<1>4. ASSUME Nor!Free PROVE Nor!Inv'
  <2>1. Nor!TypeOK'
    BY <1>4 DEF Nor!TypeOK, Nor!Free, Nor!Return, Nor!Refuse, Nor!NoAnswer
  <2>2. Nor!Placed'
    BY <1>4 DEF Nor!TypeOK, Nor!Free, Nor!Return, Nor!Refuse, Nor!NoAnswer
  <2>3. Nor!Awaited'
    BY <1>4 DEF Nor!TypeOK, Nor!Free, Nor!Return, Nor!Refuse, Nor!NoAnswer
  <2>4. Nor!Enabled'
    BY <1>4 DEF Nor!TypeOK, Nor!Free, Nor!Return, Nor!Refuse, Nor!NoAnswer
  <2>5. Nor!Written'
    BY <1>4 DEF Nor!TypeOK, Nor!Free, Nor!Return, Nor!Refuse, Nor!NoAnswer
  <2>6. Nor!AnswersAreTrue'
    BY <1>4 DEF Nor!TypeOK, Nor!Free, Nor!Return, Nor!Refuse, Nor!NoAnswer
  <2> QED
    BY <2>1, <2>2, <2>3, <2>4, <2>5, <2>6
<1>5. ASSUME Nor!WriteEnable PROVE Nor!Inv'
  <2>1. Nor!TypeOK'
    BY <1>5 DEF Nor!TypeOK, Nor!WriteEnable, Nor!Fail, Nor!Refuse, Nor!NoAnswer
  <2>2. Nor!Placed'
    BY <1>5 DEF Nor!TypeOK, Nor!WriteEnable, Nor!Fail, Nor!Refuse, Nor!NoAnswer
  <2>3. Nor!Awaited'
    BY <1>5 DEF Nor!TypeOK, Nor!WriteEnable, Nor!Fail, Nor!Refuse, Nor!NoAnswer
  <2>4. Nor!Enabled'
    BY <1>5 DEF Nor!TypeOK, Nor!WriteEnable, Nor!Fail, Nor!Refuse, Nor!NoAnswer
  <2>5. Nor!Written'
    BY <1>5 DEF Nor!TypeOK, Nor!WriteEnable, Nor!Fail, Nor!Refuse, Nor!NoAnswer
  <2>6. Nor!AnswersAreTrue'
    BY <1>5 DEF Nor!TypeOK, Nor!WriteEnable, Nor!Fail, Nor!Refuse, Nor!NoAnswer
  <2> QED
    BY <2>1, <2>2, <2>3, <2>4, <2>5, <2>6
<1>6. ASSUME Nor!Read PROVE Nor!Inv'
  <2>1. Nor!TypeOK'
    BY <1>6 DEF Nor!TypeOK, Nor!Read, Nor!Return
  <2>2. Nor!Placed'
    BY <1>6 DEF Nor!TypeOK, Nor!Read, Nor!Return
  <2>3. Nor!Awaited'
    BY <1>6 DEF Nor!TypeOK, Nor!Read, Nor!Return
  <2>4. Nor!Enabled'
    BY <1>6 DEF Nor!TypeOK, Nor!Read, Nor!Return
  <2>5. Nor!Written'
    BY <1>6 DEF Nor!TypeOK, Nor!Read, Nor!Return
  <2>6. Nor!AnswersAreTrue'
    BY <1>6 DEF Nor!TypeOK, Nor!Read, Nor!Return
  <2> QED
    BY <2>1, <2>2, <2>3, <2>4, <2>5, <2>6
<1>7. ASSUME Nor!ProgramPage PROVE Nor!Inv'
  <2>1. Nor!TypeOK'
    BY <1>7 DEF Nor!TypeOK, Nor!ProgramPage, Nor!Takes
  <2>2. Nor!Placed'
    BY <1>7 DEF Nor!TypeOK, Nor!ProgramPage, Nor!Takes
  <2>3. Nor!Awaited'
    BY <1>7 DEF Nor!TypeOK, Nor!ProgramPage, Nor!Takes
  <2>4. Nor!Enabled'
    BY <1>7 DEF Nor!TypeOK, Nor!ProgramPage, Nor!Takes
  <2>5. Nor!Written'
    BY <1>7 DEF Nor!TypeOK, Nor!ProgramPage, Nor!Takes
  <2>6. Nor!AnswersAreTrue'
    BY <1>7 DEF Nor!TypeOK, Nor!ProgramPage, Nor!Takes
  <2> QED
    BY <2>1, <2>2, <2>3, <2>4, <2>5, <2>6
<1>8. ASSUME Nor!EraseCommand PROVE Nor!Inv'
  <2>1. Nor!TypeOK'
    BY <1>8 DEF Nor!TypeOK, Nor!EraseCommand, Nor!Takes, Nor!Return
  <2>2. Nor!Placed'
    BY <1>8 DEF Nor!TypeOK, Nor!EraseCommand, Nor!Takes, Nor!Return
  <2>3. Nor!Awaited'
    BY <1>8 DEF Nor!TypeOK, Nor!EraseCommand, Nor!Takes, Nor!Return
  <2>4. Nor!Enabled'
    BY <1>8 DEF Nor!TypeOK, Nor!EraseCommand, Nor!Takes, Nor!Return
  <2>5. Nor!Written'
    BY <1>8 DEF Nor!TypeOK, Nor!EraseCommand, Nor!Takes, Nor!Return
  <2>6. Nor!AnswersAreTrue'
    BY <1>8 DEF Nor!TypeOK, Nor!EraseCommand, Nor!Takes, Nor!Return
  <2> QED
    BY <2>1, <2>2, <2>3, <2>4, <2>5, <2>6
<1>9. ASSUME Nor!WaitReady PROVE Nor!Inv'
  <2>1. Nor!TypeOK'
    BY <1>9 DEF Nor!TypeOK, Nor!WaitReady, Nor!Return, Nor!Done
  <2>2. Nor!Placed'
    BY <1>9 DEF Nor!TypeOK, Nor!WaitReady, Nor!Return, Nor!Done
  <2>3. Nor!Awaited'
    BY <1>9 DEF Nor!TypeOK, Nor!WaitReady, Nor!Return, Nor!Done
  <2>4. Nor!Enabled'
    BY <1>9 DEF Nor!TypeOK, Nor!WaitReady, Nor!Return, Nor!Done
  <2>5. Nor!Written'
    BY <1>9 DEF Nor!TypeOK, Nor!WaitReady, Nor!Return, Nor!Done
  <2>6. Nor!AnswersAreTrue'
    BY <1>9 DEF Nor!TypeOK, Nor!WaitReady, Nor!Return, Nor!Done
  <2> QED
    BY <2>1, <2>2, <2>3, <2>4, <2>5, <2>6
<1>10. ASSUME Nor!WaitTimesOut PROVE Nor!Inv'
  <2>1. Nor!TypeOK'
    BY <1>10 DEF Nor!TypeOK, Nor!WaitTimesOut, Nor!Fail, Nor!Refuse, Nor!NoAnswer
  <2>2. Nor!Placed'
    BY <1>10 DEF Nor!TypeOK, Nor!WaitTimesOut, Nor!Fail, Nor!Refuse, Nor!NoAnswer
  <2>3. Nor!Awaited'
    BY <1>10 DEF Nor!TypeOK, Nor!WaitTimesOut, Nor!Fail, Nor!Refuse, Nor!NoAnswer
  <2>4. Nor!Enabled'
    BY <1>10 DEF Nor!TypeOK, Nor!WaitTimesOut, Nor!Fail, Nor!Refuse, Nor!NoAnswer
  <2>5. Nor!Written'
    BY <1>10 DEF Nor!TypeOK, Nor!WaitTimesOut, Nor!Fail, Nor!Refuse, Nor!NoAnswer
  <2>6. Nor!AnswersAreTrue'
    BY <1>10 DEF Nor!TypeOK, Nor!WaitTimesOut, Nor!Fail, Nor!Refuse, Nor!NoAnswer
  <2> QED
    BY <2>1, <2>2, <2>3, <2>4, <2>5, <2>6
<1>11. ASSUME Nor!Finish PROVE Nor!Inv'
  <2>1. Nor!TypeOK'
    BY <1>11 DEF Nor!TypeOK, Nor!Finish
  <2>2. Nor!Placed'
    BY <1>11 DEF Nor!TypeOK, Nor!Finish
  <2>3. Nor!Awaited'
    BY <1>11 DEF Nor!TypeOK, Nor!Finish
  <2>4. Nor!Enabled'
    BY <1>11 DEF Nor!TypeOK, Nor!Finish
  <2>5. Nor!Written'
    BY <1>11 DEF Nor!TypeOK, Nor!Finish
  <2>6. Nor!AnswersAreTrue'
    BY <1>11 DEF Nor!TypeOK, Nor!Finish
  <2> QED
    BY <2>1, <2>2, <2>3, <2>4, <2>5, <2>6
<1>12. CASE UNCHANGED Nor!vars
  BY <1>12 DEF Nor!TypeOK, Nor!vars
<1> QED
  BY <1>1, <1>2, <1>3, <1>4, <1>5, <1>6, <1>7, <1>8, <1>9, <1>10, <1>11, <1>12 DEF Nor!Next

\* Every call that returns TRUE did what it says, and an erase left alone is remembered till the
\* device was seen ready.
THEOREM CallsAreTrue == Nor!Spec => [](Nor!AnswersAreTrue /\ Nor!EraseRemembered)
<1>1. Nor!Init => Nor!Inv
  BY NorInit
<1>2. Nor!Inv /\ [Nor!Next]_Nor!vars => Nor!Inv'
  BY NorStep
<1>3. Nor!Inv => Nor!AnswersAreTrue /\ Nor!EraseRemembered
  BY DEF Nor!Inv, Nor!Awaited
<1> QED
  BY <1>1, <1>2, <1>3, PTL DEF Nor!Spec

-----------------------------------------------------------------------------
(* Records in MCU flash.                                                     *)

\* Sums of whole units are whole, and between two of them lies a unit.
LEMMA WholeUnits ==
  ASSUME NEW a \in Nat, NEW b \in Nat, Record!Whole(a), Record!Whole(b)
  PROVE  Record!Whole(a + b) /\ (a < b => a + RegionProgramSize <= b)
<1> DEFINE p == RegionProgramSize
<1>1. PICK j \in 0..a : a = j * p
  BY DEF Record!Whole
<1>2. PICK k \in 0..b : b = k * p
  BY DEF Record!Whole
<1>3. p \in Nat /\ j \in Nat /\ k \in Nat
  BY RegionAssumption
<1>4. a + b = (j + k) * p /\ j + k \in 0..a + b
  BY <1>1, <1>2, <1>3
<1>5. ASSUME a < b PROVE a + p <= b
  <2>1. j < k
    BY <1>1, <1>2, <1>3, <1>5
  <2>2. PICK d \in Nat : k = j + 1 + d
    <3>1. k - j - 1 \in Nat /\ k = j + 1 + (k - j - 1)
      BY <1>3, <2>1
    <3> QED
      BY <3>1
  <2>3. b = (j * p) + p + (d * p) /\ d * p \in Nat
    BY <1>2, <1>3, <2>2
  <2> QED
    BY <1>1, <1>3, <2>3
<1> QED
  BY <1>4, <1>5 DEF Record!Whole

LEMMA WholeErase == Record!Whole(RegionEraseSize) /\ Record!Whole(0)
  /\ Record!Whole(RegionProgramSize)
<1> DEFINE p == RegionProgramSize
           q == RegionEraseSize \div p
<1>1. p \in Nat /\ p > 0 /\ RegionEraseSize \in Nat /\ RegionEraseSize % p = 0
  BY RegionAssumption
<1>2. q \in Nat /\ RegionEraseSize = (p * q) + (RegionEraseSize % p)
  BY <1>1
<1> HIDE DEF q
<1>3. RegionEraseSize = q * p
  BY <1>1, <1>2
<1>4. q <= RegionEraseSize
  BY <1>1, <1>2, <1>3
<1>5. 0 = 0 * p /\ p = 1 * p /\ 1 \in 0..p
  BY <1>1
<1> QED
  BY <1>1, <1>2, <1>3, <1>4, <1>5 DEF Record!Whole

\* The region and the counters on the way through a call.
Regions == [fill : Nat, next_erase : Nat, failed : BOOLEAN, mem : [0..RegionSize - 1 -> Int]]

\* The stream has written s up to a whole unit, and erased s ahead of it.
Streamed(s, offset) ==
  /\ offset \in Nat /\ offset <= RegionSize /\ Record!Whole(offset)
  /\ \A b \in 0..offset - 1 : s.mem[b] = recRecord
  /\ RegionEraseSize > 0 =>
       /\ Record!Whole(s.next_erase) /\ offset <= s.next_erase
       /\ \A b \in 0..RegionSize - 1 : offset <= b /\ b < s.next_erase => s.mem[b] = Record!Erased

\* The unit behind what is written is erased before it is programmed.
LEMMA EraseReaches ==
  ASSUME NEW s \in Regions, NEW offset, Streamed(s, offset)
  PROVE  LET e == Record!AfterErase(s, offset)
         IN  /\ e \in Regions /\ Streamed(e, offset) /\ e.failed = s.failed
             /\ RegionEraseSize > 0 => offset + RegionProgramSize <= e.next_erase
<1> DEFINE e == Record!AfterErase(s, offset)
<1>1. CASE ~Record!Erasable(s, offset)
  <2>1. e = s
    BY <1>1 DEF Record!AfterErase
  <2>2. RegionEraseSize > 0 => offset < s.next_erase
    BY <1>1, RegionAssumption DEF Record!Erasable, Streamed, Regions
  <2>3. RegionEraseSize > 0 => offset + RegionProgramSize <= s.next_erase
    BY <2>2, WholeUnits DEF Streamed, Regions
  <2> QED
    BY <2>1, <2>3
<1>2. CASE Record!Erasable(s, offset)
  <2>1. RegionEraseSize > 0 /\ offset = s.next_erase /\ RegionEraseSize \in Nat
    BY <1>2, RegionAssumption DEF Record!Erasable, Streamed, Regions
  <2>2. /\ e.next_erase = s.next_erase + RegionEraseSize
        /\ e.mem = [b \in 0..RegionSize - 1 |->
              IF b \in Record!EraseUnit(s.next_erase) THEN Record!Erased ELSE s.mem[b]]
        /\ e.fill = s.fill /\ e.failed = s.failed /\ e \in Regions
    <3>1. s.mem \in [0..RegionSize - 1 -> Int] /\ s.next_erase \in Nat
      BY DEF Regions
    <3> DEFINE m == [b \in 0..RegionSize - 1 |->
                      IF b \in Record!EraseUnit(s.next_erase) THEN Record!Erased ELSE s.mem[b]]
    <3>2. e = [s EXCEPT !.mem = m, !.next_erase = s.next_erase + RegionEraseSize]
      BY <1>2, <3>1 DEF Record!AfterErase, Regions
    <3>3. m \in [0..RegionSize - 1 -> Int]
      <4>1. \A b \in 0..RegionSize - 1 : s.mem[b] \in Int /\ Record!Erased \in Int
        BY <3>1, RegionAssumption DEF Record!Erased
      <4> QED
        BY <4>1
    <3> HIDE DEF m
    <3> HIDE DEF e
    <3>4. /\ e.next_erase = s.next_erase + RegionEraseSize /\ e.mem = m
          /\ e.fill = s.fill /\ e.failed = s.failed /\ e \in Regions
      <4>1. s.next_erase + RegionEraseSize \in Nat
        BY <2>1, <3>1
      <4> QED
        BY <3>2, <3>3, <4>1 DEF Regions
    <3> QED
      BY <3>4 DEF m
  <2>3. Record!Whole(e.next_erase)
    BY <2>1, <2>2, WholeUnits, WholeErase DEF Streamed, Regions
  <2>4. RegionProgramSize <= RegionEraseSize
    BY <2>1, WholeUnits, WholeErase, RegionAssumption
  <2>5. \A b \in 0..offset - 1 : e.mem[b] = recRecord
    BY <2>1, <2>2, RegionAssumption DEF Streamed, Record!EraseUnit
  <2>6. \A b \in 0..RegionSize - 1 : offset <= b /\ b < e.next_erase => e.mem[b] = Record!Erased
    BY <2>1, <2>2, RegionAssumption DEF Streamed, Record!EraseUnit
  <2> HIDE DEF e
  <2>7. /\ offset \in Nat /\ offset <= RegionSize /\ Record!Whole(offset)
        /\ e.next_erase = offset + RegionEraseSize
    BY <2>1, <2>2 DEF Streamed
  <2>8. offset <= e.next_erase /\ offset + RegionProgramSize <= e.next_erase
    BY <2>1, <2>4, <2>7, RegionAssumption
  <2>9. Streamed(e, offset)
    BY <2>3, <2>5, <2>6, <2>7, <2>8 DEF Streamed
  <2>10. e \in Regions /\ e.failed = s.failed
    BY <2>2
  <2> QED
    BY <2>8, <2>9, <2>10 DEF e
<1> QED
  BY <1>1, <1>2

\* A unit that is programmed on erased bytes reads as the record up to what was filled of it.
LEMMA ProgramWrites ==
  ASSUME NEW e \in Regions, NEW offset, Streamed(e, offset), recRecord \in Nat,
         RegionEraseSize > 0 => offset + RegionProgramSize <= e.next_erase,
         offset + RegionProgramSize <= RegionSize, NEW filled \in 1..RegionProgramSize
  PROVE  LET p == Record!AfterProgram(e, offset, filled)
         IN  /\ p \in Regions /\ p.failed = e.failed /\ p.fill = 0
             /\ \A b \in 0..offset + filled - 1 : p.mem[b] = recRecord
             /\ filled = RegionProgramSize => Streamed(p, offset + RegionProgramSize)
<1> DEFINE p == Record!AfterProgram(e, offset, filled)
           m == [b \in 0..RegionSize - 1 |->
                  IF b \in Record!Unit(offset)
                  THEN Record!Programmed(e.mem[b],
                                         IF b < offset + filled THEN recRecord
                                         ELSE Record!Erased)
                  ELSE e.mem[b]]
<1>1. /\ e.mem \in [0..RegionSize - 1 -> Int] /\ e.next_erase \in Nat
      /\ offset \in Nat /\ RegionSize \in Nat /\ RegionEraseSize \in Nat
      /\ RegionProgramSize \in Nat /\ RegionProgramSize > 0 /\ filled \in Nat
  BY RegionAssumption DEF Regions, Streamed
<1>2. p = [e EXCEPT !.fill = 0, !.mem = m]
  BY <1>1 DEF Record!AfterProgram, Regions
<1>3. m \in [0..RegionSize - 1 -> Int]
  <2>1. \A b \in 0..RegionSize - 1 :
          /\ e.mem[b] \in Int
          /\ Record!Programmed(e.mem[b], IF b < offset + filled THEN recRecord
                                         ELSE Record!Erased) \in Int
    BY <1>1 DEF Record!Erased, Record!Programmed, Record!Torn
  <2> QED
    BY <2>1
<1> HIDE DEF m, p
<1>4. /\ p \in Regions /\ p.failed = e.failed /\ p.fill = 0
      /\ p.mem = m /\ p.next_erase = e.next_erase
  BY <1>2, <1>3 DEF Regions
<1>5. \A b \in 0..offset + filled - 1 : m[b] = recRecord
  <2> SUFFICES ASSUME NEW b \in 0..offset + filled - 1 PROVE m[b] = recRecord
    OBVIOUS
  <2>1. b \in 0..RegionSize - 1
    BY <1>1
  <2>2. CASE b < offset
    BY <1>1, <2>1, <2>2 DEF m, Record!Unit, Streamed
  <2>3. CASE b >= offset
    <3>1. b \in Record!Unit(offset) /\ b < offset + filled
      BY <1>1, <2>3 DEF Record!Unit
    <3>2. RegionEraseSize > 0 => e.mem[b] = Record!Erased
      BY <1>1, <2>1, <2>3, <3>1 DEF Streamed, Record!Unit
    <3> QED
      BY <1>1, <2>1, <3>1, <3>2 DEF m, Record!Programmed
  <2> QED
    BY <1>1, <2>2, <2>3
<1>6. ASSUME filled = RegionProgramSize PROVE Streamed(p, offset + RegionProgramSize)
  <2>1. Record!Whole(offset + RegionProgramSize)
    BY <1>1, WholeUnits, WholeErase DEF Streamed
  <2>2. ASSUME RegionEraseSize > 0, NEW b \in 0..RegionSize - 1,
               offset + RegionProgramSize <= b, b < e.next_erase
        PROVE  m[b] = Record!Erased
    <3>1. b \notin Record!Unit(offset) /\ offset <= b
      BY <1>1, <2>2 DEF Record!Unit
    <3> QED
      BY <2>2, <3>1 DEF m, Streamed
  <2>3. RegionEraseSize > 0 => Record!Whole(p.next_erase)
    BY <1>4 DEF Streamed
  <2> QED
    BY <1>1, <1>4, <1>5, <1>6, <2>1, <2>2, <2>3 DEF Streamed
<1> QED
  BY <1>4, <1>5, <1>6 DEF p

\* What _programUnit() can leave: a failure, or the unit in the region.
LEMMA ProgramUnitDone ==
  ASSUME NEW s \in Regions, NEW offset, Streamed(s, offset), recRecord \in Nat,
         NEW filled \in 1..RegionProgramSize,
         NEW r \in Record!ProgramUnit(s, offset, filled)
  PROVE  /\ r \in Regions
         /\ ~r.failed =>
              /\ r.fill = 0 /\ offset + RegionProgramSize <= RegionSize
              /\ \A b \in 0..offset + filled - 1 : r.mem[b] = recRecord
              /\ filled = RegionProgramSize => Streamed(r, offset + RegionProgramSize)
<1> DEFINE e == Record!AfterErase(s, offset)
           p == Record!AfterProgram(e, offset, filled)
<1>1. ASSUME NEW q \in Regions PROVE Record!WithFailure(q) \in Regions
               /\ Record!WithFailure(q).failed
  BY DEF Record!WithFailure, Regions
<1>2. CASE r = Record!WithFailure(s)
  BY <1>1, <1>2
<1>3. CASE r # Record!WithFailure(s)
  <2>1. offset + RegionProgramSize <= RegionSize
    BY <1>3, RegionAssumption DEF Record!ProgramUnit, Streamed
  <2>2. r = p \/ r = Record!WithFailure([p EXCEPT !.fill = s.fill])
    BY <1>3, <2>1, RegionAssumption DEF Record!ProgramUnit, Streamed
  <2>3. /\ e \in Regions /\ Streamed(e, offset)
        /\ RegionEraseSize > 0 => offset + RegionProgramSize <= e.next_erase
    BY EraseReaches
  <2> HIDE DEF e
  <2>4. /\ p \in Regions /\ p.fill = 0
        /\ \A b \in 0..offset + filled - 1 : p.mem[b] = recRecord
        /\ filled = RegionProgramSize => Streamed(p, offset + RegionProgramSize)
    BY <2>1, <2>3, ProgramWrites
  <2> HIDE DEF p
  <2>5. [p EXCEPT !.fill = s.fill] \in Regions
    BY <2>4 DEF Regions
  <2> QED
    BY <1>1, <2>1, <2>2, <2>4, <2>5
<1> QED
  BY <1>2, <1>3

LEMMA LeastOfTwo ==
  ASSUME NEW a \in Nat, NEW b \in Nat
  PROVE  Record!Min({a, b}) = IF a <= b THEN a ELSE b
BY DEF Record!Min

\* A record that goes well has been streamed up to the last whole unit.
LEMMA NowStreamed ==
  ASSUME Record!Inv
  PROVE  /\ Record!Now \in Regions
         /\ recWriting /\ ~recFailed => Record!Base \in Nat /\ Streamed(Record!Now, Record!Base)
<1>1. Record!Now \in Regions
  BY DEF Record!Inv, Record!TypeOK, Record!Now, Regions
<1>2. ASSUME recWriting, ~recFailed PROVE Record!Base \in Nat /\ Streamed(Record!Now, Record!Base)
  <2>1. /\ Record!Base \in Nat /\ Record!Base <= RegionSize /\ Record!Whole(Record!Base)
        /\ Record!Now.mem = recMem /\ Record!Now.next_erase = recNextErase
    BY <1>2 DEF Record!Inv, Record!TypeOK, Record!Gathered, Record!Base, Record!Now
  <2>2. \A b \in 0..Record!Base - 1 : recMem[b] = recRecord
    BY <1>2 DEF Record!Inv, Record!WrittenStays, Record!Base
  <2>3. RegionEraseSize > 0 =>
          /\ Record!Whole(recNextErase) /\ Record!Base <= recNextErase
          /\ \A b \in 0..RegionSize - 1 :
               Record!Base <= b /\ b < recNextErase => recMem[b] = Record!Erased
    BY <1>2 DEF Record!Inv, Record!ErasedAhead
  <2> QED
    BY <2>1, <2>2, <2>3 DEF Streamed
<1> QED
  BY <1>1, <1>2

LEMMA RecordInit == Record!Init => Record!Inv
<1> SUFFICES ASSUME Record!Init PROVE Record!Inv
  OBVIOUS
<1>1. Record!TypeOK
  <2>1. recMem \in [0..RegionSize - 1 -> Int]
    BY DEF Record!Init, Record!Old
  <2>2. recWriting \in BOOLEAN /\ recFailed \in BOOLEAN /\ recEnded \in BOOLEAN
    BY DEF Record!Init
  <2>3. recPosition \in Nat /\ recFill \in Nat /\ recNextErase \in Nat /\ recRecord \in Nat
    BY DEF Record!Init
  <2> QED
    BY <2>1, <2>2, <2>3 DEF Record!TypeOK
<1>2. ~recWriting /\ ~recEnded
  BY DEF Record!Init
<1> QED
  BY <1>1, <1>2 DEF Record!Init, Record!Inv, Record!Gathered, Record!ErasedAhead,
      Record!WrittenStays,
     Record!EndTells

LEMMA RecordBegins == ASSUME Record!Inv, Record!Begin PROVE Record!Inv'
<1>1. /\ recWriting' = TRUE /\ recPosition' = 0 /\ recFill' = 0 /\ recNextErase' = 0
      /\ recFailed' = FALSE /\ recRecord' = recRecord + 1 /\ recEnded' = FALSE /\ recMem' = recMem
  BY DEF Record!Begin
<1>2. Record!TypeOK'
  <2>1. recWriting' \in BOOLEAN /\ recFailed' \in BOOLEAN /\ recEnded' \in BOOLEAN
    BY <1>1
  <2>2. /\ recPosition' \in Nat /\ recFill' \in Nat /\ recNextErase' \in Nat
        /\ recRecord' \in Nat /\ recMem' \in [0..RegionSize - 1 -> Int]
    BY <1>1 DEF Record!Inv, Record!TypeOK
  <2> QED
    BY <2>1, <2>2 DEF Record!TypeOK
<1>3. Record!Base' = 0 /\ Record!Whole(0)
  BY <1>1, WholeErase DEF Record!Base
<1>4. Record!Gathered' /\ Record!ErasedAhead'
  BY <1>1, <1>3, RegionAssumption DEF Record!Gathered, Record!ErasedAhead
<1>5. Record!WrittenStays' /\ Record!EndTells'
  BY <1>1 DEF Record!WrittenStays, Record!EndTells
<1> QED
  BY <1>1, <1>2, <1>4, <1>5 DEF Record!Inv

LEMMA WriteStep ==
  ASSUME Record!Inv, NEW size \in Chunks, Record!Write(size) PROVE Record!Inv'
<1> DEFINE len == Record!Min({RegionProgramSize - recFill, size})
           s == [Record!Now EXCEPT !.fill = @ + len]
<1>0. UNCHANGED <<recWriting, recRecord, recEnded>> /\ recPosition' = recPosition + len
  BY DEF Record!Write
<1>1. /\ recWriting /\ ~recFailed /\ recPosition' = recPosition + len
      /\ \E after \in IF s.fill < RegionProgramSize THEN {s}
                       ELSE Record!ProgramUnit(s, recPosition + len - RegionProgramSize,
                                               RegionProgramSize) :
           Record!Set(after)
      /\ UNCHANGED <<recWriting, recRecord, recEnded>>
  BY DEF Record!Write
<1>2. /\ recFill \in Nat /\ recPosition \in Nat /\ recRecord \in Nat
      /\ recFill < RegionProgramSize /\ recFill <= recPosition /\ ~recEnded
  BY <1>1 DEF Record!Inv, Record!TypeOK, Record!Gathered
<1>3. len \in Nat /\ len <= RegionProgramSize - recFill
  BY <1>2, LeastOfTwo, RegionAssumption
<1> HIDE DEF len
<1>4. /\ s \in Regions /\ s.fill = recFill + len /\ s.mem = recMem
      /\ s.next_erase = recNextErase /\ s.failed = recFailed
  <2>1. Record!Now \in Regions
    BY NowStreamed
  <2> QED
    BY <1>2, <1>3, <2>1 DEF Record!Now, Regions
<1>5. Record!Base \in Nat /\ Streamed(s, Record!Base)
  <2>1. Record!Base \in Nat /\ Streamed(Record!Now, Record!Base)
    BY <1>1, NowStreamed
  <2>2. Record!Now.mem = s.mem /\ Record!Now.next_erase = s.next_erase
    BY <1>4 DEF Record!Now
  <2> QED
    BY <2>1, <2>2 DEF Streamed
<1> HIDE DEF s
<1>6. CASE s.fill < RegionProgramSize
  <2>1. recFill' = recFill + len /\ recMem' = recMem /\ recNextErase' = recNextErase
        /\ recFailed' = recFailed
    BY <1>1, <1>4, <1>6 DEF Record!Set
  <2>2. Record!Base' = Record!Base
    BY <1>1, <1>2, <1>3, <2>1 DEF Record!Base
  <2>3. Record!TypeOK'
    <3>1. recWriting' \in BOOLEAN /\ recFailed' \in BOOLEAN /\ recEnded' \in BOOLEAN
      BY <1>0, <2>1 DEF Record!Inv, Record!TypeOK
    <3>2. /\ recPosition' \in Nat /\ recFill' \in Nat /\ recNextErase' \in Nat
          /\ recRecord' \in Nat /\ recMem' \in [0..RegionSize - 1 -> Int]
      BY <1>0, <1>2, <1>3, <2>1 DEF Record!Inv, Record!TypeOK
    <3> QED
      BY <3>1, <3>2 DEF Record!TypeOK
  <2>4. Record!Gathered' /\ Record!ErasedAhead'
    BY <1>1, <1>2, <1>3, <1>4, <1>6, <2>1, <2>2 DEF Record!Inv, Record!Gathered, Record!ErasedAhead
  <2>5. Record!WrittenStays'
    BY <1>1, <2>1, <2>2 DEF Record!Inv, Record!WrittenStays, Record!Base
  <2> QED
    BY <1>1, <1>2, <2>3, <2>4, <2>5 DEF Record!Inv, Record!EndTells
<1>7. CASE ~(s.fill < RegionProgramSize)
  <2>1. s.fill = RegionProgramSize /\ recPosition + len - RegionProgramSize = Record!Base
    BY <1>2, <1>3, <1>4, <1>7, RegionAssumption DEF Record!Base
  <2>2. PICK r \in Record!ProgramUnit(s, Record!Base, RegionProgramSize) : Record!Set(r)
    BY <1>1, <1>7, <2>1
  <2>3. /\ r \in Regions
        /\ ~r.failed => r.fill = 0 /\ Record!Base + RegionProgramSize <= RegionSize
                        /\ Streamed(r, Record!Base + RegionProgramSize)
    BY <1>2, <1>4, <1>5, ProgramUnitDone, RegionAssumption
  <2>4. recFill' = r.fill /\ recNextErase' = r.next_erase /\ recFailed' = r.failed
          /\ recMem' = r.mem
    BY <2>2 DEF Record!Set
  <2>5. Record!TypeOK'
    BY <1>1, <1>2, <1>3, <2>3, <2>4 DEF Record!Inv, Record!TypeOK, Regions
  <2>6. ~recFailed' => Record!Base' = Record!Base + RegionProgramSize
    BY <1>1, <1>2, <1>3, <2>1, <2>3, <2>4, RegionAssumption DEF Record!Base
  <2>7. Record!Gathered' /\ Record!ErasedAhead' /\ Record!WrittenStays'
    <3> SUFFICES ASSUME ~recFailed'
                 PROVE  Record!Gathered' /\ Record!ErasedAhead' /\ Record!WrittenStays'
      BY DEF Record!Gathered, Record!ErasedAhead, Record!WrittenStays
    <3>1. recFill' = 0 /\ Streamed(r, Record!Base') /\ Record!Base' = recPosition' - recFill'
      BY <2>3, <2>4, <2>6 DEF Record!Base
    <3>2. recPosition' \in Nat
      BY <2>5 DEF Record!TypeOK
    <3>3. Record!Gathered'
      BY <3>1, <3>2, RegionAssumption DEF Record!Gathered, Record!Whole, Streamed
    <3>4. Record!ErasedAhead'
      BY <2>4, <3>1 DEF Record!ErasedAhead, Streamed
    <3>5. Record!WrittenStays'
      BY <1>1, <2>4, <3>1 DEF Record!WrittenStays, Streamed
    <3> QED
      BY <3>3, <3>4, <3>5
  <2> QED
    BY <1>1, <1>2, <2>5, <2>7 DEF Record!Inv, Record!EndTells
<1> QED
  BY <1>6, <1>7

LEMMA EndStep == ASSUME Record!Inv, Record!End PROVE Record!Inv'
<1>1. /\ recWriting /\ recWriting' = FALSE /\ recEnded' = ~recFailed'
      /\ UNCHANGED <<recPosition, recRecord>>
      /\ \E after \in IF recFailed \/ recFill = 0 THEN {Record!Now}
                       ELSE Record!ProgramUnit(Record!Now, recPosition - recFill, recFill) :
           Record!Set(after)
  BY DEF Record!End
<1>2. /\ recFill \in Nat /\ recPosition \in Nat /\ recRecord \in Nat
      /\ recFailed \in BOOLEAN /\ Record!Now \in Regions
  BY NowStreamed DEF Record!Inv, Record!TypeOK
<1>3. PICK r \in IF recFailed \/ recFill = 0 THEN {Record!Now}
                 ELSE Record!ProgramUnit(Record!Now, recPosition - recFill, recFill) :
        Record!Set(r)
  BY <1>1
<1>4. recFill' = r.fill /\ recNextErase' = r.next_erase /\ recFailed' = r.failed /\ recMem' = r.mem
  BY <1>3 DEF Record!Set
<1>5. /\ r \in Regions
      /\ ~r.failed => recPosition <= RegionSize
           /\ \A b \in 0..recPosition - 1 : r.mem[b] = recRecord
  <2>1. CASE recFailed \/ recFill = 0
    <3>1. r = Record!Now
      BY <1>3, <2>1
    <3>2. r.failed = recFailed /\ r.mem = recMem
      BY <3>1 DEF Record!Now
    <3>3. ~recFailed => recPosition <= RegionSize
            /\ \A b \in 0..recPosition - 1 : recMem[b] = recRecord
      BY <1>1, <1>2, <2>1 DEF Record!Inv, Record!Gathered, Record!WrittenStays, Record!Base
    <3> QED
      BY <1>2, <3>1, <3>2, <3>3
  <2>2. CASE ~(recFailed \/ recFill = 0)
    <3>1. /\ Record!Base \in Nat /\ Streamed(Record!Now, Record!Base)
          /\ recFill \in 1..RegionProgramSize /\ recFill < RegionProgramSize
          /\ Record!Base + recFill = recPosition /\ recPosition - recFill = Record!Base
      BY <1>1, <1>2, <2>2, NowStreamed, RegionAssumption DEF Record!Inv, Record!Gathered,
          Record!Base
    <3>2. r \in Record!ProgramUnit(Record!Now, Record!Base, recFill)
      BY <1>3, <2>2, <3>1
    <3>3. /\ r \in Regions
          /\ ~r.failed => /\ Record!Base + RegionProgramSize <= RegionSize
                          /\ \A b \in 0..Record!Base + recFill - 1 : r.mem[b] = recRecord
      BY <1>2, <3>1, <3>2, ProgramUnitDone
    <3> QED
      BY <1>2, <3>1, <3>3, RegionAssumption
  <2> QED
    BY <2>1, <2>2
<1>6. Record!TypeOK'
  BY <1>1, <1>2, <1>4, <1>5 DEF Record!TypeOK, Regions
<1>7. Record!EndTells'
  BY <1>1, <1>4, <1>5 DEF Record!EndTells
<1> QED
  BY <1>1, <1>6, <1>7 DEF Record!Inv, Record!Gathered, Record!ErasedAhead, Record!WrittenStays

LEMMA RestartStep == ASSUME Record!Inv, Record!Restart PROVE Record!Inv'
<1>1. Record!TypeOK'
  BY DEF Record!Inv, Record!TypeOK, Record!Restart
<1> QED
  BY <1>1 DEF Record!Restart, Record!Inv, Record!Gathered, Record!ErasedAhead, Record!WrittenStays,
     Record!EndTells

LEMMA RecordStep == ASSUME Record!Inv, [Record!Next]_Record!vars PROVE Record!Inv'
<1>1. CASE UNCHANGED Record!vars
  BY <1>1 DEF Record!vars, Record!Inv, Record!TypeOK, Record!Gathered, Record!ErasedAhead,
     Record!WrittenStays, Record!EndTells, Record!Base, Record!Whole
<1> QED
  BY <1>1, RecordBegins, WriteStep, EndStep, RestartStep DEF Record!Next

\* When pifFlash_End() returns TRUE the region holds the record whole, and what is
\* programmed of it stays, for every size of the region and its units.
THEOREM RecordsHold == Record!Spec => [](Record!EndTells /\ Record!WrittenStays)
<1>1. Record!Inv => Record!EndTells /\ Record!WrittenStays
  BY DEF Record!Inv
<1> QED
  BY <1>1, RecordInit, RecordStep, PTL DEF Record!Spec

-----------------------------------------------------------------------------
(* Pulses.                                                                   *)

LEMMA ModSlot ==
  ASSUME NEW a \in Nat, a < 2 * PulseSize
  PROVE  a % PulseSize = IF a < PulseSize THEN a ELSE a - PulseSize
BY PulseAssumption, SMT

\* The slots before another one.
LEMMA SlotsBefore ==
  ASSUME NEW l \in Edges!Slot, NEW j \in 0..PulseSize
  PROVE  /\ (l + PulseSize - j) % PulseSize = IF l >= j THEN l - j ELSE l + PulseSize - j
         /\ (l + PulseSize - j) % PulseSize \in Edges!Slot
<1>1. l \in 0..PulseSize - 1
  BY DEF Edges!Slot
<1> QED
  BY <1>1, ModSlot, PulseAssumption DEF Edges!Slot

\* The slot behind another one: it is another one, and what lies before it.
LEMMA SlotBehind ==
  ASSUME NEW l \in Edges!Slot
  PROVE  /\ (l + 1) % PulseSize \in Edges!Slot /\ (l + 1) % PulseSize # l
         /\ \A j \in 0..PulseSize - 2 :
              /\ (((l + 1) % PulseSize) + PulseSize - (j + 1)) % PulseSize
                   = (l + PulseSize - j) % PulseSize
              /\ (l + PulseSize - j) % PulseSize # (l + 1) % PulseSize
<1>1. l \in 0..PulseSize - 1
  BY DEF Edges!Slot
<1>2. (l + 1) % PulseSize = IF l + 1 < PulseSize THEN l + 1 ELSE 0
  BY <1>1, ModSlot, PulseAssumption
<1>3. (l + 1) % PulseSize \in Edges!Slot /\ (l + 1) % PulseSize # l
  BY <1>1, <1>2, PulseAssumption DEF Edges!Slot
<1>4. ASSUME NEW j \in 0..PulseSize - 2
      PROVE  /\ (((l + 1) % PulseSize) + PulseSize - (j + 1)) % PulseSize
                   = (l + PulseSize - j) % PulseSize
             /\ (l + PulseSize - j) % PulseSize # (l + 1) % PulseSize
  <2> DEFINE n == (l + 1) % PulseSize
  <2>1. j \in 0..PulseSize /\ j + 1 \in 0..PulseSize
    BY PulseAssumption
  <2>2. (l + PulseSize - j) % PulseSize = IF l >= j THEN l - j ELSE l + PulseSize - j
    BY <2>1, SlotsBefore
  <2>3. n = IF l + 1 < PulseSize THEN l + 1 ELSE 0
    BY <1>2
  <2>4. n \in Edges!Slot
    BY <1>3
  <2> HIDE DEF n
  <2>5. (n + PulseSize - (j + 1)) % PulseSize
          = IF n >= j + 1 THEN n - (j + 1) ELSE n + PulseSize - (j + 1)
    BY <2>1, <2>4, SlotsBefore
  <2>6. /\ (n + PulseSize - (j + 1)) % PulseSize = (l + PulseSize - j) % PulseSize
        /\ (l + PulseSize - j) % PulseSize # n
    BY <1>1, <2>2, <2>3, <2>5, PulseAssumption
  <2> QED
    BY <2>6 DEF n
<1> QED
  BY <1>3, <1>4

LEMMA LastIsNone == ASSUME NEW l \in Edges!Slot PROVE (l + PulseSize - 0) % PulseSize = l
<1>1. 0 \in 0..PulseSize /\ l >= 0 /\ l - 0 = l
  BY PulseAssumption DEF Edges!Slot
<1> QED
  BY <1>1, SlotsBefore

LEMMA PastSlots ==
  ASSUME Edges!Inv
  PROVE  /\ pulseTime \in Nat /\ pulseGap \in Nat /\ pulseGap <= pulseTime + 1
         /\ \A s \in Edges!Slot :
              /\ pulseRising[s] \in Nat /\ pulseRising[s] <= pulseTime
              /\ pulseFalling[s] \in Nat /\ pulseFalling[s] <= pulseTime
BY DEF Edges!Inv, Edges!TypeOK, Edges!Past

LEMMA OrderLength == Len(Edges!Order) = 7 /\ DOMAIN Edges!Order = 1..7
BY DEF Edges!Order

LEMMA EdgesInit == Edges!Init => Edges!Inv
<1> SUFFICES ASSUME Edges!Init PROVE Edges!Inv
  OBVIOUS
<1> USE DEF Edges!Init
<1>1. /\ pulsePtr = 0 /\ pulseLast = 0 /\ pulseCount = 0 /\ pulseSeq = 0 /\ pulseTime = 0
      /\ pulseGap = 0 /\ pulsePc = 0 /\ pulsePending = FALSE /\ pulseHasRising = FALSE
      /\ pulseValue = "none" /\ 0 \in Edges!Slot
  BY PulseAssumption DEF Edges!Slot
<1>2. pulseRising \in [Edges!Slot -> Nat] /\ pulseFalling \in [Edges!Slot -> Nat]
  OBVIOUS
<1>3. pulseRead \in [before : 0..PulseSize, seq : Nat, count : 0..PulseSize, last : Edges!Slot,
                     rising : Nat, falling : Nat, other : Nat, has : {0, 1}]
  BY <1>1, PulseAssumption DEF Edges!NotRead
<1>4. Edges!TypeOK
  <2>1. pulsePending \in BOOLEAN /\ pulseHasRising \in BOOLEAN
    BY <1>1
  <2>2. pulsePc \in -5..Len(Edges!Order) + 1
    BY <1>1, OrderLength
  <2> QED
    BY <1>1, <1>2, <1>3, <2>1, <2>2, PulseAssumption DEF Edges!TypeOK
<1>5. Edges!Past
  BY <1>1 DEF Edges!Past
<1> QED
  BY <1>1, <1>4, <1>5 DEF Edges!Inv, Edges!Counted, Edges!Risen, Edges!Between, Edges!Measuring,
     Edges!AsRead, Edges!TakenIsPast, Edges!Consistent, Edges!Taken

\* The interrupt takes in a rising edge.
LEMMA RisingStep == ASSUME Edges!Inv, Edges!Rising PROVE Edges!Inv'
<1>1. /\ pulseTime' = pulseTime + 1 /\ pulsePending' = TRUE /\ pulseSeq' = pulseSeq + 1
      /\ pulseRising' = [pulseRising EXCEPT ![pulsePtr] = pulseTime + 1]
      /\ UNCHANGED <<pulseFalling, pulsePtr, pulseLast, pulseCount, pulseHasRising, pulseGap>>
  BY DEF Edges!Rising
<1>2. UNCHANGED <<pulseValue, pulsePc, pulseRead>>
  BY DEF Edges!Rising
<1>3. Edges!TypeOK /\ Edges!Past
  BY DEF Edges!Inv
<1>4. \A s \in Edges!Slot : pulseRising'[s] = IF s = pulsePtr THEN pulseTime + 1 ELSE pulseRising[s]
  BY <1>1, <1>3 DEF Edges!TypeOK
<1>5. Edges!TypeOK'
  <2>1. pulsePending' \in BOOLEAN /\ pulseHasRising' \in BOOLEAN
    BY <1>1, <1>3 DEF Edges!TypeOK
  <2>2. pulseRising' \in [Edges!Slot -> Nat]
    BY <1>1, <1>3 DEF Edges!TypeOK
  <2> QED
    BY <1>1, <1>2, <1>3, <2>1, <2>2 DEF Edges!TypeOK
<1>6. Edges!Past'
  <2>1. pulseGap' <= pulseTime' + 1
    BY <1>1, PastSlots
  <2>2. ASSUME NEW s \in Edges!Slot
        PROVE  pulseRising'[s] <= pulseTime' /\ pulseFalling'[s] <= pulseTime'
    BY <1>1, <1>4, PastSlots
  <2> QED
    BY <2>1, <2>2 DEF Edges!Past, Edges!Slot
<1>7. Edges!Counted'
  BY <1>1, <1>2 DEF Edges!Inv, Edges!Counted, Edges!Ago
<1>8. Edges!Risen'
  BY <1>1, <1>2, <1>3, <1>4 DEF Edges!Risen, Edges!TypeOK, Edges!Past
<1>9. Edges!Between'
  <2> SUFFICES ASSUME pulsePc \notin -5..-1, pulseHasRising
               PROVE  /\ pulseCount > 0 /\ 0 < pulseRising'[pulseLast]
                      /\ pulseRising'[pulseLast] < pulseFalling[pulseLast]
                      /\ pulseCount > 1 => pulseFalling[Edges!Ago(1)] < pulseRising'[pulseLast]
    BY <1>1, <1>2 DEF Edges!Between, Edges!Ago
  <2>1. Edges!Between /\ Edges!Counted
    BY DEF Edges!Inv
  <2>2. pulsePtr # pulseLast
    BY <1>3, <2>1, SlotBehind DEF Edges!Between, Edges!Counted, Edges!TypeOK
  <2>3. pulseRising'[pulseLast] = pulseRising[pulseLast]
    BY <1>3, <1>4, <2>2 DEF Edges!TypeOK
  <2> QED
    BY <2>1, <2>3 DEF Edges!Between
<1>10. Edges!Measuring'
  BY <1>2 DEF Edges!Inv, Edges!Measuring
<1>11. Edges!AsRead'
  <2>1. pulseSeq \in Nat /\ pulseRead.seq \in Nat /\ pulsePc \in -5..8 \cup {100}
    BY <1>3, OrderLength DEF Edges!TypeOK, Edges!Taken
  <2>2. pulsePc \in 2..8 => pulseSeq + 1 < pulseRead.seq + PulseWraps
    BY OrderLength DEF Edges!Rising, Edges!InTime
  <2> QED
    BY <1>1, <1>2, <2>1, <2>2, OrderLength, PulseAssumption DEF Edges!Inv, Edges!AsRead
<1>12. Edges!TakenIsPast' /\ Edges!Consistent'
  BY <1>1, <1>2, <1>3 DEF Edges!Inv, Edges!TakenIsPast, Edges!Consistent, Edges!TypeOK
<1> QED
  BY <1>5, <1>6, <1>7, <1>8, <1>9, <1>10, <1>11, <1>12 DEF Edges!Inv

\* The interrupt takes in a falling edge.
LEMMA FallingStep == ASSUME Edges!Inv, NEW late \in BOOLEAN, Edges!Falling(late) PROVE Edges!Inv'
<1>1. /\ pulseTime' = pulseTime + 1 /\ pulseSeq' = pulseSeq + 1
      /\ pulseFalling' = [pulseFalling EXCEPT ![pulsePtr] = pulseTime + 1]
      /\ pulseHasRising' = pulsePending /\ pulsePending' = FALSE
      /\ pulseLast' = pulsePtr /\ pulsePtr' = (pulsePtr + 1) % PulseSize
      /\ UNCHANGED pulseRising
  BY DEF Edges!Falling
<1>2. UNCHANGED <<pulseValue, pulsePc, pulseRead>>
  BY DEF Edges!Falling
<1>3. Edges!TypeOK /\ Edges!Past
  BY DEF Edges!Inv
<1>4. \A s \in Edges!Slot :
        pulseFalling'[s] = IF s = pulsePtr THEN pulseTime + 1 ELSE pulseFalling[s]
  BY <1>1, <1>3 DEF Edges!TypeOK
<1>5. /\ pulsePtr \in Edges!Slot /\ pulsePtr' \in Edges!Slot /\ pulsePtr' # pulsePtr
      /\ pulseTime \in Nat /\ pulseCount \in 0..PulseSize /\ pulseGap \in Nat
  BY <1>1, <1>3, SlotBehind DEF Edges!TypeOK
<1>6. PICK n \in 1..PulseSize, g \in {pulseGap, pulseTime + 1} :
        /\ pulseCount' = n /\ pulseGap' = g /\ g \in Nat /\ g <= pulseTime + 1
        /\ n > 1 => g = pulseGap /\ pulseCount > 0 /\ n <= pulseCount + 1
  <2>1. pulseCount' \in 1..PulseSize /\ pulseGap' \in {pulseGap, pulseTime + 1}
    BY <1>5, PulseAssumption DEF Edges!Falling
  <2>2. pulseGap <= pulseTime + 1
    BY PastSlots
  <2> QED
    BY <1>5, <2>1, <2>2, PulseAssumption DEF Edges!Falling
<1>7. Edges!TypeOK'
  <2>1. pulsePending' \in BOOLEAN /\ pulseHasRising' \in BOOLEAN
    BY <1>1, <1>3 DEF Edges!TypeOK
  <2>2. pulseFalling' \in [Edges!Slot -> Nat]
    BY <1>1, <1>3 DEF Edges!TypeOK
  <2>3. pulseRead' = pulseRead /\ pulsePc' = pulsePc /\ pulseValue' = pulseValue
    BY <1>2
  <2>4. /\ pulseCount' \in 0..PulseSize /\ pulseGap' \in Nat
        /\ pulseSeq' \in Nat /\ pulseTime' \in Nat
    BY <1>1, <1>3, <1>6, PulseAssumption DEF Edges!TypeOK
  <2> QED
    BY <1>1, <1>3, <1>5, <2>1, <2>2, <2>3, <2>4 DEF Edges!TypeOK, Edges!Slot
<1>8. Edges!Past'
  <2>1. g <= pulseTime' + 1
    BY <1>1, <1>6, PastSlots
  <2>2. ASSUME NEW s \in Edges!Slot
        PROVE  pulseRising'[s] <= pulseTime' /\ pulseFalling'[s] <= pulseTime'
    BY <1>1, <1>4, PastSlots
  <2> QED
    BY <1>6, <2>1, <2>2 DEF Edges!Past, Edges!Slot
<1>9. ASSUME pulsePc \notin -3..-1, pulseCount > 0
      PROVE  /\ pulseLast \in Edges!Slot /\ pulsePtr = (pulseLast + 1) % PulseSize
             /\ \A j \in 0..PulseSize - 2 :
                  /\ Edges!Ago(j) \in Edges!Slot /\ Edges!Ago(j)' \in Edges!Slot
                  /\ Edges!Ago(j + 1)' = Edges!Ago(j) /\ Edges!Ago(j) # pulsePtr
  <2>1. pulseLast \in Edges!Slot /\ pulsePtr = (pulseLast + 1) % PulseSize
    BY <1>3, <1>9 DEF Edges!Inv, Edges!Counted, Edges!TypeOK
  <2>2. ASSUME NEW j \in 0..PulseSize - 2
        PROVE  /\ Edges!Ago(j) \in Edges!Slot /\ Edges!Ago(j)' \in Edges!Slot
               /\ Edges!Ago(j + 1)' = Edges!Ago(j) /\ Edges!Ago(j) # pulsePtr
    <3>1. j \in 0..PulseSize
      BY PulseAssumption
    <3> QED
      BY <1>1, <1>5, <2>1, <3>1, SlotBehind, SlotsBefore DEF Edges!Ago
  <2> QED
    BY <2>1, <2>2
<1>10. Edges!Ago(0)' = pulsePtr
  BY <1>1, <1>5, SlotsBefore, PulseAssumption DEF Edges!Ago, Edges!Slot
<1>11. Edges!Counted'
  <2> SUFFICES ASSUME pulsePc \notin -3..-1
               PROVE  /\ pulsePtr' = (pulseLast' + 1) % PulseSize
                      /\ \A j \in 0..n - 1 : g <= pulseFalling'[Edges!Ago(j)']
                      /\ \A i, j \in 0..n - 1 :
                           i < j => pulseFalling'[Edges!Ago(j)'] < pulseFalling'[Edges!Ago(i)']
                      /\ \A s \in Edges!Slot : pulseFalling'[s] <= pulseFalling'[pulseLast']
                      /\ n > 1 =>
                           \A s \in Edges!Slot \ {pulseLast'} :
                             pulseFalling'[s] <= pulseFalling'[Edges!Ago(1)']
    BY <1>2, <1>6 DEF Edges!Counted, Edges!Slot, Edges!Ago
  <2>1. pulsePtr' = (pulseLast' + 1) % PulseSize
    BY <1>1
  <2>2. \A s \in Edges!Slot : pulseFalling'[s] <= pulseFalling'[pulseLast']
    BY <1>1, <1>4, <1>5, PastSlots
  <2>3. ASSUME NEW j \in 1..n - 1
        PROVE  /\ Edges!Ago(j)' = Edges!Ago(j - 1) /\ j - 1 \in 0..pulseCount - 1
               /\ pulseFalling'[Edges!Ago(j)'] = pulseFalling[Edges!Ago(j - 1)]
               /\ pulseFalling[Edges!Ago(j - 1)] \in Nat
               /\ pulseFalling[Edges!Ago(j - 1)] <= pulseTime
    <3>1. pulseCount > 0 /\ j - 1 \in 0..PulseSize - 2 /\ j - 1 \in 0..pulseCount - 1
      BY <1>5, <1>6, PulseAssumption
    <3>2. Edges!Ago((j - 1) + 1)' = Edges!Ago(j - 1)
      BY <1>9, <3>1
    <3>3. Edges!Ago(j)' = Edges!Ago(j - 1)
      BY <3>2, (j - 1) + 1 = j
    <3> QED
      BY <1>3, <1>4, <1>9, <3>1, <3>3 DEF Edges!TypeOK, Edges!Past
  <2>4. pulseFalling'[Edges!Ago(0)'] = pulseTime + 1
    BY <1>4, <1>5, <1>10
  <2>5. \A j \in 0..n - 1 : g <= pulseFalling'[Edges!Ago(j)']
    <3> SUFFICES ASSUME NEW j \in 0..n - 1 PROVE g <= pulseFalling'[Edges!Ago(j)']
      OBVIOUS
    <3>1. CASE j = 0
      BY <1>6, <2>4, <3>1
    <3>2. CASE j # 0
      <4>1. j \in 1..n - 1 /\ g = pulseGap /\ pulseCount > 0
        BY <1>6, <3>2, PulseAssumption
      <4> QED
        BY <2>3, <4>1 DEF Edges!Inv, Edges!Counted
    <3> QED
      BY <3>1, <3>2
  <2>6. ASSUME NEW i \in 0..n - 1, NEW j \in 0..n - 1, i < j
        PROVE  pulseFalling'[Edges!Ago(j)'] < pulseFalling'[Edges!Ago(i)']
    <3>1. j \in 1..n - 1 /\ pulseCount > 0
      BY <1>6, <2>6, PulseAssumption
    <3>2. CASE i = 0
      BY <1>5, <2>3, <2>4, <3>1, <3>2
    <3>3. CASE i # 0
      <4>1. i \in 1..n - 1 /\ i - 1 < j - 1
        BY <2>6, <3>3
      <4> QED
        BY <2>3, <3>1, <4>1 DEF Edges!Inv, Edges!Counted
    <3> QED
      BY <3>2, <3>3
  <2>7. ASSUME n > 1, NEW s \in Edges!Slot \ {pulseLast'}
        PROVE  pulseFalling'[s] <= pulseFalling'[Edges!Ago(1)']
    <3>1. pulseCount > 0 /\ 1 \in 1..n - 1 /\ 1 - 1 = 0
      BY <1>6, <2>7, PulseAssumption
    <3>2. pulseFalling'[Edges!Ago(1)'] = pulseFalling[Edges!Ago(0)]
      BY <2>3, <3>1
    <3>3. Edges!Ago(0) = pulseLast
      BY <1>9, <3>1, LastIsNone DEF Edges!Ago
    <3>4. pulseFalling'[s] = pulseFalling[s]
      BY <1>1, <1>4
    <3> QED
      BY <3>1, <3>2, <3>3, <3>4 DEF Edges!Inv, Edges!Counted
  <2> QED
    BY <2>1, <2>2, <2>5, <2>6, <2>7
<1>12. Edges!Risen'
  BY <1>1 DEF Edges!Risen
<1>13. Edges!Between'
  <2> SUFFICES ASSUME pulsePc \notin -5..-1, pulsePending
               PROVE  /\ n > 0 /\ 0 < pulseRising[pulsePtr]
                      /\ pulseRising[pulsePtr] < pulseFalling'[pulsePtr]
                      /\ n > 1 => pulseFalling'[Edges!Ago(1)'] < pulseRising[pulsePtr]
    BY <1>1, <1>2, <1>6 DEF Edges!Between, Edges!Ago
  <2>1. Edges!Risen
    BY DEF Edges!Inv
  <2>2. 0 < pulseRising[pulsePtr] /\ pulseRising[pulsePtr] < pulseFalling'[pulsePtr]
    BY <1>4, <1>5, <2>1, PastSlots DEF Edges!Risen
  <2>3. ASSUME n > 1 PROVE pulseFalling'[Edges!Ago(1)'] < pulseRising[pulsePtr]
    <3>1. pulseCount > 0 /\ 0 \in 0..PulseSize - 2 /\ 0 + 1 = 1
      BY <1>6, <2>3, PulseAssumption
    <3>2. Edges!Ago(0) = pulseLast
      BY <1>9, <3>1, LastIsNone DEF Edges!Ago
    <3>3. Edges!Ago(0 + 1)' = Edges!Ago(0) /\ Edges!Ago(0) # pulsePtr /\ Edges!Ago(0) \in Edges!Slot
      BY <1>9, <3>1
    <3>4. Edges!Ago(1)' = pulseLast
      BY <3>1, <3>2, <3>3
    <3>5. pulseFalling'[Edges!Ago(1)'] = pulseFalling[pulseLast]
      BY <1>4, <3>2, <3>3, <3>4
    <3> QED
      BY <2>1, <3>1, <3>5 DEF Edges!Risen
  <2> QED
    BY <1>6, <2>2, <2>3
<1>14. Edges!Measuring'
  BY <1>2 DEF Edges!Inv, Edges!Measuring
<1>15. Edges!AsRead'
  <2>1. pulseSeq \in Nat /\ pulseSeq' = pulseSeq + 1 /\ pulseRead.seq \in Nat
    BY <1>1, <1>3 DEF Edges!TypeOK
  <2>2. pulsePc \in 2..8 => pulseSeq + 1 < pulseRead.seq + PulseWraps
    BY OrderLength DEF Edges!Falling, Edges!InTime
  <2> QED
    BY <1>2, <2>1, <2>2, OrderLength, PulseAssumption DEF Edges!Inv, Edges!AsRead
<1>16. Edges!TakenIsPast' /\ Edges!Consistent'
  <2>1. Edges!TakenIsPast /\ Edges!Consistent
    BY DEF Edges!Inv
  <2>2. Edges!TakenIsPast'
    BY <1>1, <1>2, <1>3, <2>1 DEF Edges!TakenIsPast, Edges!TypeOK
  <2>3. Edges!Consistent'
    <3> SUFFICES ASSUME pulsePc = Edges!Taken PROVE Edges!Consistent'
      BY <1>2 DEF Edges!Consistent, Edges!Taken
    <3>1. pulseRead.falling \in Nat /\ pulseRead.other \in Nat /\ pulseRead.falling <= pulseTime
      BY <1>3, <2>1 DEF Edges!TypeOK, Edges!TakenIsPast
    <3>2. pulseRead.other < g /\ g <= pulseRead.falling =>
            pulseRead.other < pulseGap /\ pulseGap <= pulseRead.falling
      BY <1>5, <1>6, <3>1
    <3>3. \A s \in Edges!Slot :
            pulseFalling'[s] > pulseRead.other /\ pulseFalling'[s] < pulseRead.falling =>
              pulseFalling[s] > pulseRead.other /\ pulseFalling[s] < pulseRead.falling
      BY <1>4, <1>5, <3>1
    <3> QED
      BY <1>2, <1>6, <2>1, <3>2, <3>3 DEF Edges!Consistent, Edges!Slot
  <2> QED
    BY <2>2, <2>3
<1> QED
  BY <1>7, <1>8, <1>11, <1>12, <1>13, <1>14, <1>15, <1>16 DEF Edges!Inv

\* What a measurement may have read.
Readings ==
  [before : 0..PulseSize, seq : Nat, count : 0..PulseSize, last : Edges!Slot,
   rising : Nat, falling : Nat, other : Nat, has : {0, 1}]

LEMMA NothingRead ==
  ASSUME NEW before \in 0..PulseSize
  PROVE  /\ [Edges!NotRead EXCEPT !.before = before] \in Readings
         /\ [Edges!NotRead EXCEPT !.before = before].before = before
         /\ Edges!NotRead \in Readings
BY PulseAssumption DEF Edges!NotRead, Readings, Edges!Slot

\* What the interrupt left is not touched: the invariant is about what the task reads.
LEMMA InterruptStands ==
  ASSUME Edges!Inv, UNCHANGED Edges!interrupt,
         pulsePc \notin -5..-1, pulsePc' \notin -5..-1
  PROVE  /\ Edges!Past' /\ Edges!Counted' /\ Edges!Risen' /\ Edges!Between'
         /\ pulseRead' \in Readings /\ pulseValue' \in {"none"} \cup PulseValues
            /\ pulsePc' \in -5..Len(Edges!Order) + 1 \cup {Edges!Taken} => Edges!TypeOK'
<1>1. /\ UNCHANGED <<pulseRising, pulseFalling, pulsePtr, pulseLast, pulseCount, pulsePending>>
      /\ UNCHANGED <<pulseHasRising, pulseSeq, pulseTime, pulseGap>>
  BY DEF Edges!interrupt
<1>2. pulsePc \notin -3..-1 /\ pulsePc \notin -4..-1
  OBVIOUS
<1>3. Edges!Past'
  BY <1>1 DEF Edges!Inv, Edges!Past, Edges!Slot
<1>4. Edges!Counted'
  BY <1>1, <1>2 DEF Edges!Inv, Edges!Counted, Edges!Ago, Edges!Slot
<1>5. Edges!Risen'
  BY <1>1, <1>2 DEF Edges!Inv, Edges!Risen
<1>6. Edges!Between'
  BY <1>1 DEF Edges!Inv, Edges!Between, Edges!Ago
<1>7. ASSUME pulseRead' \in Readings, pulseValue' \in {"none"} \cup PulseValues,
             pulsePc' \in -5..Len(Edges!Order) + 1 \cup {Edges!Taken}
      PROVE  Edges!TypeOK'
  BY <1>1, <1>7 DEF Edges!Inv, Edges!TypeOK, Readings, Edges!Slot, Edges!Order, Edges!Taken
<1> QED
  BY <1>3, <1>4, <1>5, <1>6, <1>7

\* A measurement begins, or is not made at all.
LEMMA BeginStep ==
  ASSUME Edges!Inv, UNCHANGED Edges!interrupt, pulsePc \notin -5..-1,
         \/ Edges!Idle
         \/ \E v \in PulseValues, before \in 0..PulseSize :
              /\ pulsePc' = 1 /\ pulseValue' = v
              /\ pulseRead' = [Edges!NotRead EXCEPT !.before = before]
              /\ v = "average" => before > 1
  PROVE  Edges!Inv'
<1>1. /\ pulsePc' \in {0, 1} /\ pulseRead' \in Readings
      /\ pulseValue' \in {"none"} \cup PulseValues
      /\ pulsePc' = 1 => /\ pulseValue' \in PulseValues
                         /\ pulseValue' = "average" => pulseRead'.before > 1
  <2>1. CASE Edges!Idle
    <3>1. pulsePc' = 0 /\ pulseValue' = "none" /\ pulseRead' = Edges!NotRead
      BY <2>1 DEF Edges!Idle
    <3>2. 0 \in 0..PulseSize
      BY PulseAssumption
    <3>3. Edges!NotRead \in Readings
      BY <3>2, NothingRead
    <3> QED
      BY <3>1, <3>3
  <2>2. CASE ~Edges!Idle
    <3>1. PICK v \in PulseValues, before \in 0..PulseSize :
            /\ pulsePc' = 1 /\ pulseValue' = v
            /\ pulseRead' = [Edges!NotRead EXCEPT !.before = before]
            /\ v = "average" => before > 1
      BY <2>2
    <3>2. pulseRead' \in Readings /\ pulseRead'.before = before
      BY <3>1, NothingRead
    <3> QED
      BY <3>1, <3>2
  <2> QED
    BY <2>1, <2>2
<1>2. pulsePc' \notin -5..-1 /\ pulsePc' \in -5..Len(Edges!Order) + 1
  BY <1>1, OrderLength
<1>3. Edges!TypeOK' /\ Edges!Past' /\ Edges!Counted' /\ Edges!Risen' /\ Edges!Between'
  BY <1>1, <1>2, InterruptStands
<1>4. Edges!Measuring'
  BY <1>1 DEF Edges!Measuring
<1>5. Edges!AsRead' /\ Edges!TakenIsPast' /\ Edges!Consistent'
  BY <1>1 DEF Edges!AsRead, Edges!TakenIsPast, Edges!Consistent, Edges!Taken
<1> QED
  BY <1>3, <1>4, <1>5 DEF Edges!Inv

LEMMA BeginMeasures ==
  ASSUME Edges!Inv, NEW v \in PulseValues, Edges!Begin(v)
  PROVE  \/ Edges!Idle
         \/ \E w \in PulseValues, before \in 0..PulseSize :
              /\ pulsePc' = 1 /\ pulseValue' = w
              /\ pulseRead' = [Edges!NotRead EXCEPT !.before = before]
              /\ w = "average" => before > 1
<1>1. pulseCount \in 0..PulseSize
  BY DEF Edges!Inv, Edges!TypeOK
<1> QED
  BY <1>1, PulseAssumption DEF Edges!Begin

LEMMA StartStep == ASSUME Edges!Inv, NEW v \in PulseValues, Edges!Start(v) PROVE Edges!Inv'
<1>1. pulsePc \notin -5..-1 /\ UNCHANGED Edges!interrupt /\ Edges!Begin(v)
  BY DEF Edges!Start
<1> QED
  BY <1>1, BeginStep, BeginMeasures

LEMMA DoneStep == ASSUME Edges!Inv, Edges!Done PROVE Edges!Inv'
<1>1. pulsePc \notin -5..-1 /\ UNCHANGED Edges!interrupt /\ Edges!Idle
  BY DEF Edges!Done, Edges!Taken
<1> QED
  BY <1>1, BeginStep

LEMMA BackSlot ==
  ASSUME Edges!Inv, pulsePc > 0, pulseRead.last \in Edges!Slot
  PROVE  /\ Edges!Back \in 1..PulseSize
         /\ (pulseRead.last + PulseSize - Edges!Back) % PulseSize \in Edges!Slot
<1>1. pulseRead.before \in 0..PulseSize
  BY DEF Edges!Inv, Edges!TypeOK
<1>2. pulseValue = "average" => pulseRead.before > 1
  BY DEF Edges!Inv, Edges!Measuring
<1>3. Edges!Back \in 1..PulseSize
  BY <1>1, <1>2, PulseAssumption DEF Edges!Back
<1> QED
  BY <1>3, SlotsBefore, PulseAssumption

LEMMA ReadStep == ASSUME Edges!Inv, Edges!Read PROVE Edges!Inv'
<1>1. /\ pulsePc \in 1..7 /\ pulsePc' = pulsePc + 1
      /\ pulseRead' = [pulseRead EXCEPT ![Edges!Order[pulsePc]] = Edges!Found(Edges!Order[pulsePc])]
      /\ UNCHANGED Edges!interrupt /\ UNCHANGED pulseValue
  BY OrderLength DEF Edges!Read
<1>2. /\ UNCHANGED <<pulseRising, pulseFalling, pulsePtr, pulseLast, pulseCount, pulsePending>>
      /\ UNCHANGED <<pulseHasRising, pulseSeq, pulseTime, pulseGap>>
  BY <1>1 DEF Edges!interrupt
<1>3. Edges!TypeOK /\ pulseRead \in Readings /\ Edges!AsRead
  BY DEF Edges!Inv, Edges!TypeOK, Readings
<1>4. pulseRead.last \in Edges!Slot /\ pulsePc > 0
  BY <1>1, <1>3 DEF Readings
<1>5. /\ pulseRead' \in Readings /\ pulseRead'.before = pulseRead.before
      /\ Edges!AsRead'
  <2>1. CASE pulsePc = 1
    <3>1. pulseRead' = [pulseRead EXCEPT !.seq = pulseSeq]
      BY <1>1, <2>1 DEF Edges!Found, Edges!Order
    <3> QED
      BY <1>1, <1>2, <1>3, <2>1, <3>1, OrderLength, PulseAssumption
         DEF Readings, Edges!AsRead, Edges!TypeOK
  <2>2. CASE pulsePc = 2
    <3>1. pulseRead' = [pulseRead EXCEPT !.count = pulseCount]
      BY <1>1, <2>2 DEF Edges!Found, Edges!Order
    <3> QED
      BY <1>1, <1>2, <1>3, <2>2, <3>1, OrderLength DEF Readings, Edges!AsRead, Edges!TypeOK
  <2>3. CASE pulsePc = 3
    <3>1. pulseRead' = [pulseRead EXCEPT !.last = pulseLast]
      BY <1>1, <2>3 DEF Edges!Found, Edges!Order
    <3> QED
      BY <1>1, <1>2, <1>3, <2>3, <3>1, OrderLength DEF Readings, Edges!AsRead, Edges!TypeOK
  <2>4. CASE pulsePc = 4
    <3>1. pulseRead' = [pulseRead EXCEPT !.rising = pulseRising[pulseRead.last]]
      BY <1>1, <2>4 DEF Edges!Found, Edges!Order
    <3>2. pulseRising[pulseRead.last] \in Nat
      BY <1>4, PastSlots
    <3> QED
      BY <1>1, <1>2, <1>3, <2>4, <3>1, <3>2, OrderLength DEF Readings, Edges!AsRead
  <2>5. CASE pulsePc = 5
    <3>1. pulseRead' = [pulseRead EXCEPT !.falling = pulseFalling[pulseRead.last]]
      BY <1>1, <2>5 DEF Edges!Found, Edges!Order
    <3>2. pulseFalling[pulseRead.last] \in Nat
      BY <1>4, PastSlots
    <3> QED
      BY <1>1, <1>2, <1>3, <2>5, <3>1, <3>2, OrderLength DEF Readings, Edges!AsRead
  <2>6. CASE pulsePc = 6
    <3> DEFINE other == (pulseRead.last + PulseSize - Edges!Back) % PulseSize
    <3>1. pulseRead' = [pulseRead EXCEPT !.other = pulseFalling[other]]
      BY <1>1, <2>6 DEF Edges!Found, Edges!Order
    <3>2. pulseFalling[other] \in Nat
      BY <1>4, BackSlot, PastSlots
    <3>3. Edges!Back' = Edges!Back
      BY <1>1, <3>1 DEF Edges!Back
    <3>4. pulseRead.seq = pulseSeq =>
            pulseFalling[other] = pulseFalling[(pulseLast + PulseSize - Edges!Back) % PulseSize]
      BY <1>3, <2>6, OrderLength DEF Edges!AsRead
    <3> HIDE DEF other
    <3> QED
      BY <1>1, <1>2, <1>3, <2>6, <3>1, <3>2, <3>3, <3>4, OrderLength DEF Readings, Edges!AsRead
  <2>7. CASE pulsePc = 7
    <3> DEFINE has == IF pulseHasRising THEN 1 ELSE 0
    <3>1. pulseRead' = [pulseRead EXCEPT !.has = has]
      BY <1>1, <2>7 DEF Edges!Found, Edges!Order
    <3>2. has \in {0, 1} /\ has' = has
      BY <1>2
    <3>3. Edges!Back' = Edges!Back
      BY <1>1, <3>1 DEF Edges!Back
    <3>4. Edges!AsRead' <=>
            (pulsePc' \in 2..8 =>
              /\ pulseRead'.seq <= pulseSeq' /\ pulseSeq' < pulseRead'.seq + PulseWraps
              /\ pulseRead'.seq = pulseSeq' =>
                   /\ pulsePc' > 2 => pulseRead'.count = pulseCount'
                   /\ pulsePc' > 3 => pulseRead'.last = pulseLast'
                   /\ pulsePc' > 4 => pulseRead'.rising = pulseRising'[pulseLast']
                   /\ pulsePc' > 5 => pulseRead'.falling = pulseFalling'[pulseLast']
                   /\ pulsePc' > 6 => pulseRead'.other
                        = pulseFalling'[(pulseLast' + PulseSize - Edges!Back') % PulseSize]
                   /\ pulsePc' > 7 => pulseRead'.has = has')
      BY OrderLength DEF Edges!AsRead
    <3> HIDE DEF has
    <3> QED
      BY <1>1, <1>2, <1>3, <2>7, <3>1, <3>2, <3>3, <3>4, OrderLength DEF Readings, Edges!AsRead
  <2> QED
    BY <1>1, <2>1, <2>2, <2>3, <2>4, <2>5, <2>6, <2>7
<1>6. pulsePc \notin -5..-1 /\ pulsePc' \notin -5..-1
      /\ pulsePc' \in -5..Len(Edges!Order) + 1 /\ pulsePc' # Edges!Taken
  BY <1>1, OrderLength DEF Edges!Taken
<1>7. pulseValue' \in {"none"} \cup PulseValues
  BY <1>1, <1>3 DEF Edges!TypeOK
<1>8. Edges!TypeOK' /\ Edges!Past' /\ Edges!Counted' /\ Edges!Risen' /\ Edges!Between'
  BY <1>1, <1>5, <1>6, <1>7, InterruptStands
<1>9. Edges!Measuring'
  BY <1>1, <1>4, <1>5 DEF Edges!Inv, Edges!Measuring
<1>10. Edges!TakenIsPast' /\ Edges!Consistent'
  BY <1>6 DEF Edges!TakenIsPast, Edges!Consistent, Edges!Taken
<1> QED
  BY <1>5, <1>8, <1>9, <1>10 DEF Edges!Inv

\* A measurement is taken when the sequence number stands: it is about what is there.
LEMMA TakenStep ==
  ASSUME Edges!Inv, pulsePc = 8, pulseRead.seq = pulseSeq, Edges!Enough,
         pulseValue = "average" => pulseRead.count = pulseRead.before
  PROVE  /\ pulseRead.falling <= pulseTime
         /\ pulseValue # "high" =>
              /\ pulseRead.other < pulseRead.falling
              /\ ~(pulseRead.other < pulseGap /\ pulseGap <= pulseRead.falling)
         /\ pulseValue = "low" =>
              pulseRead.rising > pulseRead.other /\ pulseRead.rising < pulseRead.falling
         /\ pulseValue = "high" => pulseRead.rising < pulseRead.falling /\ pulseRead.rising > 0
         /\ pulseValue = "period" =>
              ~ \E s \in Edges!Slot :
                  pulseFalling[s] > pulseRead.other /\ pulseFalling[s] < pulseRead.falling
<1>1. /\ pulseRead.count = pulseCount /\ pulseRead.last = pulseLast
      /\ pulseRead.rising = pulseRising[pulseLast] /\ pulseRead.falling = pulseFalling[pulseLast]
      /\ pulseRead.other = pulseFalling[(pulseLast + PulseSize - Edges!Back) % PulseSize]
      /\ pulseRead.has = IF pulseHasRising THEN 1 ELSE 0
  BY OrderLength DEF Edges!Inv, Edges!AsRead
<1>2. /\ pulseLast \in Edges!Slot /\ pulseCount \in 0..PulseSize
      /\ pulseRead.before \in 0..PulseSize
  BY DEF Edges!Inv, Edges!TypeOK
<1>3. pulseCount > 0 /\ (pulseValue # "high" => pulseCount > 1)
  BY <1>1, <1>2 DEF Edges!Enough
<1>4. pulseValue \in {"low", "high"} => pulseHasRising
  BY <1>1 DEF Edges!Enough
<1>5. pulsePc \notin -5..-1 /\ pulsePc \notin -3..-1 /\ pulsePc > 0
  OBVIOUS
<1>6. Edges!Ago(0) = pulseLast
  BY <1>2, LastIsNone DEF Edges!Ago
<1>7. /\ \A j \in 0..pulseCount - 1 : pulseGap <= pulseFalling[Edges!Ago(j)]
      /\ \A i, j \in 0..pulseCount - 1 :
           i < j => pulseFalling[Edges!Ago(j)] < pulseFalling[Edges!Ago(i)]
      /\ \A s \in Edges!Slot : pulseFalling[s] <= pulseFalling[pulseLast]
      /\ pulseCount > 1 =>
           \A s \in Edges!Slot \ {pulseLast} : pulseFalling[s] <= pulseFalling[Edges!Ago(1)]
  BY <1>3, <1>5 DEF Edges!Inv, Edges!Counted
<1>8. pulseHasRising =>
        /\ 0 < pulseRising[pulseLast] /\ pulseRising[pulseLast] < pulseFalling[pulseLast]
        /\ pulseCount > 1 => pulseFalling[Edges!Ago(1)] < pulseRising[pulseLast]
  BY <1>5 DEF Edges!Inv, Edges!Between
<1>9. Edges!Back = (IF pulseValue = "average" THEN pulseCount - 1 ELSE 1)
  BY <1>1 DEF Edges!Back
<1>10. pulseRead.other = pulseFalling[Edges!Ago(Edges!Back)]
  BY <1>1 DEF Edges!Ago
<1>11. pulseRead.falling \in Nat /\ pulseRead.falling <= pulseTime
  BY <1>1, <1>2, PastSlots
<1>12. ASSUME pulseValue # "high"
       PROVE  /\ pulseRead.other < pulseRead.falling /\ pulseGap <= pulseRead.other
  <2>1. Edges!Back \in 0..pulseCount - 1 /\ 0 \in 0..pulseCount - 1 /\ 0 < Edges!Back
    BY <1>2, <1>3, <1>9, <1>12
  <2> QED
    BY <1>1, <1>6, <1>7, <1>10, <2>1
<1>13. /\ pulseRead.other \in Nat /\ pulseGap \in Nat
       /\ \A s \in Edges!Slot : pulseFalling[s] \in Nat
  <2>1. pulseRead.other \in Nat
    BY DEF Edges!Inv, Edges!TypeOK
  <2> QED
    BY <2>1, PastSlots
<1>14. pulseValue = "low" =>
         pulseRead.rising > pulseRead.other /\ pulseRead.rising < pulseRead.falling
  BY <1>1, <1>3, <1>4, <1>8, <1>9, <1>10
<1>15. pulseValue = "high" => pulseRead.rising < pulseRead.falling /\ pulseRead.rising > 0
  BY <1>1, <1>4, <1>8
<1>16. ASSUME pulseValue = "period", NEW s \in Edges!Slot,
              pulseFalling[s] > pulseRead.other, pulseFalling[s] < pulseRead.falling
       PROVE  FALSE
  <2>1. pulseRead.other = pulseFalling[Edges!Ago(1)] /\ pulseCount > 1
    BY <1>3, <1>9, <1>10, <1>16
  <2>2. CASE s = pulseLast
    BY <1>1, <1>11, <1>16, <2>2
  <2>3. CASE s # pulseLast
    BY <1>7, <1>13, <1>16, <2>1, <2>3
  <2> QED
    BY <2>2, <2>3
<1> QED
  BY <1>11, <1>12, <1>13, <1>14, <1>15, <1>16

\* What is left of a number where it wraps.
LEMMA DivMod ==
  ASSUME NEW w \in Nat, w > 0, NEW a \in Nat
  PROVE  a \div w \in Int /\ a % w \in 0..w - 1 /\ a = w * (a \div w) + (a % w)
BY Z3

LEMMA Multiple == ASSUME NEW w \in Nat, w > 0, NEW q \in Int, q > 0 PROVE w * q >= w
BY Z3

\* Multiples less apart than one are the same.
LEMMA SameMultiple ==
  ASSUME NEW w \in Nat, w > 0, NEW p \in Int, NEW q \in Int, w * p - w * q >= 0, w * p - w * q < w
  PROVE  p = q
<1>1. w * (p - q) = w * p - w * q
  BY SMT
<1>2. p - q \in Int
  OBVIOUS
<1>3. CASE p - q >= 1
  BY <1>1, <1>2, <1>3, Multiple
<1>4. CASE q - p >= 1
  <2>1. w * (q - p) = w * q - w * p
    BY SMT
  <2> QED
    BY <1>4, <2>1, Multiple
<1> QED
  BY <1>3, <1>4

\* Numbers that are less apart than they wrap are the same when what is left of them is.
LEMMA SameNumber ==
  ASSUME NEW w \in Nat, w > 0, NEW a \in Nat, NEW b \in Nat, b <= a, a < b + w, a % w = b % w
  PROVE  a = b
<1>1. a = w * (a \div w) + (a % w) /\ b = w * (b \div w) + (b % w)
  BY DivMod
<1>2. a \div w = b \div w
  BY <1>1, DivMod, SameMultiple
<1> QED
  BY <1>1, <1>2

\* What the code compares tells of every edge in between.
LEMMA DisturbedIsRight ==
  ASSUME Edges!Inv, pulsePc = 8
  PROVE  Edges!Disturbed <=> pulseSeq # pulseRead.seq
<1>1. /\ pulseSeq \in Nat /\ pulseRead.seq \in Nat
      /\ pulseRead.seq <= pulseSeq /\ pulseSeq < pulseRead.seq + PulseWraps
  BY OrderLength DEF Edges!Inv, Edges!TypeOK, Edges!AsRead
<1> QED
  BY <1>1, SameNumber, PulseAssumption DEF Edges!Disturbed

LEMMA CheckStep == ASSUME Edges!Inv, Edges!Check PROVE Edges!Inv'
<1>1. pulsePc = 8 /\ pulsePc \notin -5..-1 /\ UNCHANGED Edges!interrupt
  BY OrderLength DEF Edges!Check
<1>2. pulseValue \in PulseValues /\ (pulseValue = "average" => pulseRead.before > 1)
      /\ pulseRead.before \in 0..PulseSize
  BY <1>1 DEF Edges!Inv, Edges!Measuring, Edges!TypeOK
<1>0. Edges!Disturbed <=> pulseSeq # pulseRead.seq
  BY <1>1, DisturbedIsRight
<1>3. CASE pulseSeq # pulseRead.seq
  <2>1. /\ pulsePc' = 1 /\ pulseRead' = [Edges!NotRead EXCEPT !.before = pulseRead.before]
        /\ pulseValue' = pulseValue
    BY <1>0, <1>3 DEF Edges!Check
  <2> QED
    BY <1>1, <1>2, <2>1, BeginStep
<1>4. CASE pulseSeq = pulseRead.seq /\ pulseValue = "average" /\ pulseRead.count # pulseRead.before
  <2>1. Edges!Begin(pulseValue)
    BY <1>0, <1>4 DEF Edges!Check
  <2> QED
    BY <1>1, <1>2, <2>1, BeginStep, BeginMeasures
<1>5. CASE /\ pulseSeq = pulseRead.seq /\ Edges!Enough
           /\ pulseValue = "average" => pulseRead.count = pulseRead.before
  <2>1. pulsePc' = Edges!Taken /\ pulseRead' = pulseRead /\ pulseValue' = pulseValue
    BY <1>0, <1>5 DEF Edges!Check
  <2>2. pulseRead \in Readings /\ pulseValue \in {"none"} \cup PulseValues
    BY DEF Edges!Inv, Edges!TypeOK, Readings
  <2>3. pulsePc' = 100 /\ pulsePc' \notin -5..-1 /\ pulsePc' \notin 2..8
    BY <2>1 DEF Edges!Taken
  <2>4. Edges!TypeOK' /\ Edges!Past' /\ Edges!Counted' /\ Edges!Risen' /\ Edges!Between'
    BY <1>1, <2>1, <2>2, <2>3, InterruptStands
  <2>5. Edges!Measuring' /\ Edges!AsRead'
    BY <1>2, <2>1, <2>3, OrderLength DEF Edges!Measuring, Edges!AsRead
  <2>6. UNCHANGED <<pulseTime, pulseGap, pulseFalling>>
    BY <1>1 DEF Edges!interrupt
  <2>7. Edges!TakenIsPast' /\ Edges!Consistent'
    BY <1>1, <1>5, <2>1, <2>6, TakenStep DEF Edges!TakenIsPast, Edges!Consistent, Edges!Slot
  <2> QED
    BY <2>4, <2>5, <2>7 DEF Edges!Inv
<1>6. CASE /\ pulseSeq = pulseRead.seq
           /\ ~(pulseValue = "average" /\ pulseRead.count # pulseRead.before)
           /\ ~Edges!Enough
  <2>1. Edges!Idle
    BY <1>0, <1>6 DEF Edges!Check
  <2> QED
    BY <1>1, <2>1, BeginStep
<1> QED
  BY <1>3, <1>4, <1>5, <1>6

\* A reset: what is not told of yet is told of again when the field it rests on is reset.
LEMMA ResetStep == ASSUME Edges!Inv, Edges!Reset PROVE Edges!Inv'
<1>1. /\ pulsePc \in {0, -1, -2, -3, -4, -5}
      /\ pulsePc' = IF pulsePc = -5 THEN 0 ELSE pulsePc - 1
      /\ UNCHANGED <<pulseTime, pulseValue, pulseRead>>
  BY DEF Edges!Reset
<1>2. /\ IF pulsePc = 0
           THEN /\ pulseRising' = [s \in Edges!Slot |-> 0]
                /\ pulseFalling' = [s \in Edges!Slot |-> 0]
           ELSE UNCHANGED <<pulseRising, pulseFalling>>
      /\ pulsePtr' = (IF pulsePc = -1 THEN 0 ELSE pulsePtr)
      /\ pulseLast' = (IF pulsePc = -2 THEN 0 ELSE pulseLast)
      /\ pulseCount' = (IF pulsePc = -3 THEN 0 ELSE pulseCount)
      /\ pulsePending' = (pulsePending /\ pulsePc # -4)
      /\ pulseHasRising' = (pulseHasRising /\ pulsePc # -5)
      /\ pulseSeq' = (IF pulsePc = -5 THEN pulseSeq + 1 ELSE pulseSeq)
      /\ pulseGap' = (IF pulsePc = -3 THEN pulseTime + 1 ELSE pulseGap)
  BY DEF Edges!Reset
<1>3. Edges!TypeOK
  BY DEF Edges!Inv
<1>4. pulsePc' \in {0, -1, -2, -3, -4, -5} /\ pulsePc' \notin 2..8 /\ pulsePc' \in -5..8
  BY <1>1
<1>5. Edges!TypeOK'
  <2>1. pulseRising' \in [Edges!Slot -> Nat] /\ pulseFalling' \in [Edges!Slot -> Nat]
    <3>1. CASE pulsePc = 0
      <4>1. /\ pulseRising' = [s \in Edges!Slot |-> 0]
            /\ pulseFalling' = [s \in Edges!Slot |-> 0]
        BY <1>2, <3>1
      <4> QED
        BY <4>1
    <3>2. CASE pulsePc # 0
      <4>1. UNCHANGED <<pulseRising, pulseFalling>>
        BY <1>2, <3>2
      <4> QED
        BY <1>3, <4>1 DEF Edges!TypeOK
    <3> QED
      BY <3>1, <3>2
  <2>2. pulsePtr' \in Edges!Slot /\ pulseLast' \in Edges!Slot
    BY <1>2, <1>3, PulseAssumption DEF Edges!TypeOK, Edges!Slot
  <2>3. /\ pulseCount' \in 0..PulseSize /\ pulseSeq' \in Nat /\ pulseGap' \in Nat
        /\ pulseTime' \in Nat
    BY <1>1, <1>2, <1>3, PulseAssumption DEF Edges!TypeOK
  <2>4. pulsePending' \in BOOLEAN /\ pulseHasRising' \in BOOLEAN
    BY <1>2
  <2>5. pulsePc' \in -5..Len(Edges!Order) + 1
    BY <1>4, OrderLength
  <2> QED
    BY <1>1, <1>3, <2>1, <2>2, <2>3, <2>4, <2>5 DEF Edges!TypeOK, Edges!Slot
<1>6. Edges!Past'
  <2>1. pulseGap' <= pulseTime' + 1
    BY <1>1, <1>2, PastSlots
  <2>2. ASSUME NEW s \in Edges!Slot
        PROVE  pulseRising'[s] <= pulseTime' /\ pulseFalling'[s] <= pulseTime'
    BY <1>1, <1>2, PastSlots
  <2> QED
    BY <2>1, <2>2 DEF Edges!Past, Edges!Slot
<1>7. Edges!Counted'
  <2>1. CASE pulsePc \in {0, -1, -2}
    <3>1. pulsePc' \in -3..-1
      BY <1>1, <2>1
    <3> QED
      BY <3>1 DEF Edges!Counted
  <2>2. CASE pulsePc = -3
    BY <1>2, <2>2 DEF Edges!Counted
  <2>3. CASE pulsePc \in {-4, -5}
    <3>1. /\ UNCHANGED <<pulseFalling, pulsePtr, pulseLast, pulseCount, pulseGap>>
          /\ pulsePc \notin -3..-1
      BY <1>2, <2>3
    <3> QED
      BY <3>1 DEF Edges!Inv, Edges!Counted, Edges!Ago, Edges!Slot
  <2> QED
    BY <1>1, <2>1, <2>2, <2>3
<1>8. Edges!Risen'
  <2>1. CASE pulsePc \in {0, -1, -2, -3}
    <3>1. pulsePc' \in -4..-1
      BY <1>1, <2>1
    <3> QED
      BY <3>1 DEF Edges!Risen
  <2>2. CASE pulsePc = -4
    BY <1>2, <2>2 DEF Edges!Risen
  <2>3. CASE pulsePc = -5
    <3>1. /\ UNCHANGED <<pulseRising, pulseFalling, pulsePtr, pulseLast, pulseCount>>
          /\ pulsePc \notin -4..-1
      BY <1>2, <2>3
    <3>2. pulsePending' => pulsePending
      BY <1>2
    <3> QED
      BY <3>1, <3>2 DEF Edges!Inv, Edges!Risen
  <2> QED
    BY <1>1, <2>1, <2>2, <2>3
<1>9. Edges!Between'
  <2>1. CASE pulsePc # -5
    <3>1. pulsePc' \in -5..-1
      BY <1>1, <2>1
    <3> QED
      BY <3>1 DEF Edges!Between
  <2>2. CASE pulsePc = -5
    BY <1>2, <2>2 DEF Edges!Between
  <2> QED
    BY <2>1, <2>2
<1>10. Edges!Measuring'
  BY <1>4 DEF Edges!Measuring
<1>11. Edges!AsRead' /\ Edges!TakenIsPast' /\ Edges!Consistent'
  BY <1>4, OrderLength DEF Edges!AsRead, Edges!TakenIsPast, Edges!Consistent, Edges!Taken
<1> QED
  BY <1>5, <1>6, <1>7, <1>8, <1>9, <1>10, <1>11 DEF Edges!Inv

LEMMA EdgesStep == ASSUME Edges!Inv, [Edges!Next]_Edges!vars PROVE Edges!Inv'
<1>1. CASE UNCHANGED Edges!vars
  BY <1>1 DEF Edges!vars, Edges!interrupt, Edges!Inv, Edges!TypeOK, Edges!Past, Edges!Counted,
     Edges!Risen, Edges!Between, Edges!Measuring, Edges!AsRead, Edges!TakenIsPast,
     Edges!Consistent, Edges!Ago, Edges!Slot, Edges!Back, Edges!Order, Edges!Taken
<1> QED
  BY <1>1, RisingStep, FallingStep, StartStep, ReadStep, CheckStep, DoneStep, ResetStep
     DEF Edges!Next

THEOREM MeasurementsAreTrue == Edges!Spec => []Edges!Consistent
<1>1. Edges!Inv => Edges!Consistent
  BY DEF Edges!Inv
<1> QED
  BY <1>1, EdgesInit, EdgesStep, PTL DEF Edges!Spec

-----------------------------------------------------------------------------
(* Solenoids.                                                                *)

\* Sums.
LEMMA SumsExist ==
  ASSUME NEW left \in Int, NEW q, NEW n \in Nat, \A k \in 1..n : q[k].delay \in Int
  PROVE  \E f \in [0..n -> Int] :
           f = [k \in 0..n |-> IF k = 0 THEN left ELSE f[k - 1] + q[k].delay]
<1> DEFINE Sum(m) == {f \in [0..m -> Int] :
                        f = [k \in 0..m |-> IF k = 0 THEN left ELSE f[k - 1] + q[k].delay]}
           Have == {m \in Nat : Sum(m) # {}}
<1>1. 0 \in Have
  <2> DEFINE g == [k \in 0..0 |-> left]
  <2>1. g \in [0..0 -> Int] /\ g = [k \in 0..0 |-> IF k = 0 THEN left ELSE g[k - 1] + q[k].delay]
    OBVIOUS
  <2>2. g \in Sum(0)
    BY <2>1
  <2> QED
    BY <2>2
<1>2. ASSUME NEW m \in 1..n, m - 1 \in Have PROVE m \in Have
  <2>1. m \in Nat /\ m - 1 \in Nat /\ m # 0
    BY <1>2
  <2>2. PICK f \in [0..m - 1 -> Int] :
          f = [k \in 0..m - 1 |-> IF k = 0 THEN left ELSE f[k - 1] + q[k].delay]
    BY <1>2
  <2> DEFINE g == [k \in 0..m |-> IF k = m THEN f[m - 1] + q[m].delay ELSE f[k]]
  <2>3. g \in [0..m -> Int]
    BY <2>1
  <2>4. ASSUME NEW k \in 0..m PROVE g[k] = IF k = 0 THEN left ELSE g[k - 1] + q[k].delay
    BY <2>1, <2>2
  <2>5. g = [k \in 0..m |-> IF k = 0 THEN left ELSE g[k - 1] + q[k].delay]
    BY <2>3, <2>4
  <2>6. g \in Sum(m)
    BY <2>3, <2>5
  <2> QED
    BY <2>1, <2>6
<1>3. n \in Have
  <2>1. \A m \in 1..n : m - 1 \in Have => m \in Have
    BY <1>2
  <2> HIDE DEF Have
  <2> QED
    BY <1>1, <2>1, UpTo
<1> QED
  BY <1>3

LEMMA DeadlinesAre ==
  ASSUME NEW left \in Int, NEW q, Len(q) \in Nat, \A k \in 1..Len(q) : q[k].delay \in Int
  PROVE  LET D == Valves!Deadlines(left, q)
         IN /\ D[0] = left
            /\ \A k \in 1..Len(q) : D[k] = D[k - 1] + q[k].delay
            /\ \A k \in 0..Len(q) : D[k] \in Int
<1> DEFINE D == Valves!Deadlines(left, q)
<1>1. PICK f \in [0..Len(q) -> Int] :
        f = [k \in 0..Len(q) |-> IF k = 0 THEN left ELSE f[k - 1] + q[k].delay]
  BY SumsExist
<1>2. D = [k \in 0..Len(q) |-> IF k = 0 THEN left ELSE D[k - 1] + q[k].delay]
  BY <1>1 DEF Valves!Deadlines
<1> HIDE DEF D
<1>3. \A k \in 0..Len(q) : D[k] = IF k = 0 THEN left ELSE D[k - 1] + q[k].delay
  BY <1>2
<1> DEFINE Whole == {k \in 0..Len(q) : D[k] \in Int}
<1>4. 0 \in Whole
  BY <1>3
<1>5. ASSUME NEW k \in 1..Len(q), k - 1 \in Whole PROVE k \in Whole
  <2>1. k \in 0..Len(q) /\ k # 0 /\ D[k - 1] \in Int /\ q[k].delay \in Int
    BY <1>5
  <2> QED
    BY <1>3, <2>1
<1>6. 0..Len(q) \subseteq Whole
  <2> HIDE DEF Whole
  <2> QED
    BY <1>4, <1>5, UpTo
<1>7. D[0] = left /\ \A k \in 1..Len(q) : D[k] = D[k - 1] + q[k].delay
  BY <1>3
<1> QED
  BY <1>6, <1>7 DEF D

\* What a command in the queue is, and what waits.
Entries == [delay : Nat, dir : ValveDirs, due : Int]
Waits == [left : Int, dir : Valves!Directions, due : Int]

LEMMA EntriesAre ==
  ASSUME NEW q \in Seq(Entries)
  PROVE  Len(q) \in Nat /\ \A k \in 1..Len(q) : q[k] \in Entries /\ q[k].delay \in Int
<1>1. Len(q) \in Nat /\ \A k \in 1..Len(q) : q[k] \in Entries
  OBVIOUS
<1>2. \A e \in Entries : e.delay \in Int
  BY DEF Entries
<1> QED
  BY <1>1, <1>2

\* Deadlines that start together and whose commands wait for as long are the same.
LEMMA DeadlinesSame ==
  ASSUME NEW left \in Int, NEW q \in Seq(Entries), NEW p \in Seq(Entries),
         NEW n \in Nat, n <= Len(q), n <= Len(p), NEW by \in Int,
         \A k \in 1..n : q[k].delay = p[k].delay
  PROVE  \A k \in 0..n : Valves!Deadlines(left, q)[k] = Valves!Deadlines(left + by, p)[k] - by
<1> DEFINE D == Valves!Deadlines(left, q)
           E == Valves!Deadlines(left + by, p)
           Same == {k \in 0..n : D[k] = E[k] - by}
<1>1. /\ D[0] = left /\ \A k \in 1..Len(q) : D[k] = D[k - 1] + q[k].delay
      /\ \A k \in 0..Len(q) : D[k] \in Int
  BY EntriesAre, DeadlinesAre
<1>2. /\ E[0] = left + by /\ \A k \in 1..Len(p) : E[k] = E[k - 1] + p[k].delay
      /\ \A k \in 0..Len(p) : E[k] \in Int
  <2>1. left + by \in Int
    OBVIOUS
  <2>2. Len(p) \in Nat /\ \A k \in 1..Len(p) : p[k].delay \in Int
    BY EntriesAre
  <2> QED
    BY <2>1, <2>2, DeadlinesAre
<1> HIDE DEF D, E
<1>3. 0 \in Same
  BY <1>1, <1>2
<1>4. ASSUME NEW k \in 1..n, k - 1 \in Same PROVE k \in Same
  <2>1. /\ k \in 1..Len(q) /\ k \in 1..Len(p) /\ k \in 0..n /\ k - 1 \in 0..Len(q)
        /\ k - 1 \in 0..Len(p) /\ D[k - 1] = E[k - 1] - by
    BY <1>4, EntriesAre
  <2>2. D[k] = D[k - 1] + q[k].delay /\ E[k] = E[k - 1] + q[k].delay /\ q[k].delay \in Int
    BY <1>1, <1>2, <2>1, EntriesAre
  <2>3. D[k - 1] \in Int /\ E[k - 1] \in Int
    BY <1>1, <1>2, <2>1
  <2>4. D[k] = E[k] - by
    BY <2>1, <2>2, <2>3
  <2> QED
    BY <2>1, <2>4
<1>5. 0..n \subseteq Same
  <2>1. \A k \in 1..n : k - 1 \in Same => k \in Same
    BY <1>4
  <2> HIDE DEF Same
  <2> QED
    BY <1>3, <2>1, UpTo
<1> QED
  BY <1>5 DEF D, E

\* What is left of a queue once its first n - 1 commands are taken and the n-th is the one that
\* waits.
LEMMA DeadlinesBehind ==
  ASSUME NEW left \in Int, NEW q \in Seq(Entries), NEW n \in 1..Len(q)
  PROVE  LET p == SubSeq(q, n + 1, Len(q))
             D == Valves!Deadlines(left, q)
             E == Valves!Deadlines(D[n], p)
         IN /\ p \in Seq(Entries) /\ Len(p) = Len(q) - n
            /\ \A k \in 1..Len(p) : p[k] = q[n + k]
            /\ \A k \in 0..Len(p) : E[k] = D[n + k]
<1> DEFINE p == SubSeq(q, n + 1, Len(q))
           D == Valves!Deadlines(left, q)
           E == Valves!Deadlines(D[n], p)
           Same == {k \in 0..Len(p) : E[k] = D[n + k]}
<1>1. Len(q) \in Nat /\ n \in Nat /\ n <= Len(q)
  BY EntriesAre
<1>2. /\ p \in Seq(Entries) /\ Len(p) = Len(q) - n /\ Len(p) \in Nat
      /\ \A k \in 1..Len(p) : p[k] = q[n + k]
  BY <1>1
<1>3. /\ D[0] = left /\ \A k \in 1..Len(q) : D[k] = D[k - 1] + q[k].delay
      /\ \A k \in 0..Len(q) : D[k] \in Int
  BY EntriesAre, DeadlinesAre
<1> HIDE DEF p, D
<1>4. D[n] \in Int
  BY <1>1, <1>3
<1>5. E[0] = D[n] /\ \A k \in 1..Len(p) : E[k] = E[k - 1] + p[k].delay
  <2>1. Len(p) \in Nat /\ \A k \in 1..Len(p) : p[k].delay \in Int
    BY <1>2, EntriesAre
  <2> QED
    BY <1>4, <2>1, DeadlinesAre
<1> HIDE DEF E
<1>6. 0 \in Same
  BY <1>1, <1>2, <1>5
<1>7. ASSUME NEW k \in 1..Len(p), k - 1 \in Same PROVE k \in Same
  <2>1. /\ k \in 0..Len(p) /\ k - 1 \in 0..Len(p) /\ n + k \in 1..Len(q)
        /\ n + (k - 1) = (n + k) - 1 /\ E[k - 1] = D[n + (k - 1)]
    BY <1>1, <1>2, <1>7
  <2>2. E[k] = E[k - 1] + q[n + k].delay /\ D[n + k] = D[(n + k) - 1] + q[n + k].delay
    BY <1>2, <1>3, <1>5, <2>1
  <2> QED
    BY <2>1, <2>2
<1>8. 0..Len(p) \subseteq Same
  <2>1. \A k \in 1..Len(p) : k - 1 \in Same => k \in Same
    BY <1>7
  <2> HIDE DEF Same
  <2> QED
    BY <1>2, <1>6, <2>1, UpTo
<1> QED
  BY <1>2, <1>8 DEF p, D, E

-----------------------------------------------------------------------------
\* The earliest of some moments that none of which is before a bound.
LEMMA LeastMoment ==
  ASSUME NEW S \in SUBSET Int, S # {}, NEW b \in Int, \A x \in S : x >= b
  PROVE  Valves!Min(S) \in S /\ \A x \in S : Valves!Min(S) <= x
<1> DEFINE T == {x - b : x \in S}
<1>1. T \in SUBSET Nat /\ T # {}
  <2>1. ASSUME NEW x \in S PROVE x - b \in Nat
    <3>1. x \in Int /\ x >= b
      OBVIOUS
    <3> QED
      BY <3>1
  <2> QED
    BY <2>1
<1>2. PICK m \in T : \A j \in T : m <= j
  <2> HIDE DEF T
  <2> QED
    BY <1>1, LeastNumber
<1>3. PICK y \in S : m = y - b
  BY <1>2
<1>4. ASSUME NEW x \in S PROVE y <= x
  <2>1. x - b \in T
    OBVIOUS
  <2>2. m <= x - b
    BY <1>2, <2>1
  <2> QED
    BY <1>3, <2>2
<1>5. \E z \in S : \A x \in S : z <= x
  BY <1>4
<1> QED
  BY <1>5 DEF Valves!Min

\* The commands that are due come before the first that is not.
LEMMA ReadyExists ==
  ASSUME NEW D, NEW m \in Nat, \A k \in 0..m : D[k] \in Int
  PROVE  \E n \in 0..m + 1 : (\A k \in 0..n - 1 : D[k] <= 0) /\ (n <= m => D[n] > 0)
<1> DEFINE T == {n \in Nat : n = m + 1 \/ (n <= m /\ D[n] > 0)}
<1>1. T \in SUBSET Nat /\ m + 1 \in T
  OBVIOUS
<1>2. PICK n \in T : \A j \in T : n <= j
  <2> HIDE DEF T
  <2> QED
    BY <1>1, LeastNumber
<1>3. n \in 0..m + 1 /\ (n <= m => D[n] > 0)
  BY <1>1, <1>2
<1>4. ASSUME NEW k \in 0..n - 1 PROVE D[k] <= 0
  <2>1. k \in Nat /\ k <= m /\ ~(n <= k) /\ D[k] \in Int
    BY <1>3
  <2>2. k \notin T
    BY <1>2, <2>1
  <2> QED
    BY <2>1, <2>2
<1> QED
  BY <1>3, <1>4

\* The first of the commands is the delayed one.
LEMMA CommandsAre ==
  ASSUME NEW w \in Waits, NEW q \in Seq(Entries), NEW k \in 0..Len(q)
  PROVE  (<<w>> \o q)[k + 1] = IF k = 0 THEN w ELSE q[k]
OBVIOUS

-----------------------------------------------------------------------------
\* What a channel drives.
Drives == [state : BOOLEAN, dir : Valves!Directions, end : Int]

LEMMA SwitchedOnIs ==
  ASSUME NEW s \in Drives, NEW d \in Valves!Directions
  PROVE  /\ Valves!SwitchedOn(s, d) \in Drives
         /\ Valves!SwitchedOn(s, d).end \in {s.end, ValveOnTime, ValveNever}
BY ValveAssumption DEF Drives, Valves!SwitchedOn

\* The commands that run leave the pulse as it was, or start one.
LEMMA DrivenIs ==
  ASSUME NEW s \in Drives, NEW cs, NEW n \in Nat, \A k \in 1..n : cs[k].dir \in Valves!Directions
  PROVE  /\ Valves!Driven(s, cs, n) \in Drives
         /\ Valves!Driven(s, cs, n).end \in {s.end, ValveOnTime, ValveNever}
<1> DEFINE Can == {r \in Drives : r.end \in {s.end, ValveOnTime, ValveNever}}
           Run(f, k) == IF k = 0 THEN s ELSE Valves!SwitchedOn(f[k - 1], cs[k].dir)
           Runs(m) == {f \in [0..m -> Can] : f = [k \in 0..m |-> Run(f, k)]}
           Have == {m \in Nat : Runs(m) # {}}
<1>1. ASSUME NEW r \in Can, NEW d \in Valves!Directions PROVE Valves!SwitchedOn(r, d) \in Can
  BY SwitchedOnIs
<1>2. s \in Can
  OBVIOUS
<1>3. 0 \in Have
  <2> DEFINE g == [k \in 0..0 |-> s]
  <2>1. g \in [0..0 -> Can] /\ g = [k \in 0..0 |-> Run(g, k)]
    BY <1>2
  <2>2. g \in Runs(0)
    BY <2>1
  <2> QED
    BY <2>2
<1>4. ASSUME NEW m \in 1..n, m - 1 \in Have PROVE m \in Have
  <2>1. m \in Nat /\ m - 1 \in Nat /\ m # 0 /\ cs[m].dir \in Valves!Directions
    BY <1>4
  <2>2. PICK f \in [0..m - 1 -> Can] : f = [k \in 0..m - 1 |-> Run(f, k)]
    BY <1>4
  <2> DEFINE g == [k \in 0..m |-> IF k = m THEN Valves!SwitchedOn(f[m - 1], cs[m].dir) ELSE f[k]]
  <2>3. Valves!SwitchedOn(f[m - 1], cs[m].dir) \in Can
    <3>1. f[m - 1] \in Can
      BY <2>1, <2>2
    <3> HIDE DEF Can
    <3> QED
      BY <1>1, <2>1, <3>1
  <2> HIDE DEF Can
  <2>4. g \in [0..m -> Can]
    BY <2>1, <2>2, <2>3
  <2>5. ASSUME NEW k \in 0..m PROVE g[k] = Run(g, k)
    BY <2>1, <2>2
  <2>6. g = [k \in 0..m |-> Run(g, k)]
    BY <2>4, <2>5
  <2>7. g \in Runs(m)
    BY <2>4, <2>6
  <2> QED
    BY <2>1, <2>7
<1>5. n \in Have
  <2>1. \A m \in 1..n : m - 1 \in Have => m \in Have
    BY <1>4
  <2> HIDE DEF Have
  <2> QED
    BY <1>3, <2>1, UpTo
<1>6. PICK f \in [0..n -> Can] : f = [k \in 0..n |-> Run(f, k)]
  BY <1>5
<1> DEFINE F == CHOOSE at :
                  at = [k \in 0..n |-> IF k = 0 THEN s
                                       ELSE Valves!SwitchedOn(at[k - 1], cs[k].dir)]
<1>7. F = [k \in 0..n |-> Run(F, k)]
  BY <1>6
<1> HIDE DEF F
<1> DEFINE Good == {k \in 0..n : F[k] \in Can}
<1>8. \A k \in 0..n : F[k] = Run(F, k)
  BY <1>7
<1>9. 0 \in Good
  BY <1>2, <1>8
<1>10. ASSUME NEW k \in 1..n, k - 1 \in Good PROVE k \in Good
  <2>1. k \in 0..n /\ k # 0 /\ F[k - 1] \in Can /\ cs[k].dir \in Valves!Directions
    BY <1>10
  <2> HIDE DEF Can
  <2>2. F[k] \in Can
    BY <1>1, <1>8, <2>1
  <2> QED
    BY <2>1, <2>2
<1>11. 0..n \subseteq Good
  <2>1. \A k \in 1..n : k - 1 \in Good => k \in Good
    BY <1>10
  <2> HIDE DEF Good
  <2> QED
    BY <1>9, <2>1, UpTo
<1>12. F[n] \in Can
  BY <1>11
<1>13. Valves!Driven(s, cs, n) = F[n]
  BY DEF Valves!Driven, F
<1> QED
  BY <1>12, <1>13

-----------------------------------------------------------------------------
\* What the invariant says of one channel: of the command that waits and of those behind it.
Due(w, q, k) == IF k = 0 THEN w.due ELSE q[k].due
Kept(w, q, size) ==
  /\ w \in Waits /\ q \in Seq(Entries) /\ Len(q) <= size
  /\ w = Valves!NoCommand \/ (w.left < ValveNever /\ w.due < ValveNever)
  /\ \A k \in 1..Len(q) : q[k].due < ValveNever
  /\ q # <<>> => w # Valves!NoCommand
  /\ w # Valves!NoCommand =>
       \A k \in 0..Len(q) :
         /\ Valves!Deadlines(w.left, q)[k] >= Due(w, q, k) - ValveLate
         /\ \/ Valves!Deadlines(w.left, q)[k] <= Due(w, q, k)
            \/ k > 0 /\ q[k].delay = 0

LEMMA NoCommandWaits == Valves!NoCommand \in Waits /\ ValveNever > 0
BY ValveAssumption DEF Valves!NoCommand, Valves!NoDir, Waits, Valves!Directions

LEMMA NothingKept == ASSUME NEW size \in Nat PROVE Kept(Valves!NoCommand, <<>>, size)
BY NoCommandWaits DEF Kept

\* A queue that is kept has its deadlines.
LEMMA KeptDeadlines ==
  ASSUME NEW w, NEW q, NEW size, Kept(w, q, size)
  PROVE  /\ Len(q) \in Nat
         /\ \A k \in 0..Len(q) : Valves!Deadlines(w.left, q)[k] \in Int /\ Due(w, q, k) \in Int
         /\ Valves!Deadlines(w.left, q)[0] = w.left
         /\ \A k \in 1..Len(q) :
              Valves!Deadlines(w.left, q)[k] = Valves!Deadlines(w.left, q)[k - 1] + q[k].delay
<1>1. w \in Waits /\ q \in Seq(Entries) /\ w.left \in Int /\ w.due \in Int
  BY DEF Kept, Waits
<1>2. Len(q) \in Nat /\ \A k \in 1..Len(q) : q[k] \in Entries /\ q[k].delay \in Int
  BY <1>1, EntriesAre
<1>3. \A k \in 0..Len(q) : Due(w, q, k) \in Int
  BY <1>1, <1>2 DEF Due, Entries
<1>4. \A k \in 1..Len(q) : q[k].delay \in Int
  BY <1>2
<1>5. w.left \in Int /\ Len(q) \in Nat
  BY <1>1, <1>2
<1>6. LET D == Valves!Deadlines(w.left, q)
      IN /\ D[0] = w.left
         /\ \A k \in 1..Len(q) : D[k] = D[k - 1] + q[k].delay
         /\ \A k \in 0..Len(q) : D[k] \in Int
  BY <1>4, <1>5, DeadlinesAre
<1> QED
  BY <1>3, <1>5, <1>6

\* A first delayed command.
LEMMA KeptFirst ==
  ASSUME NEW delay \in ValveDelays, NEW d \in ValveDirs, NEW size \in Nat
  PROVE  Kept([left |-> delay, dir |-> d, due |-> delay], <<>>, size)
<1> DEFINE w == [left |-> delay, dir |-> d, due |-> delay]
<1>1. delay \in Nat /\ delay < ValveNever /\ ValveLate \in Nat /\ ValveNever \in Nat
  BY ValveAssumption
<1>2. w \in Waits /\ w.left = delay /\ w.due = delay
  BY <1>1 DEF Waits, Valves!Directions
<1> HIDE DEF w
<1>3. Len(<<>>) = 0 /\ <<>> \in Seq(Entries)
  OBVIOUS
<1>4. Valves!Deadlines(w.left, <<>>)[0] = delay
  <2>1. Len(<<>>) \in Nat /\ \A k \in 1..Len(<<>>) : <<>>[k].delay \in Int
    OBVIOUS
  <2>2. w.left \in Int
    BY <1>1, <1>2
  <2> QED
    BY <1>2, <2>1, <2>2, DeadlinesAre
<1>5. Kept(w, <<>>, size)
  BY <1>1, <1>2, <1>3, <1>4 DEF Kept, Due
<1> QED
  BY <1>5 DEF w

\* A command that is put behind the others.
LEMMA KeptAppend ==
  ASSUME NEW w, NEW q, NEW size \in Nat, Kept(w, q, size), w # Valves!NoCommand, Len(q) < size,
         NEW delay \in ValveDelays, NEW d \in ValveDirs, w.left >= - ValveLate
  PROVE  LET time == Valves!Remain(w.left) + Valves!Deadlines(w.left, q)[Len(q)] - w.left
             behind == IF delay > time THEN delay - time ELSE 0
         IN Kept(w, Append(q, [delay |-> behind, dir |-> d, due |-> delay]), size)
<1> DEFINE D == Valves!Deadlines(w.left, q)
           time == Valves!Remain(w.left) + D[Len(q)] - w.left
           behind == IF delay > time THEN delay - time ELSE 0
           e == [delay |-> behind, dir |-> d, due |-> delay]
           p == Append(q, e)
           E == Valves!Deadlines(w.left, p)
<1>1. delay \in Nat /\ delay < ValveNever /\ ValveLate \in Nat /\ ValveNever \in Nat
  BY ValveAssumption
<1>2. w \in Waits /\ w.left \in Int /\ w.due \in Int /\ q \in Seq(Entries)
  BY DEF Kept, Waits
<1>3. /\ Len(q) \in Nat /\ \A k \in 0..Len(q) : D[k] \in Int /\ Due(w, q, k) \in Int
      /\ D[0] = w.left /\ \A k \in 1..Len(q) : D[k] = D[k - 1] + q[k].delay
  BY KeptDeadlines
<1> HIDE DEF D
<1>4. D[Len(q)] \in Int
  BY <1>3
<1>5. time \in Int /\ behind \in Nat
  BY <1>1, <1>2, <1>4 DEF Valves!Remain
<1>6. /\ D[Len(q)] + behind >= delay - ValveLate
      /\ D[Len(q)] + behind <= delay \/ behind = 0
  BY <1>1, <1>2, <1>4 DEF Valves!Remain
<1> HIDE DEF behind, time
<1>7. e \in Entries /\ e.delay = behind /\ e.due = delay
  BY <1>1, <1>5 DEF Entries
<1> HIDE DEF e
<1>8. /\ p \in Seq(Entries) /\ Len(p) = Len(q) + 1 /\ p[Len(q) + 1] = e
      /\ \A k \in 1..Len(q) : p[k] = q[k]
  BY <1>2, <1>7
<1> HIDE DEF p
<1>9. E[0] = w.left /\ \A k \in 1..Len(p) : E[k] = E[k - 1] + p[k].delay
  <2>1. Len(p) \in Nat /\ \A k \in 1..Len(p) : p[k].delay \in Int
    BY <1>8, EntriesAre
  <2> QED
    BY <1>2, <2>1, DeadlinesAre
<1>10. \A k \in 0..Len(q) : E[k] = D[k]
  <2>1. w.left + 0 = w.left /\ Len(q) <= Len(p)
    BY <1>2, <1>3, <1>8
  <2>2. \A k \in 1..Len(q) : q[k].delay = p[k].delay
    BY <1>8
  <2>3. \A k \in 0..Len(q) : D[k] = Valves!Deadlines(w.left + 0, p)[k] - 0
    <3>1. /\ w.left \in Int /\ 0 \in Int /\ Len(q) \in Nat /\ Len(q) <= Len(q)
          /\ q \in Seq(Entries) /\ p \in Seq(Entries)
      BY <1>2, <1>3, <1>8
    <3>2. \A k \in 0..Len(q) :
            Valves!Deadlines(w.left, q)[k] = Valves!Deadlines(w.left + 0, p)[k] - 0
      BY <2>1, <2>2, <3>1, DeadlinesSame
    <3> QED
      BY <3>2 DEF D
  <2>4. \A k \in 0..Len(p) : E[k] \in Int
    <3>1. Len(p) \in Nat /\ \A k \in 1..Len(p) : p[k].delay \in Int
      BY <1>8, EntriesAre
    <3> QED
      BY <1>2, <3>1, DeadlinesAre
  <2> HIDE DEF E
  <2>5. \A k \in 0..Len(q) : D[k] = E[k] - 0
    BY <2>1, <2>3 DEF E
  <2>6. \A k \in 0..Len(q) : E[k] \in Int
    BY <1>3, <1>8, <2>4
  <2> QED
    BY <2>5, <2>6
<1> HIDE DEF E
<1>11. E[Len(q) + 1] = D[Len(q)] + behind
  <2>1. Len(q) + 1 \in 1..Len(p) /\ (Len(q) + 1) - 1 = Len(q) /\ Len(q) \in 0..Len(q)
    BY <1>3, <1>8
  <2> QED
    BY <1>7, <1>8, <1>9, <1>10, <2>1
<1>12. /\ \A k \in 0..Len(q) : Due(w, p, k) = Due(w, q, k)
       /\ Due(w, p, Len(q) + 1) = delay
  BY <1>3, <1>7, <1>8 DEF Due
<1>13. ASSUME NEW k \in 0..Len(p)
       PROVE  E[k] >= Due(w, p, k) - ValveLate /\ (E[k] <= Due(w, p, k) \/ (k > 0
                /\ p[k].delay = 0))
  <2>1. CASE k = Len(q) + 1
    BY <1>3, <1>6, <1>7, <1>8, <1>11, <1>12, <2>1
  <2>2. CASE k \in 0..Len(q)
    <3>1. /\ D[k] >= Due(w, q, k) - ValveLate
          /\ D[k] <= Due(w, q, k) \/ (k > 0 /\ q[k].delay = 0)
      BY <2>2 DEF Kept, D
    <3>2. k > 0 => p[k] = q[k]
      BY <1>3, <1>8, <2>2
    <3> QED
      BY <1>10, <1>12, <2>2, <3>1, <3>2
  <2> QED
    BY <1>3, <1>8, <2>1, <2>2
<1>14. \A k \in 1..Len(p) : p[k].due < ValveNever
  <2>1. \A k \in 1..Len(q) : q[k].due < ValveNever
    BY DEF Kept
  <2> QED
    BY <1>1, <1>3, <1>7, <1>8, <2>1
<1>15. w.left < ValveNever /\ w.due < ValveNever
  BY DEF Kept
<1>16. Len(p) <= size
  BY <1>3, <1>8
<1>17. Kept(w, p, size)
  BY <1>2, <1>8, <1>13, <1>14, <1>15, <1>16 DEF Kept, E
<1> QED
  BY <1>17 DEF p, e, behind, time, D

\* A tick brings every deadline one nearer.
Nearer(t) == IF t = ValveNever THEN ValveNever ELSE t - 1

LEMMA KeptTick ==
  ASSUME NEW w, NEW q, NEW size, Kept(w, q, size)
  PROVE  Kept([w EXCEPT !.left = Nearer(@), !.due = Nearer(@)],
              [k \in DOMAIN q |-> [q[k] EXCEPT !.due = @ - 1]], size)
<1> DEFINE v == [w EXCEPT !.left = Nearer(@), !.due = Nearer(@)]
           p == [k \in DOMAIN q |-> [q[k] EXCEPT !.due = @ - 1]]
           D == Valves!Deadlines(w.left, q)
           E == Valves!Deadlines(v.left, p)
<1>1. ValveLate \in Nat /\ ValveNever \in Nat
  BY ValveAssumption
<1>2. w \in Waits /\ w.left \in Int /\ w.due \in Int /\ q \in Seq(Entries) /\ Len(q) <= size
  BY DEF Kept, Waits
<1>3. Len(q) \in Nat /\ DOMAIN q = 1..Len(q) /\ \A k \in 1..Len(q) : q[k] \in Entries
  BY <1>2
<1>4. /\ v \in Waits
      /\ v.left = Nearer(w.left) /\ v.due = Nearer(w.due)
  <2>1. Nearer(w.left) \in Int /\ Nearer(w.due) \in Int
    BY <1>1, <1>2 DEF Nearer
  <2> QED
    BY <1>2, <2>1 DEF Waits
<1>5. ASSUME NEW k \in 1..Len(q)
      PROVE  /\ p[k] \in Entries /\ p[k].delay = q[k].delay /\ p[k].due = q[k].due - 1
             /\ q[k].due \in Int
  <2>1. q[k] \in Entries /\ k \in DOMAIN q
    BY <1>3
  <2>2. p[k] = [q[k] EXCEPT !.due = @ - 1]
    BY <2>1
  <2> QED
    BY <2>1, <2>2 DEF Entries
<1>6. p \in Seq(Entries) /\ Len(p) = Len(q)
  <2> HIDE DEF p
  <2>1. DOMAIN p = 1..Len(q) /\ p = [k \in 1..Len(q) |-> p[k]]
    BY <1>3 DEF p
  <2> QED
    BY <1>3, <1>5, <2>1
<1> HIDE DEF p
<1>7. CASE w = Valves!NoCommand
  <2>1. w.left = ValveNever /\ w.due = ValveNever /\ q = <<>>
    BY <1>7 DEF Kept, Valves!NoCommand
  <2>2. v = Valves!NoCommand
    BY <1>7, <2>1 DEF Valves!NoCommand, Nearer
  <2>3. p = <<>>
    BY <1>6, <2>1
  <2> HIDE DEF v
  <2>4. Kept(v, p, size)
    BY <1>2, <1>4, <1>6, <2>1, <2>2, <2>3 DEF Kept
  <2> QED
    BY <2>4 DEF v, p
<1>8. CASE w # Valves!NoCommand
  <2>1. w.left < ValveNever /\ w.due < ValveNever
    BY <1>8 DEF Kept
  <2>2. v.left = w.left + (-1) /\ v.due = w.due - 1
    BY <1>1, <1>2, <1>4, <2>1 DEF Nearer
  <2> HIDE DEF v
  <2>3. /\ \A k \in 0..Len(q) : D[k] \in Int /\ Due(w, q, k) \in Int
    BY KeptDeadlines
  <2>4. ASSUME NEW k \in 0..Len(q) PROVE E[k] = D[k] - 1
    <3>1. /\ w.left \in Int /\ -1 \in Int /\ Len(q) \in Nat /\ Len(q) <= Len(q)
          /\ Len(q) <= Len(p) /\ q \in Seq(Entries) /\ p \in Seq(Entries)
      BY <1>2, <1>3, <1>6
    <3>2. \A j \in 1..Len(q) : q[j].delay = p[j].delay
      BY <1>5
    <3>3. D[k] = Valves!Deadlines(w.left + (-1), p)[k] - (-1)
      BY <3>1, <3>2, DeadlinesSame
    <3>4. D[k] = E[k] - (-1)
      BY <2>2, <3>3
    <3>5. E[k] \in Int
      <4>1. Len(p) \in Nat /\ (\A j \in 1..Len(p) : p[j].delay \in Int) /\ v.left \in Int
        BY <1>2, <1>6, <2>2, EntriesAre
      <4>2. \A j \in 0..Len(p) : E[j] \in Int
        BY <4>1, DeadlinesAre
      <4> QED
        BY <1>6, <4>2
    <3> HIDE DEF D, E
    <3> QED
      BY <2>3, <3>4, <3>5
  <2>5. ASSUME NEW k \in 0..Len(q) PROVE Due(v, p, k) = Due(w, q, k) - 1
    BY <1>3, <1>5, <2>2 DEF Due
  <2> HIDE DEF E
  <2>6. ASSUME NEW k \in 0..Len(p)
        PROVE  E[k] >= Due(v, p, k) - ValveLate /\ (E[k] <= Due(v, p, k) \/ (k > 0
                 /\ p[k].delay = 0))
    <3>1. k \in 0..Len(q) /\ (k > 0 => k \in 1..Len(q))
      BY <1>3, <1>6
    <3>2. /\ D[k] >= Due(w, q, k) - ValveLate
          /\ D[k] <= Due(w, q, k) \/ (k > 0 /\ q[k].delay = 0)
      BY <1>8, <3>1 DEF Kept
    <3>3. k > 0 => q[k].delay = p[k].delay
      BY <1>5, <3>1
    <3>4. /\ D[k] \in Int /\ Due(w, q, k) \in Int
          /\ E[k] = D[k] - 1 /\ Due(v, p, k) = Due(w, q, k) - 1
      BY <2>3, <2>4, <2>5, <3>1
    <3> HIDE DEF D
    <3> QED
      BY <1>1, <3>2, <3>3, <3>4
  <2>7. \A k \in 1..Len(p) : p[k].due < ValveNever
    <3>1. \A k \in 1..Len(q) : q[k].due < ValveNever
      BY DEF Kept
    <3> QED
      BY <1>1, <1>5, <1>6, <3>1
  <2>8. v.left < ValveNever /\ v.due < ValveNever
    BY <1>1, <1>2, <2>1, <2>2
  <2>9. v # Valves!NoCommand
    BY <1>1, <2>8 DEF Valves!NoCommand
  <2>10. Kept(v, p, size)
    BY <1>2, <1>4, <1>6, <2>6, <2>7, <2>8, <2>9 DEF Kept, E
  <2> QED
    BY <2>10 DEF v, p
<1> QED
  BY <1>7, <1>8

\* No deadline is as late as Never.
LEMMA KeptBefore ==
  ASSUME NEW w, NEW q, NEW size, Kept(w, q, size), w # Valves!NoCommand, NEW n \in 0..Len(q)
  PROVE  Valves!Deadlines(w.left, q)[n] < ValveNever
<1> DEFINE D == Valves!Deadlines(w.left, q)
           Before == {k \in 0..Len(q) : D[k] < ValveNever}
<1>1. /\ Len(q) \in Nat /\ \A k \in 0..Len(q) : D[k] \in Int /\ Due(w, q, k) \in Int
      /\ D[0] = w.left /\ \A k \in 1..Len(q) : D[k] = D[k - 1] + q[k].delay
  BY KeptDeadlines
<1>2. w.left < ValveNever /\ (\A k \in 1..Len(q) : q[k].due < ValveNever) /\ ValveNever \in Nat
  BY ValveAssumption DEF Kept
<1>3. \A k \in 1..Len(q) : D[k] <= q[k].due \/ q[k].delay = 0
  BY DEF Kept, Due
<1>4. 0 \in Before
  BY <1>1, <1>2
<1>5. ASSUME NEW k \in 1..Len(q), k - 1 \in Before PROVE k \in Before
  <2> HIDE DEF D
  <2>1. k \in 0..Len(q) /\ D[k - 1] < ValveNever /\ D[k] \in Int /\ k - 1 \in 0..Len(q) /\ k # 0
    BY <1>1, <1>5
  <2>2. D[k] = D[k - 1] + q[k].delay /\ D[k - 1] \in Int /\ q[k].due < ValveNever
    BY <1>1, <1>2, <2>1
  <2>3. q[k].due \in Int
    <3>1. Due(w, q, k) \in Int
      BY <1>1, <2>1
    <3> QED
      BY <2>1, <3>1 DEF Due
  <2>4. D[k] <= q[k].due \/ D[k] = D[k - 1]
    BY <1>3, <2>2
  <2>5. D[k] < ValveNever
    BY <1>2, <2>1, <2>2, <2>3, <2>4
  <2> QED
    BY <2>1, <2>5
<1>6. 0..Len(q) \subseteq Before
  <2>1. \A k \in 1..Len(q) : k - 1 \in Before => k \in Before
    BY <1>5
  <2> HIDE DEF Before
  <2> QED
    BY <1>1, <1>4, <2>1, UpTo
<1> QED
  BY <1>6

\* What is left once the first n commands have run: the next of them waits, none is due.
LEMMA KeptRest ==
  ASSUME NEW w, NEW q, NEW size \in Nat, Kept(w, q, size), NEW n \in 1..Len(q),
         w # Valves!NoCommand,
         Valves!Deadlines(w.left, q)[n - 1] <= 0, Valves!Deadlines(w.left, q)[n] > 0
  PROVE  LET v == [left |-> Valves!Deadlines(w.left, q)[n], dir |-> q[n].dir, due |-> q[n].due]
         IN v.left > 0 /\ v # Valves!NoCommand /\ Kept(v, SubSeq(q, n + 1, Len(q)), size)
<1> DEFINE D == Valves!Deadlines(w.left, q)
           v == [left |-> D[n], dir |-> q[n].dir, due |-> q[n].due]
           p == SubSeq(q, n + 1, Len(q))
           E == Valves!Deadlines(v.left, p)
<1>1. ValveLate \in Nat /\ ValveNever \in Nat
  BY ValveAssumption
<1>2. w \in Waits /\ w.left \in Int /\ q \in Seq(Entries) /\ Len(q) <= size
  BY DEF Kept, Waits
<1>3. /\ Len(q) \in Nat /\ \A k \in 0..Len(q) : D[k] \in Int /\ Due(w, q, k) \in Int
      /\ D[0] = w.left /\ \A k \in 1..Len(q) : D[k] = D[k - 1] + q[k].delay
  BY KeptDeadlines
<1>4. D[n] > 0 /\ D[n] < ValveNever /\ n \in 0..Len(q) /\ n \in Nat /\ n - 1 \in 0..Len(q)
  BY KeptBefore, <1>3
<1>5. q[n] \in Entries /\ q[n].due \in Int /\ q[n].dir \in ValveDirs /\ q[n].due < ValveNever
      /\ q[n].delay \in Nat
  <2>1. q[n] \in Entries
    BY <1>2, EntriesAre
  <2>2. q[n].due < ValveNever
    BY DEF Kept
  <2> QED
    BY <2>1, <2>2 DEF Entries
<1>6. v \in Waits /\ v.left = D[n] /\ v.due = q[n].due
  BY <1>3, <1>4, <1>5 DEF Waits, Valves!Directions
<1>7. /\ p \in Seq(Entries) /\ Len(p) = Len(q) - n
      /\ \A k \in 1..Len(p) : p[k] = q[n + k]
      /\ \A k \in 0..Len(p) : E[k] = D[n + k]
  <2>1. w.left \in Int /\ q \in Seq(Entries)
    BY <1>2
  <2> QED
    BY <2>1, <1>6, DeadlinesBehind
<1>8. D[n] <= q[n].due
  <2>1. D[n] <= q[n].due \/ q[n].delay = 0
    BY <1>3, <1>4 DEF Kept, Due
  <2>2. D[n] = D[n - 1] + q[n].delay /\ D[n - 1] <= 0 /\ D[n - 1] \in Int /\ D[n] \in Int
    BY <1>3, <1>4
  <2> HIDE DEF D
  <2> QED
    BY <1>4, <1>5, <2>1, <2>2
<1> HIDE DEF v, p, E
<1>9. ASSUME NEW k \in 0..Len(p)
      PROVE  E[k] >= Due(v, p, k) - ValveLate /\ (E[k] <= Due(v, p, k) \/ (k > 0 /\ p[k].delay = 0))
  <2>1. n + k \in 0..Len(q) /\ n + k # 0 /\ n + k > 0 /\ k \in Nat
    BY <1>3, <1>4, <1>7
  <2>2. Due(w, q, n + k) = q[n + k].due
    BY <2>1 DEF Due
  <2>3. /\ D[n + k] >= q[n + k].due - ValveLate
        /\ D[n + k] <= q[n + k].due \/ q[n + k].delay = 0
    BY <2>1, <2>2 DEF Kept
  <2>4. CASE k = 0
    <3>1. Due(v, p, k) = q[n].due /\ n + k = n /\ E[k] = D[n]
      BY <1>4, <1>6, <1>7, <2>4 DEF Due
    <3> QED
      BY <1>8, <2>3, <3>1
  <2>5. CASE k # 0
    <3>1. k \in 1..Len(p)
      BY <2>5
    <3>2. Due(v, p, k) = q[n + k].due /\ E[k] = D[n + k] /\ p[k].delay = q[n + k].delay /\ k > 0
      BY <1>7, <2>5, <3>1 DEF Due
    <3> QED
      BY <2>3, <3>2
  <2> QED
    BY <2>4, <2>5
<1>10. \A k \in 1..Len(p) : p[k].due < ValveNever
  <2>1. \A k \in 1..Len(q) : q[k].due < ValveNever
    BY DEF Kept
  <2>2. ASSUME NEW k \in 1..Len(p) PROVE p[k].due < ValveNever
    <3>1. Len(q) \in Nat /\ n \in Nat /\ Len(p) = Len(q) - n
      BY <1>3, <1>4, <1>7
    <3>2. n + k \in 1..Len(q)
      BY <3>1
    <3>3. p[k] = q[n + k]
      BY <1>7
    <3> QED
      BY <2>1, <3>2, <3>3
  <2> QED
    BY <2>2
<1>11. v.left < ValveNever /\ v.due < ValveNever /\ v.left > 0
  BY <1>4, <1>5, <1>6
<1>12. v # Valves!NoCommand
  BY <1>1, <1>11 DEF Valves!NoCommand
<1>13. Len(p) <= size
  <2>1. Len(p) <= Len(q)
    BY <1>3, <1>4, <1>7
  <2>2. CASE Len(p) = Len(q)
    BY <1>3, <1>4, <1>7, <2>2
  <2> QED
    BY <1>2, <1>3, <1>7, <2>1, <2>2
<1>14. Kept(v, p, size)
  BY <1>6, <1>7, <1>9, <1>10, <1>11, <1>12, <1>13 DEF Kept, E
<1> QED
  BY <1>11, <1>12, <1>14 DEF v, p, D

-----------------------------------------------------------------------------
\* The invariant, channel by channel.
Typed ==
  /\ valveState \in [Valves!Channel -> BOOLEAN]
       /\ valveDir \in [Valves!Channel -> Valves!Directions]
  /\ valveEnd \in [Valves!Channel -> Int] /\ valveTrigger \in Int
  /\ valveWait \in [Valves!Channel -> Waits] /\ valveQueue \in [Valves!Channel -> Seq(Entries)]
AllKept ==
  \A c \in Valves!Channel :
    valveEnd[c] <= ValveNever /\ Kept(valveWait[c], valveQueue[c], ValveSize[c])

LEMMA DueIs ==
  ASSUME Typed, NEW c \in Valves!Channel, NEW k \in 0..Len(valveQueue[c])
  PROVE  Valves!Commands(c)[k + 1].due = Due(valveWait[c], valveQueue[c], k)
<1>1. valveWait[c] \in Waits /\ valveQueue[c] \in Seq(Entries)
  BY DEF Typed
<1>2. Valves!Commands(c)[k + 1] = IF k = 0 THEN valveWait[c] ELSE valveQueue[c][k]
  BY <1>1, CommandsAre DEF Valves!Commands
<1> QED
  BY <1>2 DEF Due

LEMMA InvIs == ASSUME Valves!Inv PROVE Typed /\ Valves!Served /\ AllKept
<1>1. Typed
  BY DEF Valves!Inv, Valves!TypeOK, Typed, Waits, Entries
<1>2. ASSUME NEW c \in Valves!Channel
      PROVE  valveEnd[c] <= ValveNever /\ Kept(valveWait[c], valveQueue[c], ValveSize[c])
  <2>1. valveWait[c] \in Waits /\ valveQueue[c] \in Seq(Entries)
          /\ Len(valveQueue[c]) <= ValveSize[c]
    BY <1>1 DEF Typed, Valves!Inv, Valves!TypeOK
  <2>2. /\ valveEnd[c] <= ValveNever
        /\ valveWait[c] = Valves!NoCommand
             \/ (valveWait[c].left < ValveNever /\ valveWait[c].due < ValveNever)
        /\ \A k \in 1..Len(valveQueue[c]) : valveQueue[c][k].due < ValveNever
    BY DEF Valves!Inv, Valves!Timed
  <2>3. valveQueue[c] # <<>> => valveWait[c] # Valves!NoCommand
    BY DEF Valves!Inv, Valves!QueueBehindDelay
  <2>4. ASSUME valveWait[c] # Valves!NoCommand, NEW k \in 0..Len(valveQueue[c])
        PROVE  LET D == Valves!Deadlines(valveWait[c].left, valveQueue[c])
                   due == Due(valveWait[c], valveQueue[c], k)
               IN /\ D[k] >= due - ValveLate
                  /\ D[k] <= due \/ (k > 0 /\ valveQueue[c][k].delay = 0)
    BY <1>1, <2>4, DueIs DEF Valves!Inv, Valves!Asked, Valves!Deadline
  <2> QED
    BY <2>1, <2>2, <2>3, <2>4 DEF Kept
<1> QED
  BY <1>1, <1>2 DEF AllKept, Valves!Inv

LEMMA InvFrom == ASSUME Typed', Valves!Served', AllKept' PROVE Valves!Inv'
<1>1. ASSUME NEW c \in Valves!Channel
      PROVE  valveEnd'[c] <= ValveNever /\ Kept(valveWait'[c], valveQueue'[c], ValveSize[c])
  BY DEF AllKept
<1>2. Valves!TypeOK'
  <2>1. ASSUME NEW c \in Valves!Channel PROVE Len(valveQueue'[c]) <= ValveSize[c]
    BY <1>1 DEF Kept
  <2> QED
    BY <2>1 DEF Typed, Valves!TypeOK, Waits, Entries
<1>3. Valves!Timed'
  BY <1>1 DEF Kept, Valves!Timed
<1>4. Valves!QueueBehindDelay'
  BY <1>1 DEF Kept, Valves!QueueBehindDelay
<1>5. ASSUME NEW c \in Valves!Channel, valveWait'[c] # Valves!NoCommand,
             NEW k \in 0..Len(valveQueue'[c])
      PROVE  /\ Valves!Deadline(c)'[k] >= Valves!Commands(c)'[k + 1].due - ValveLate
             /\ \/ Valves!Deadline(c)'[k] <= Valves!Commands(c)'[k + 1].due
                \/ k > 0 /\ valveQueue'[c][k].delay = 0
  <2>1. valveWait'[c] \in Waits /\ valveQueue'[c] \in Seq(Entries)
    BY DEF Typed
  <2>2. (<<valveWait'[c]>> \o valveQueue'[c])[k + 1]
          = IF k = 0 THEN valveWait'[c] ELSE valveQueue'[c][k]
    BY <2>1, CommandsAre
  <2>3. Valves!Commands(c)'[k + 1].due = Due(valveWait'[c], valveQueue'[c], k)
    BY <2>2 DEF Due, Valves!Commands
  <2>4. Valves!Deadline(c)'[k] = Valves!Deadlines(valveWait'[c].left, valveQueue'[c])[k]
    BY DEF Valves!Deadline
  <2> QED
    BY <1>1, <1>5, <2>3, <2>4 DEF Kept
<1>6. Valves!Asked'
  BY <1>5 DEF Valves!Asked
<1> QED
  BY <1>2, <1>3, <1>4, <1>6 DEF Valves!Inv

LEMMA ValvesInit == Valves!Init => Valves!Inv
<1> SUFFICES ASSUME Valves!Init PROVE Valves!Inv
  OBVIOUS
<1>1. ValveNever \in Nat /\ ValveLate \in Nat /\ ValveSize \in [Valves!Channel -> Nat]
  BY ValveAssumption DEF Valves!Channel
<1>2. ASSUME NEW c \in Valves!Channel
      PROVE  /\ valveWait[c] = Valves!NoCommand /\ valveQueue[c] = <<>> /\ valveEnd[c] = ValveNever
             /\ valveWait[c].left = ValveNever
  BY DEF Valves!Init, Valves!NoCommand
<1>3. Typed
  BY <1>1, NoCommandWaits DEF Valves!Init, Typed, Valves!Directions
<1>4. Valves!TypeOK
  BY <1>1, <1>2, <1>3 DEF Valves!TypeOK, Typed, Waits, Entries
<1>5. Valves!Served
  BY <1>1, <1>2 DEF Valves!Init, Valves!Served
<1>6. Valves!Timed /\ Valves!QueueBehindDelay /\ Valves!Asked
  BY <1>1, <1>2 DEF Valves!Timed, Valves!QueueBehindDelay, Valves!Asked
<1> QED
  BY <1>4, <1>5, <1>6 DEF Valves!Inv

-----------------------------------------------------------------------------
\* The next trigger is no later than any deadline, whichever is changed to one to come.
LEMMA ScheduleServes ==
  ASSUME Valves!Schedule, valveEnd' \in [Valves!Channel -> Int],
         valveWait' \in [Valves!Channel -> Waits], valveTrigger \in Int,
         valveTrigger >= -ValveLate, valveTrigger <= ValveNever,
         \A c \in Valves!Channel :
           /\ valveEnd'[c] >= valveTrigger \/ valveEnd'[c] > 0
           /\ valveWait'[c].left >= valveTrigger \/ valveWait'[c].left > 0
  PROVE  valveTrigger' \in Int /\ Valves!Served'
<1> DEFINE Ends == {valveEnd'[c] : c \in Valves!Channel}
           Lefts == {valveWait'[c].left : c \in Valves!Channel}
           first == Valves!Min(Ends \cup Lefts)
<1>1. ValveLate \in Nat /\ ValveNever \in Nat /\ Valves!Channel # {} /\ -ValveLate \in Int
  BY ValveAssumption DEF Valves!Channel
<1>2. ASSUME NEW x \in Ends \cup Lefts
      PROVE  x \in Int /\ x >= -ValveLate /\ (x >= valveTrigger \/ x > 0)
  <2>1. CASE x \in Ends
    BY <1>1, <2>1
  <2>2. CASE x \in Lefts
    <3>1. PICK c \in Valves!Channel : x = valveWait'[c].left
      BY <2>2
    <3>2. valveWait'[c] \in Waits
      OBVIOUS
    <3>3. x \in Int
      BY <3>1, <3>2 DEF Waits
    <3>4. x >= valveTrigger \/ x > 0
      BY <3>1
    <3> QED
      BY <1>1, <3>3, <3>4
  <2> QED
    BY <2>1, <2>2
<1>3. Ends \cup Lefts \in SUBSET Int /\ Ends \cup Lefts # {}
  BY <1>1, <1>2
<1>4. first \in Ends \cup Lefts /\ \A x \in Ends \cup Lefts : first <= x
  <2> HIDE DEF Ends, Lefts
  <2> QED
    BY <1>1, <1>2, <1>3, LeastMoment
<1>5. valveTrigger' = CASE first = ValveNever -> valveTrigger
                        [] first <= 0         -> Valves!Min({valveTrigger, 0})
                        [] OTHER              -> first
  BY DEF Valves!Schedule
<1> HIDE DEF first, Ends, Lefts
<1>6. first \in Int /\ first >= -ValveLate /\ (first >= valveTrigger \/ first > 0)
  BY <1>2, <1>4
<1>7. /\ Valves!Min({valveTrigger, 0}) \in {valveTrigger, 0}
      /\ Valves!Min({valveTrigger, 0}) <= valveTrigger /\ Valves!Min({valveTrigger, 0}) <= 0
  <2>1. {valveTrigger, 0} \in SUBSET Int /\ {valveTrigger, 0} # {}
    OBVIOUS
  <2>2. \A x \in {valveTrigger, 0} : x >= -ValveLate
    BY <1>1
  <2>3. /\ Valves!Min({valveTrigger, 0}) \in {valveTrigger, 0}
        /\ \A x \in {valveTrigger, 0} : Valves!Min({valveTrigger, 0}) <= x
    BY <1>1, <2>1, <2>2, LeastMoment
  <2> QED
    BY <2>3
<1>8. /\ valveTrigger' \in Int /\ valveTrigger' >= -ValveLate
      /\ \A x \in Ends \cup Lefts : valveTrigger' <= x
  <2> DEFINE least == Valves!Min({valveTrigger, 0})
  <2>1. least \in Int /\ least >= -ValveLate
    BY <1>1, <1>7
  <2> HIDE DEF least
  <2>2. CASE first = ValveNever
    <3>1. ~(first <= 0)
      BY <1>1, <2>2, NoCommandWaits
    <3>2. valveTrigger' = valveTrigger
      BY <1>5, <2>2, <3>1
    <3> QED
      BY <1>1, <1>2, <1>4, <2>2, <3>2
  <2>3. CASE first # ValveNever /\ first <= 0
    <3>1. valveTrigger' = least /\ least <= valveTrigger /\ least <= 0
      BY <1>5, <1>7, <2>3 DEF least
    <3>2. ASSUME NEW x \in Ends \cup Lefts PROVE least <= x
      <4>1. x \in Int /\ (x >= valveTrigger \/ x > 0)
        BY <1>2
      <4> QED
        BY <2>1, <3>1, <4>1
    <3> QED
      BY <2>1, <3>1, <3>2
  <2>4. CASE first # ValveNever /\ ~(first <= 0)
    <3>1. valveTrigger' = first
      BY <1>5, <2>4
    <3> QED
      BY <1>1, <1>4, <1>6, <2>4, <3>1
  <2> QED
    BY <2>2, <2>3, <2>4
<1>9. \A c \in Valves!Channel : valveTrigger' <= valveEnd'[c] /\ valveTrigger' <= valveWait'[c].left
  BY <1>8 DEF Ends, Lefts
<1> QED
  BY <1>8, <1>9 DEF Valves!Served

\* What the invariant bounds.
LEMMA Bounds ==
  ASSUME Valves!Inv
  PROVE  /\ valveTrigger \in Int /\ valveTrigger >= -ValveLate /\ valveTrigger <= ValveNever
         /\ \A c \in Valves!Channel :
              /\ valveEnd[c] \in Int /\ valveEnd[c] >= valveTrigger /\ valveEnd[c] <= ValveNever
              /\ valveWait[c] \in Waits /\ valveWait[c].left \in Int
              /\ valveWait[c].left >= valveTrigger
              /\ ValveSize[c] \in Nat
<1>1. Typed /\ Valves!Served /\ AllKept
  BY InvIs
<1>2. ValveLate \in Nat /\ ValveNever \in Nat /\ Valves!Channel # {}
      /\ ValveSize \in [Valves!Channel -> Nat]
  BY ValveAssumption DEF Valves!Channel
<1>3. ASSUME NEW c \in Valves!Channel
      PROVE  /\ valveEnd[c] \in Int /\ valveEnd[c] >= valveTrigger /\ valveEnd[c] <= ValveNever
             /\ valveWait[c] \in Waits /\ valveWait[c].left \in Int
             /\ valveWait[c].left >= valveTrigger /\ ValveSize[c] \in Nat
  <2>1. valveEnd[c] \in Int /\ valveWait[c] \in Waits /\ valveTrigger \in Int
    BY <1>1 DEF Typed
  <2>2. valveWait[c].left \in Int
    BY <2>1 DEF Waits
  <2>3. valveTrigger <= valveEnd[c] /\ valveTrigger <= valveWait[c].left
    BY <1>1 DEF Valves!Served
  <2>4. valveEnd[c] <= ValveNever
    BY <1>1 DEF AllKept
  <2> QED
    BY <1>2, <2>1, <2>2, <2>3, <2>4
<1>4. valveTrigger \in Int /\ valveTrigger >= -ValveLate
  BY <1>1 DEF Typed, Valves!Served
<1>5. valveTrigger <= ValveNever
  <2>1. PICK c \in Valves!Channel : TRUE
    BY <1>2
  <2> QED
    BY <1>2, <1>3, <1>4, <2>1
<1> QED
  BY <1>3, <1>4, <1>5

\* A step that changes the commands of channel c alone, and no deadline that is driven.
LEMMA EnqueueKeeps ==
  ASSUME Valves!Inv, NEW c \in Valves!Channel, NEW delay \in ValveDelays, NEW d \in ValveDirs,
         Valves!Enqueue(c, delay, d)
  PROVE  Valves!Inv'
<1> DEFINE q == valveQueue[c]
           w == valveWait[c]
           time == Valves!Remain(w.left) + Valves!Deadlines(w.left, q)[Len(q)] - w.left
           behind == IF delay > time THEN delay - time ELSE 0
           p == Append(q, [delay |-> behind, dir |-> d, due |-> delay])
<1>1. Typed /\ Valves!Served /\ AllKept
  BY InvIs
<1>2. /\ w # Valves!NoCommand /\ Len(q) < ValveSize[c]
      /\ valveQueue' = [valveQueue EXCEPT ![c] = p]
      /\ UNCHANGED <<valveState, valveDir, valveEnd, valveWait, valveTrigger>>
  BY DEF Valves!Enqueue, Valves!Behind, Valves!Deadline
<1>3. w.left >= -ValveLate /\ ValveSize[c] \in Nat
  <2>1. w.left \in Int /\ w.left >= valveTrigger /\ valveTrigger \in Int
          /\ valveTrigger >= -ValveLate
        /\ ValveLate \in Nat /\ ValveSize[c] \in Nat
    BY Bounds, ValveAssumption
  <2> QED
    BY <2>1
<1>4. Kept(w, q, ValveSize[c])
  BY <1>1 DEF AllKept
<1>5. Kept(w, p, ValveSize[c])
  <2> HIDE DEF w, q
  <2> QED
    BY <1>2, <1>3, <1>4, KeptAppend
<1>6. p \in Seq(Entries)
  BY <1>5 DEF Kept
<1> HIDE DEF p
<1>7. valveQueue' \in [Valves!Channel -> Seq(Entries)]
  BY <1>1, <1>2, <1>6 DEF Typed
<1>8. Typed'
  BY <1>1, <1>2, <1>7 DEF Typed
<1>9. Valves!Served'
  BY <1>1, <1>2 DEF Valves!Served
<1>10. AllKept'
  <2>1. ASSUME NEW k \in Valves!Channel
        PROVE  valveEnd'[k] <= ValveNever /\ Kept(valveWait'[k], valveQueue'[k], ValveSize[k])
    <3>1. valveQueue'[k] = IF k = c THEN p ELSE valveQueue[k]
      BY <1>1, <1>2 DEF Typed
    <3> QED
      BY <1>1, <1>2, <1>5, <3>1 DEF AllKept
  <2> QED
    BY <2>1 DEF AllKept
<1> QED
  BY <1>8, <1>9, <1>10, InvFrom

LEMMA OffKeeps ==
  ASSUME Valves!Inv, NEW c \in Valves!Channel, Valves!ActionOff(c)
  PROVE  Valves!Inv'
<1>1. Typed /\ Valves!Served /\ AllKept
  BY InvIs
<1>2. /\ ValveNever \in Nat /\ valveTrigger \in Int /\ valveTrigger <= ValveNever
      /\ ValveSize[c] \in Nat
  BY Bounds, ValveAssumption
<1>3. /\ valveWait' = [valveWait EXCEPT ![c] = Valves!NoCommand]
      /\ valveQueue' = [valveQueue EXCEPT ![c] = <<>>]
      /\ valveEnd' = [valveEnd EXCEPT ![c] = ValveNever]
      /\ valveState' = [valveState EXCEPT ![c] = FALSE]
      /\ valveDir' = valveDir /\ valveTrigger' = valveTrigger
  BY DEF Valves!ActionOff
<1>4. Typed'
  BY <1>1, <1>2, <1>3, NoCommandWaits DEF Typed
<1>5. ASSUME NEW k \in Valves!Channel
      PROVE  /\ valveWait'[k] = IF k = c THEN Valves!NoCommand ELSE valveWait[k]
             /\ valveQueue'[k] = IF k = c THEN <<>> ELSE valveQueue[k]
             /\ valveEnd'[k] = IF k = c THEN ValveNever ELSE valveEnd[k]
  BY <1>1, <1>3 DEF Typed
<1>6. Valves!Served'
  <2>1. Valves!NoCommand.left = ValveNever
    BY DEF Valves!NoCommand
  <2> QED
    BY <1>1, <1>2, <1>3, <1>5, <2>1 DEF Valves!Served
<1>7. AllKept'
  BY <1>1, <1>2, <1>5, NothingKept DEF AllKept
<1> QED
  BY <1>4, <1>6, <1>7, InvFrom

LEMMA InvalidKeeps ==
  ASSUME Valves!Inv, NEW c \in Valves!Channel, Valves!SetInvalidDirection(c)
  PROVE  Valves!Inv'
<1>1. Typed /\ Valves!Served /\ AllKept
  BY InvIs
<1>2. /\ valveDir' = [valveDir EXCEPT ![c] = Valves!NoDir]
      /\ UNCHANGED <<valveState, valveEnd, valveWait, valveQueue, valveTrigger>>
  BY DEF Valves!SetInvalidDirection
<1>3. Typed'
  BY <1>1, <1>2 DEF Typed, Valves!Directions
<1>4. Valves!Served' /\ AllKept'
  BY <1>1, <1>2 DEF Valves!Served, AllKept
<1> QED
  BY <1>3, <1>4, InvFrom

LEMMA ActionKeeps ==
  ASSUME Valves!Inv, NEW c \in Valves!Channel, NEW delay \in ValveDelays, NEW d \in ValveDirs,
         Valves!ActionOnDir(c, delay, d)
  PROVE  Valves!Inv'
<1>1. Typed /\ Valves!Served /\ AllKept
  BY InvIs
<1>2. /\ ValveNever \in Nat /\ ValveLate \in Nat /\ ValveOnTime \in Nat /\ ValveOnTime < ValveNever
      /\ delay \in Nat /\ delay < ValveNever
  BY ValveAssumption
<1>3. /\ valveTrigger \in Int /\ valveTrigger >= -ValveLate /\ valveTrigger <= ValveNever
      /\ \A k \in Valves!Channel :
           /\ valveEnd[k] \in Int /\ valveEnd[k] >= valveTrigger /\ valveEnd[k] <= ValveNever
           /\ valveWait[k] \in Waits /\ valveWait[k].left \in Int
           /\ valveWait[k].left >= valveTrigger
           /\ ValveSize[k] \in Nat
  BY Bounds
<1>4. valveQueue' = valveQueue /\ Valves!Schedule
  BY DEF Valves!ActionOnDir
<1>5. CASE delay > 0
  <2> DEFINE w == [left |-> delay, dir |-> d, due |-> delay]
  <2>1. valveWait' = [valveWait EXCEPT ![c] = w] /\ UNCHANGED <<valveState, valveDir, valveEnd>>
    BY <1>5 DEF Valves!ActionOnDir
  <2>2. valveQueue[c] = <<>>
    <3>1. CASE ValveSize[c] = 0
      <4>1. Len(valveQueue[c]) <= 0 /\ valveQueue[c] \in Seq(Entries)
        BY <1>1, <3>1 DEF AllKept, Kept
      <4> QED
        BY <4>1
    <3>2. CASE valveWait[c] = Valves!NoCommand
      BY <1>1, <3>2 DEF AllKept, Kept
    <3> QED
      BY <3>1, <3>2 DEF Valves!ActionOnDir
  <2>3. Kept(w, <<>>, ValveSize[c])
    BY <1>3, KeptFirst
  <2>4. w \in Waits /\ w.left = delay
    BY <2>3 DEF Kept
  <2> HIDE DEF w
  <2>5. ASSUME NEW k \in Valves!Channel PROVE valveWait'[k] = IF k = c THEN w ELSE valveWait[k]
    BY <1>1, <2>1 DEF Typed
  <2>6. valveWait' \in [Valves!Channel -> Waits]
    BY <1>1, <2>1, <2>4 DEF Typed
  <2>7. valveTrigger' \in Int /\ Valves!Served'
    <3>1. ASSUME NEW k \in Valves!Channel
          PROVE  /\ valveEnd'[k] >= valveTrigger \/ valveEnd'[k] > 0
                 /\ valveWait'[k].left >= valveTrigger \/ valveWait'[k].left > 0
      BY <1>3, <1>5, <2>1, <2>4, <2>5
    <3>2. valveEnd' \in [Valves!Channel -> Int]
      BY <1>1, <2>1 DEF Typed
    <3> QED
      BY <1>3, <1>4, <2>6, <3>1, <3>2, ScheduleServes
  <2>8. Typed'
    BY <1>1, <1>4, <2>1, <2>6, <2>7 DEF Typed
  <2>9. AllKept'
    <3>1. ASSUME NEW k \in Valves!Channel
          PROVE  valveEnd'[k] <= ValveNever /\ Kept(valveWait'[k], valveQueue'[k], ValveSize[k])
      BY <1>1, <1>4, <2>1, <2>2, <2>3, <2>5 DEF AllKept
    <3> QED
      BY <3>1 DEF AllKept
  <2> QED
    BY <2>7, <2>8, <2>9, InvFrom
<1>6. CASE ~(delay > 0)
  <2> DEFINE drive(k) == IF k = c THEN Valves!SwitchedOn(Valves!Drive(c), d) ELSE Valves!Drive(k)
  <2>1. /\ valveState' = [k \in Valves!Channel |-> drive(k).state]
        /\ valveDir' = [k \in Valves!Channel |-> drive(k).dir]
        /\ valveEnd' = [k \in Valves!Channel |-> drive(k).end]
        /\ valveWait' = valveWait
    BY <1>6 DEF Valves!ActionOnDir, Valves!SetDrive
  <2>2. ASSUME NEW k \in Valves!Channel
        PROVE  drive(k) \in Drives /\ drive(k).end \in {valveEnd[k], ValveOnTime, ValveNever}
               /\ (drive(k).end = 0 => drive(k).end = valveEnd[k])
    <3>1. Valves!Drive(k) \in Drives /\ Valves!Drive(k).end = valveEnd[k]
      BY <1>1 DEF Typed, Drives, Valves!Drive
    <3>2. d \in Valves!Directions
      BY DEF Valves!Directions
    <3>3. Valves!SwitchedOn(Valves!Drive(c), d).end = 0 /\ k = c
            => Valves!SwitchedOn(Valves!Drive(c), d).end = valveEnd[k]
      BY <1>2, <3>1 DEF Valves!SwitchedOn
    <3> QED
      BY <3>1, <3>2, <3>3, SwitchedOnIs
  <2> HIDE DEF drive
  <2>3. ASSUME NEW k \in Valves!Channel
        PROVE  /\ valveEnd'[k] \in Int /\ valveEnd'[k] <= ValveNever
               /\ valveEnd'[k] >= valveTrigger \/ valveEnd'[k] > 0
    <3>1. valveEnd'[k] = drive(k).end
      BY <2>1
    <3> QED
      BY <1>2, <1>3, <2>2, <3>1
  <2>4. valveState' \in [Valves!Channel -> BOOLEAN]
          /\ valveDir' \in [Valves!Channel -> Valves!Directions]
    <3>1. \A k \in Valves!Channel : drive(k).state \in BOOLEAN /\ drive(k).dir \in Valves!Directions
      BY <2>2 DEF Drives
    <3> QED
      BY <2>1, <3>1
  <2>5. valveEnd' \in [Valves!Channel -> Int]
    BY <2>1, <2>3
  <2>6. valveTrigger' \in Int /\ Valves!Served'
    <3>1. valveWait' \in [Valves!Channel -> Waits]
      BY <1>1, <2>1 DEF Typed
    <3>2. \A k \in Valves!Channel : valveWait'[k].left >= valveTrigger
      BY <1>3, <2>1
    <3> QED
      BY <1>3, <1>4, <2>3, <2>5, <3>1, <3>2, ScheduleServes
  <2>7. Typed'
    BY <1>1, <1>4, <2>1, <2>4, <2>5, <2>6 DEF Typed
  <2>8. AllKept'
    BY <1>1, <1>4, <2>1, <2>3 DEF AllKept
  <2> QED
    BY <2>6, <2>7, <2>8, InvFrom
<1> QED
  BY <1>5, <1>6

LEMMA TickKeeps == ASSUME Valves!Inv, Valves!Tick PROVE Valves!Inv'
<1>1. Typed /\ Valves!Served /\ AllKept
  BY InvIs
<1>2. ValveNever \in Nat /\ ValveLate \in Nat
  BY ValveAssumption
<1>3. /\ valveTrigger \in Int /\ valveTrigger >= -ValveLate /\ valveTrigger <= ValveNever
      /\ \A k \in Valves!Channel :
           /\ valveEnd[k] \in Int /\ valveEnd[k] >= valveTrigger /\ valveEnd[k] <= ValveNever
           /\ valveWait[k] \in Waits /\ valveWait[k].left \in Int
           /\ valveWait[k].left >= valveTrigger
  BY Bounds
<1> DEFINE v(c) == [valveWait[c] EXCEPT !.left = Nearer(@), !.due = Nearer(@)]
           p(c) == [k \in DOMAIN valveQueue[c] |-> [valveQueue[c][k] EXCEPT !.due = @ - 1]]
<1>4. /\ valveTrigger > -ValveLate
      /\ valveEnd' = [c \in Valves!Channel |-> Nearer(valveEnd[c])]
      /\ valveWait' = [c \in Valves!Channel |-> v(c)]
      /\ valveQueue' = [c \in Valves!Channel |-> p(c)]
      /\ valveTrigger' = Nearer(valveTrigger)
      /\ UNCHANGED <<valveState, valveDir>>
  BY DEF Valves!Tick, Nearer
<1>5. ASSUME NEW c \in Valves!Channel
      PROVE  Kept(v(c), p(c), ValveSize[c])
  BY <1>1, KeptTick DEF AllKept
<1>6. ASSUME NEW c \in Valves!Channel PROVE v(c).left = Nearer(valveWait[c].left)
  BY <1>3 DEF Waits
<1>7. ASSUME NEW c \in Valves!Channel PROVE v(c) \in Waits /\ p(c) \in Seq(Entries)
  BY <1>5 DEF Kept
<1> HIDE DEF v, p
<1>8. ASSUME NEW c \in Valves!Channel
      PROVE  /\ valveEnd'[c] \in Int /\ valveEnd'[c] <= ValveNever
             /\ valveTrigger' <= valveEnd'[c] /\ valveTrigger' <= valveWait'[c].left
  <2>1. valveEnd'[c] = Nearer(valveEnd[c]) /\ valveWait'[c].left = Nearer(valveWait[c].left)
    BY <1>4, <1>6
  <2>2. Nearer(valveTrigger) <= Nearer(valveEnd[c]) /\ Nearer(valveEnd[c]) <= ValveNever
        /\ Nearer(valveEnd[c]) \in Int
    BY <1>2, <1>3 DEF Nearer
  <2>3. Nearer(valveTrigger) <= Nearer(valveWait[c].left)
    <3>1. valveWait[c].left <= ValveNever
      BY <1>1, <1>2, <1>3 DEF AllKept, Kept, Valves!NoCommand
    <3> QED
      BY <1>2, <1>3, <3>1 DEF Nearer
  <2> QED
    BY <1>4, <2>1, <2>2, <2>3
<1>9. valveTrigger' \in Int /\ valveTrigger' >= -ValveLate
  <2>1. Nearer(valveTrigger) \in Int /\ Nearer(valveTrigger) >= -ValveLate
    BY <1>2, <1>3, <1>4 DEF Nearer
  <2> QED
    BY <1>4, <2>1
<1>10. Typed'
  <2>1. valveEnd' \in [Valves!Channel -> Int]
    BY <1>4, <1>8
  <2>2. valveWait' \in [Valves!Channel -> Waits] /\ valveQueue' \in [Valves!Channel -> Seq(Entries)]
    BY <1>4, <1>7
  <2>3. valveState' = valveState /\ valveDir' = valveDir
    BY <1>4
  <2> QED
    BY <1>1, <1>9, <2>1, <2>2, <2>3 DEF Typed
<1>11. Valves!Served'
  BY <1>8, <1>9 DEF Valves!Served
<1>12. AllKept'
  <2>1. ASSUME NEW c \in Valves!Channel
        PROVE  valveEnd'[c] <= ValveNever /\ Kept(valveWait'[c], valveQueue'[c], ValveSize[c])
    BY <1>4, <1>5, <1>8
  <2> QED
    BY <2>1 DEF AllKept
<1> QED
  BY <1>10, <1>11, <1>12, InvFrom

\* How many commands of a channel are due.
LEMMA ReadyIs ==
  ASSUME Valves!Inv, NEW c \in Valves!Channel
  PROVE  LET D == Valves!Deadlines(valveWait[c].left, valveQueue[c])
             n == Valves!Ready(c)
         IN /\ n \in 0..Len(valveQueue[c]) + 1
            /\ \A k \in 0..n - 1 : D[k] <= 0
            /\ n <= Len(valveQueue[c]) => D[n] > 0
<1> DEFINE D == Valves!Deadlines(valveWait[c].left, valveQueue[c])
<1>1. Kept(valveWait[c], valveQueue[c], ValveSize[c])
  BY InvIs DEF AllKept
<1>2. Len(valveQueue[c]) \in Nat /\ \A k \in 0..Len(valveQueue[c]) : D[k] \in Int
  BY <1>1, KeptDeadlines
<1> HIDE DEF D
<1>3. \E n \in 0..Len(valveQueue[c]) + 1 :
        (\A k \in 0..n - 1 : D[k] <= 0) /\ (n <= Len(valveQueue[c]) => D[n] > 0)
  BY <1>2, ReadyExists
<1>4. Valves!Ready(c) = CHOOSE n \in 0..Len(valveQueue[c]) + 1 :
        (\A k \in 0..n - 1 : D[k] <= 0) /\ (n <= Len(valveQueue[c]) => D[n] > 0)
  BY DEF Valves!Ready, Valves!Deadline, D
<1> QED
  BY <1>3, <1>4 DEF D

\* What the task leaves of a channel: nothing that is due.
LEMMA RestIs ==
  ASSUME Valves!Inv, NEW c \in Valves!Channel
  PROVE  LET n == Valves!Ready(c)
             v == IF n = 0 THEN valveWait[c] ELSE Valves!Rest(c)
             p == IF n = 0 THEN valveQueue[c]
                  ELSE SubSeq(valveQueue[c], n + 1, Len(valveQueue[c]))
         IN v.left > 0 /\ Kept(v, p, ValveSize[c])
<1> DEFINE w == valveWait[c]
           q == valveQueue[c]
           D == Valves!Deadlines(w.left, q)
           n == Valves!Ready(c)
           v == IF n = 0 THEN valveWait[c] ELSE Valves!Rest(c)
           p == IF n = 0 THEN valveQueue[c] ELSE SubSeq(valveQueue[c], n + 1, Len(valveQueue[c]))
<1>1. Typed /\ Kept(w, q, ValveSize[c]) /\ ValveSize[c] \in Nat
  BY InvIs, Bounds DEF AllKept
<1>2. w \in Waits /\ q \in Seq(Entries) /\ Len(q) \in Nat /\ D[0] = w.left
  BY <1>1, KeptDeadlines DEF Kept
<1>3. /\ n \in 0..Len(q) + 1
      /\ \A k \in 0..n - 1 : D[k] <= 0
      /\ n <= Len(q) => D[n] > 0
  BY ReadyIs
<1>4. CASE n = 0
  <2>1. v = w /\ p = q /\ w.left > 0
    BY <1>2, <1>3, <1>4
  <2> QED
    BY <1>1, <2>1
<1>5. CASE n # 0
  <2>1. v = Valves!Rest(c) /\ p = SubSeq(q, n + 1, Len(q))
    BY <1>5
  <2>2. CASE n = Len(q) + 1
    <3>1. n > Len(q)
      BY <1>2, <2>2
    <3>2. v = Valves!NoCommand
      BY <2>1, <3>1 DEF Valves!Rest
    <3>3. p = <<>>
      BY <1>2, <2>1, <2>2
    <3>4. Valves!NoCommand.left > 0
      BY NoCommandWaits DEF Valves!NoCommand
    <3>5. Kept(Valves!NoCommand, <<>>, ValveSize[c])
      BY <1>1, NothingKept
    <3> QED
      BY <3>2, <3>3, <3>4, <3>5
  <2>3. CASE n \in 1..Len(q)
    <3>1. ~(n > Len(q)) /\ n \in 0..Len(q) /\ n # 0 /\ n - 1 \in 0..n - 1
      BY <1>2, <2>3
    <3>2. Valves!Commands(c)[n + 1] = q[n]
      BY <1>2, <3>1, CommandsAre DEF Valves!Commands
    <3>3. v = [left |-> D[n], dir |-> q[n].dir, due |-> q[n].due]
      BY <2>1, <3>1, <3>2 DEF Valves!Rest, Valves!Deadline
    <3>4. D[n - 1] <= 0 /\ D[n] > 0
      BY <1>2, <1>3, <2>3, <3>1
    <3>5. w # Valves!NoCommand
      <4>1. q # <<>>
        BY <1>2, <2>3
      <4> QED
        BY <1>1, <4>1 DEF Kept
    <3> DEFINE u == [left |-> D[n], dir |-> q[n].dir, due |-> q[n].due]
    <3>6. u.left > 0 /\ Kept(u, SubSeq(q, n + 1, Len(q)), ValveSize[c])
      BY <1>1, <2>3, <3>4, <3>5, KeptRest
    <3> QED
      BY <2>1, <3>3, <3>6
  <2> QED
    BY <1>2, <1>3, <1>5, <2>2, <2>3
<1> QED
  BY <1>4, <1>5

\* What the task leaves running of the pulse of a channel is not over.
LEMMA ProcessedIs ==
  ASSUME Valves!Inv, NEW c \in Valves!Channel
  PROVE  /\ Valves!Processed(c) \in Drives
         /\ Valves!Processed(c).end <= ValveNever
         /\ Valves!Processed(c).end >= 0
<1> DEFINE s == Valves!CheckedOff(Valves!Drive(c))
           n == Valves!Ready(c)
           cs == Valves!Commands(c)
<1>1. Typed /\ Valves!Served /\ AllKept
  BY InvIs
<1>2. ValveNever \in Nat /\ ValveOnTime \in Nat /\ ValveOnTime < ValveNever
  BY ValveAssumption
<1>3. Valves!Drive(c) \in Drives /\ Valves!Drive(c).end = valveEnd[c]
  BY <1>1 DEF Typed, Drives, Valves!Drive
<1>4. valveEnd[c] \in Int /\ valveEnd[c] <= ValveNever
  BY Bounds
<1>5. s \in Drives /\ s.end \in Int /\ s.end <= ValveNever /\ s.end >= 0
  BY <1>2, <1>3, <1>4 DEF Drives, Valves!CheckedOff
<1>6. n \in 0..Len(valveQueue[c]) + 1 /\ n \in Nat
  <2>1. n \in 0..Len(valveQueue[c]) + 1
    BY ReadyIs
  <2>2. Len(valveQueue[c]) \in Nat
    BY <1>1 DEF Typed
  <2> QED
    BY <2>1, <2>2
<1>7. ASSUME NEW k \in 1..n PROVE cs[k].dir \in Valves!Directions
  <2>1. valveWait[c] \in Waits /\ valveQueue[c] \in Seq(Entries) /\ Len(valveQueue[c]) \in Nat
    BY <1>1 DEF Typed
  <2>2. k - 1 \in 0..Len(valveQueue[c]) /\ (k - 1) + 1 = k
    BY <1>6, <2>1
  <2>3. cs[(k - 1) + 1] = IF k - 1 = 0 THEN valveWait[c] ELSE valveQueue[c][k - 1]
    BY <2>1, <2>2, CommandsAre DEF Valves!Commands
  <2>4. k - 1 # 0 => valveQueue[c][k - 1] \in Entries
    BY <2>1, <2>2
  <2> QED
    BY <2>1, <2>2, <2>3, <2>4 DEF Waits, Entries, Valves!Directions
<1> HIDE DEF s, n, cs
<1>8. Valves!Driven(s, cs, n) \in Drives
        /\ Valves!Driven(s, cs, n).end \in {s.end, ValveOnTime, ValveNever}
  BY <1>5, <1>6, <1>7, DrivenIs
<1>9. Valves!Processed(c) = Valves!Driven(s, cs, n)
  BY DEF Valves!Processed, s, n, cs
<1> QED
  BY <1>2, <1>5, <1>8, <1>9

LEMMA TaskKeeps == ASSUME Valves!Inv, Valves!DoTask PROVE Valves!Inv'
<1> DEFINE n(c) == Valves!Ready(c)
           v(c) == IF n(c) = 0 THEN valveWait[c] ELSE Valves!Rest(c)
           p(c) == IF n(c) = 0 THEN valveQueue[c]
                   ELSE SubSeq(valveQueue[c], n(c) + 1, Len(valveQueue[c]))
           s(c) == Valves!Processed(c)
           Ends == {valveEnd'[c] : c \in Valves!Channel}
           Lefts == {valveWait'[c].left : c \in Valves!Channel}
           first == Valves!Min(Ends \cup Lefts)
<1>1. ValveNever \in Nat /\ ValveLate \in Nat /\ Valves!Channel # {}
  BY ValveAssumption DEF Valves!Channel
<1>2. /\ valveState' = [c \in Valves!Channel |-> s(c).state]
      /\ valveDir' = [c \in Valves!Channel |-> s(c).dir]
      /\ valveEnd' = [c \in Valves!Channel |-> s(c).end]
      /\ valveWait' = [c \in Valves!Channel |-> v(c)]
      /\ valveQueue' = [c \in Valves!Channel |-> p(c)]
      /\ valveTrigger' = IF first = ValveNever THEN ValveNever ELSE Valves!Remain(first)
  BY DEF Valves!DoTask, Valves!SetDrive
<1>3. ASSUME NEW c \in Valves!Channel
      PROVE  s(c) \in Drives /\ s(c).end <= ValveNever /\ s(c).end >= 0
  BY ProcessedIs
<1>4. ASSUME NEW c \in Valves!Channel
      PROVE  v(c).left > 0 /\ Kept(v(c), p(c), ValveSize[c])
  BY RestIs
<1>5. ASSUME NEW c \in Valves!Channel
      PROVE  v(c) \in Waits /\ p(c) \in Seq(Entries)
  BY <1>4 DEF Kept
<1> HIDE DEF n, v, p, s
<1>6. ASSUME NEW c \in Valves!Channel
      PROVE  /\ valveEnd'[c] \in Int /\ valveEnd'[c] >= 0 /\ valveEnd'[c] <= ValveNever
             /\ valveWait'[c].left \in Int /\ valveWait'[c].left >= 0
  BY <1>2, <1>3, <1>4, <1>5 DEF Drives, Waits
<1>7. first \in Ends \cup Lefts /\ \A x \in Ends \cup Lefts : first <= x
  <2>1. Ends \cup Lefts \in SUBSET Int /\ Ends \cup Lefts # {} /\ 0 \in Int
    <3>1. Ends \in SUBSET Int /\ Lefts \in SUBSET Int
      BY <1>6
    <3>2. PICK c \in Valves!Channel : TRUE
      BY <1>1
    <3>3. valveEnd'[c] \in Ends
      BY <3>2
    <3> QED
      BY <3>1, <3>3
  <2>2. \A x \in Ends \cup Lefts : x >= 0
    BY <1>6
  <2> HIDE DEF Ends, Lefts
  <2> QED
    BY <2>1, <2>2, LeastMoment
<1> HIDE DEF first
<1>8. first \in Int /\ first >= 0
  BY <1>6, <1>7
<1>9. valveTrigger' = first
  BY <1>2, <1>8 DEF Valves!Remain
<1>10. Valves!Served'
  <2>1. ASSUME NEW c \in Valves!Channel PROVE first <= valveEnd'[c] /\ first <= valveWait'[c].left
    BY <1>7
  <2> QED
    BY <1>1, <1>8, <1>9, <2>1 DEF Valves!Served
<1>11. Typed'
  <2>1. \A c \in Valves!Channel : s(c).state \in BOOLEAN /\ s(c).dir \in Valves!Directions
          /\ s(c).end \in Int
    BY <1>3 DEF Drives
  <2>2. valveState' \in [Valves!Channel -> BOOLEAN]
          /\ valveDir' \in [Valves!Channel -> Valves!Directions]
        /\ valveEnd' \in [Valves!Channel -> Int]
    BY <1>2, <2>1
  <2>3. valveWait' \in [Valves!Channel -> Waits] /\ valveQueue' \in [Valves!Channel -> Seq(Entries)]
    BY <1>2, <1>5
  <2>4. valveTrigger' \in Int
    BY <1>8, <1>9
  <2> QED
    BY <2>2, <2>3, <2>4 DEF Typed
<1>12. AllKept'
  <2>1. ASSUME NEW c \in Valves!Channel
        PROVE  valveEnd'[c] <= ValveNever /\ Kept(valveWait'[c], valveQueue'[c], ValveSize[c])
    BY <1>2, <1>4, <1>6
  <2> QED
    BY <2>1 DEF AllKept
<1> QED
  BY <1>10, <1>11, <1>12, InvFrom

LEMMA ValvesStep == Valves!Inv /\ [Valves!Next]_Valves!vars => Valves!Inv'
<1> SUFFICES ASSUME Valves!Inv, [Valves!Next]_Valves!vars PROVE Valves!Inv'
  OBVIOUS
<1>1. CASE UNCHANGED Valves!vars
  <2>1. Typed /\ Valves!Served /\ AllKept
    BY InvIs
  <2>2. Typed' /\ Valves!Served' /\ AllKept'
    BY <1>1, <2>1 DEF Valves!vars, Typed, Valves!Served, AllKept
  <2> QED
    BY <2>2, InvFrom
<1>2. CASE Valves!DoTask
  BY <1>2, TaskKeeps
<1>3. CASE Valves!Tick
  BY <1>3, TickKeeps
<1>4. ASSUME NEW c \in Valves!Channel, NEW delay \in ValveDelays, NEW d \in ValveDirs,
             Valves!Enqueue(c, delay, d) \/ Valves!ActionOnDir(c, delay, d)
      PROVE  Valves!Inv'
  BY <1>4, EnqueueKeeps, ActionKeeps
<1>5. ASSUME NEW c \in Valves!Channel, Valves!ActionOff(c) \/ Valves!SetInvalidDirection(c)
      PROVE  Valves!Inv'
  BY <1>5, OffKeeps, InvalidKeeps
<1> QED
  BY <1>1, <1>2, <1>3, <1>4, <1>5 DEF Valves!Next

\* A command that runs together with the one before it is no later than that one was asked for.
LEMMA AskedFor ==
  ASSUME Valves!Inv, NEW c \in Valves!Channel, valveWait[c] # Valves!NoCommand
  PROVE  \A k \in 0..Len(valveQueue[c]) :
           \E j \in 0..k : Valves!Deadline(c)[k] <= Valves!Commands(c)[j + 1].due
<1> DEFINE w == valveWait[c]
           q == valveQueue[c]
           D == Valves!Deadlines(w.left, q)
           Told == {k \in 0..Len(q) : \E j \in 0..k : D[k] <= Due(w, q, j)}
<1>1. Typed /\ Kept(w, q, ValveSize[c])
  BY InvIs DEF AllKept
<1>2. /\ Len(q) \in Nat /\ \A k \in 0..Len(q) : D[k] \in Int /\ Due(w, q, k) \in Int
      /\ \A k \in 1..Len(q) : D[k] = D[k - 1] + q[k].delay
  BY <1>1, KeptDeadlines
<1>3. \A k \in 0..Len(q) : D[k] <= Due(w, q, k) \/ (k > 0 /\ q[k].delay = 0)
  BY <1>1 DEF Kept
<1> HIDE DEF D, w, q
<1>4. 0 \in Told
  BY <1>2, <1>3
<1>5. ASSUME NEW k \in 1..Len(q), k - 1 \in Told PROVE k \in Told
  <2>1. k \in 0..Len(q) /\ k \in 0..k /\ k - 1 \in 0..Len(q)
    BY <1>2
  <2>2. CASE D[k] <= Due(w, q, k)
    BY <2>1, <2>2
  <2>3. CASE q[k].delay = 0
    <3>1. PICK j \in 0..k - 1 : D[k - 1] <= Due(w, q, j)
      BY <1>5
    <3>2. D[k] = D[k - 1] /\ j \in 0..k
      BY <1>2, <2>1, <2>3, <3>1
    <3> QED
      BY <2>1, <3>1, <3>2
  <2> QED
    BY <1>3, <2>1, <2>2, <2>3
<1>6. 0..Len(q) \subseteq Told
  <2>1. \A k \in 1..Len(q) : k - 1 \in Told => k \in Told
    BY <1>5
  <2> HIDE DEF Told
  <2> QED
    BY <1>2, <1>4, <2>1, UpTo
<1>7. ASSUME NEW k \in 0..Len(q)
      PROVE  \E j \in 0..k : Valves!Deadline(c)[k] <= Valves!Commands(c)[j + 1].due
  <2>1. PICK j \in 0..k : D[k] <= Due(w, q, j)
    BY <1>6
  <2>2. Valves!Commands(c)[j + 1].due = Due(w, q, j)
    <3>1. j \in 0..Len(q)
      BY <1>2, <2>1
    <3> QED
      BY <1>1, <3>1, DueIs DEF w, q
  <2>3. Valves!Deadline(c)[k] = D[k]
    BY DEF Valves!Deadline, D, w, q
  <2> QED
    BY <2>1, <2>2, <2>3
<1> QED
  BY <1>7 DEF q

LEMMA ValvesPromise ==
  Valves!Inv => Valves!NeverLate /\ Valves!QueueBehindDelay /\ Valves!AsAsked
<1> SUFFICES ASSUME Valves!Inv
             PROVE  Valves!NeverLate /\ Valves!QueueBehindDelay /\ Valves!AsAsked
  OBVIOUS
<1>1. Valves!NeverLate
  <2>1. ASSUME NEW c \in Valves!Channel
        PROVE  valveEnd[c] >= -ValveLate /\ valveWait[c].left >= -ValveLate
    <3>1. /\ valveTrigger \in Int /\ valveTrigger >= -ValveLate /\ ValveLate \in Nat
          /\ valveEnd[c] \in Int /\ valveEnd[c] >= valveTrigger
          /\ valveWait[c].left \in Int /\ valveWait[c].left >= valveTrigger
      BY Bounds, ValveAssumption
    <3> QED
      BY <3>1
  <2> QED
    BY <2>1 DEF Valves!NeverLate
<1>2. Valves!QueueBehindDelay
  BY DEF Valves!Inv
<1>3. Valves!AsAsked
  <2>1. ASSUME NEW c \in Valves!Channel, valveWait[c] # Valves!NoCommand,
               NEW k \in 0..Len(valveQueue[c])
        PROVE  /\ Valves!Deadline(c)[k] >= Valves!Commands(c)[k + 1].due - ValveLate
               /\ \E j \in 0..k : Valves!Deadline(c)[k] <= Valves!Commands(c)[j + 1].due
    BY <2>1, AskedFor DEF Valves!Inv, Valves!Asked
  <2> QED
    BY <2>1 DEF Valves!AsAsked
<1> QED
  BY <1>1, <1>2, <1>3

THEOREM CommandsInTime ==
  Valves!Spec => [](Valves!NeverLate /\ Valves!QueueBehindDelay /\ Valves!AsAsked)
<1>1. Valves!Spec => []Valves!Inv
  BY ValvesInit, ValvesStep, PTL DEF Valves!Spec
<1> QED
  BY <1>1, ValvesPromise, PTL

-----------------------------------------------------------------------------
(* The keypad: what was told of the presses of a key against what the scans saw of them, and      *)
(* what was told last against what the driver knows of the press.                                 *)

\* What passes between two scans, and ages that are told apart up to a bound.
LEMMA KeyGap == ASSUME NEW g \in Key!Gaps PROVE g \in Nat /\ 0 < g /\ g <= KeyMaxGap
BY KeyAssumption DEF Key!Gaps

LEMMA KeyCapped ==
  ASSUME NEW n \in Nat
  PROVE  /\ Key!Capped(n) \in 0..KeyOldest /\ Key!Capped(n) <= n
         /\ \A m \in Nat : m <= KeyOldest => (Key!Capped(n) < m <=> n < m)
         /\ \A m \in Nat : m <= KeyOldest => (Key!Capped(n) >= m <=> n >= m)
         /\ n < KeyOldest => Key!Capped(n) = n
BY KeyAssumption DEF Key!Capped

\* The invariant holds at first.
LEMMA KeyInit == Key!Init => Key!InOrder
<1> SUFFICES ASSUME Key!Init PROVE Key!InOrder
  OBVIOUS
<1>0. 0 \in 0..KeyOldest
  BY KeyAssumption
<1>1. Key!TypeOK
  BY <1>0, Zenon DEF Key!Init, Key!TypeOK
<1>2. Key!Told
  BY DEF Key!Init, Key!Told, Key!Known, Key!Waiting, Key!Balanced, Key!Ahead, Key!Owed
<1>3. Key!Heard(keyState, keyPressed, keyLong, keyDouble, keyAge, keyTold)
  BY DEF Key!Init, Key!Heard
<1> QED
  BY <1>1, <1>2, <1>3 DEF Key!InOrder, Key!Inv

\* What the scans make of the key: nothing is counted but when a press ends.
LEMMA KeySampled ==
  ASSUME Key!TypeOK, NEW on \in BOOLEAN, NEW g \in Key!Gaps, Key!Sampled(on, g)
  PROVE  /\ keyDown' = on /\ keyDown' \in BOOLEAN /\ keyRun' \in 0..KeyOldest
         /\ keyCertain' \in Nat /\ keyPossible' \in Nat
         /\ on \/ ~keyDown => keyCertain' = keyCertain /\ keyPossible' = keyPossible
         /\ ~on /\ keyDown =>
              /\ keyCertain' = keyCertain \/ (keyRun >= KeyHold + KeyMaxGap /\ keyCertain' = keyCertain + 1)
              /\ keyPossible' = keyPossible + 1 \/ (keyRun < KeyHold /\ keyPossible' = keyPossible)
         /\ on /\ ~keyDown => keyRun' = 0
         /\ on /\ keyDown => keyRun' = Key!Capped(keyRun + g)
         /\ ~on /\ keyDown => keyRun' = 0
         /\ ~on /\ ~keyDown => keyRun' = keyRun
<1>1. g \in Nat /\ KeyHold \in Nat /\ KeyMaxGap \in Nat /\ 0 \in 0..KeyOldest
  BY KeyGap, KeyAssumption
<1>2. keyRun \in 0..KeyOldest /\ keyRun \in Nat /\ keyCertain \in Nat /\ keyPossible \in Nat
  BY DEF Key!TypeOK
<1>3. keyRun + g \in Nat /\ keyCertain + 1 \in Nat /\ keyPossible + 1 \in Nat
  BY <1>1, <1>2
<1>4. Key!Capped(keyRun + g) \in 0..KeyOldest
  BY <1>3, KeyCapped
<1>5. keyDown' = on
  BY DEF Key!Sampled
<1>6. CASE on /\ ~keyDown
  BY <1>1, <1>2, <1>5, <1>6 DEF Key!Sampled
<1>7. CASE on /\ keyDown
  BY <1>2, <1>4, <1>5, <1>7 DEF Key!Sampled
<1>8. CASE ~on /\ keyDown
  <2>1. /\ keyPossible' = IF keyRun >= KeyHold THEN keyPossible + 1 ELSE keyPossible
        /\ keyCertain' = IF keyRun >= KeyHold + KeyMaxGap THEN keyCertain + 1 ELSE keyCertain
        /\ keyRun' = 0
    BY <1>8, Zenon DEF Key!Sampled
  <2>2. keyPossible' = keyPossible + 1 \/ (keyRun < KeyHold /\ keyPossible' = keyPossible)
    <3>1. CASE keyRun >= KeyHold
      BY <2>1, <3>1, Zenon
    <3>2. CASE ~(keyRun >= KeyHold)
      <4>1. keyRun < KeyHold
        BY <1>1, <1>2, <3>2
      <4>2. keyPossible' = keyPossible
        BY <2>1, <3>2, Zenon
      <4> QED
        BY <4>1, <4>2
    <3> QED
      BY <3>1, <3>2
  <2>3. keyCertain' = keyCertain \/ (keyRun >= KeyHold + KeyMaxGap /\ keyCertain' = keyCertain + 1)
    <3>1. CASE keyRun >= KeyHold + KeyMaxGap
      BY <2>1, <3>1, Zenon
    <3>2. CASE ~(keyRun >= KeyHold + KeyMaxGap)
      BY <2>1, <3>2, Zenon
    <3> QED
      BY <3>1, <3>2
  <2>4. keyCertain' \in Nat /\ keyPossible' \in Nat /\ keyRun' \in 0..KeyOldest
    BY <1>1, <1>2, <1>3, <2>1
  <2> QED
    BY <1>5, <1>8, <2>1, <2>2, <2>3, <2>4
<1>9. CASE ~on /\ ~keyDown
  <2>1. UNCHANGED <<keyRun, keyCertain, keyPossible>>
    BY <1>9, Zenon DEF Key!Sampled
  <2> QED
    BY <1>2, <1>5, <1>9, <2>1
<1> QED
  BY <1>6, <1>7, <1>8, <1>9

\* How the account of the presses goes on.
LEMMA KeyBalance ==
  ASSUME NEW c \in Nat, NEW p \in Nat, NEW r \in Nat, NEW ahead \in {0, 1}, NEW owed \in {0, 1},
         Key!Balanced(ahead, owed, c, p, r)
  PROVE  /\ Key!Balanced(ahead, owed, c, p + 1, r)
         /\ owed = 1 => Key!Balanced(ahead, 0, c, p, r + 1) /\ Key!Balanced(ahead, 0, c, p + 1, r + 1)
         /\ owed = 0 /\ ahead = 0 => /\ Key!Balanced(1, 0, c, p, r + 1)
                                     /\ Key!Balanced(0, 1, c, p + 1, r)
                                     /\ Key!Balanced(0, 1, c + 1, p + 1, r)
                                     /\ Key!Balanced(0, 0, c, p + 1, r + 1)
                                     /\ Key!Balanced(0, 0, c + 1, p + 1, r + 1)
         /\ owed = 1 /\ ahead = 0 => Key!Balanced(1, 0, c, p, r + 2)
         /\ owed = 0 /\ ahead = 1 => /\ Key!Balanced(0, 0, c, p + 1, r)
                                     /\ Key!Balanced(0, 0, c + 1, p + 1, r)
BY DEF Key!Balanced


\* What a scan raises leaves the account a number.
LEMMA KeyRaised ==
  ASSUME Key!TypeOK, NEW e1, NEW e2, NEW e3, Key!Raise(e1, e2, e3)
  PROVE  /\ keyTold' \in {"rest", "pressed", "long", "double", "wrong"}
         /\ keyReported' \in Nat
<1>1. ASSUME NEW t \in {"rest", "pressed", "long", "double", "wrong"}, NEW e
      PROVE  Key!Hears(t, e) \in {"rest", "pressed", "long", "double", "wrong"}
  BY Zenon DEF Key!Hears
<1>2. ASSUME NEW e PROVE Key!Worth(e) \in Nat
  BY DEF Key!Worth
<1>3. keyTold \in {"rest", "pressed", "long", "double", "wrong"} /\ keyReported \in Nat
  BY DEF Key!TypeOK
<1>4. keyTold' = Key!Hears(Key!Hears(Key!Hears(keyTold, e1), e2), e3)
  BY DEF Key!Raise
<1>5. keyReported' = keyReported + Key!Worth(e1) + Key!Worth(e2) + Key!Worth(e3)
  BY DEF Key!Raise
<1>6. keyReported + Key!Worth(e1) + Key!Worth(e2) + Key!Worth(e3) \in Nat
  <2>1. Key!Worth(e1) \in Nat /\ Key!Worth(e2) \in Nat /\ Key!Worth(e3) \in Nat
    BY <1>2
  <2> QED
    BY <1>3, <2>1
<1>7. Key!Hears(Key!Hears(Key!Hears(keyTold, e1), e2), e3)
        \in {"rest", "pressed", "long", "double", "wrong"}
  <2>1. Key!Hears(keyTold, e1) \in {"rest", "pressed", "long", "double", "wrong"}
    BY <1>1, <1>3
  <2>2. Key!Hears(Key!Hears(keyTold, e1), e2) \in {"rest", "pressed", "long", "double", "wrong"}
    BY <1>1, <2>1
  <2> QED
    BY <1>1, <2>2
<1> QED
  BY <1>4, <1>5, <1>6, <1>7

\* Every pass of the task keeps the types.
LEMMA KeyTypes ==
  ASSUME Key!TypeOK, NEW on \in BOOLEAN, NEW g \in Key!Gaps,
         Key!CheckKeyState(on, g), Key!Sampled(on, g), UNCHANGED keyDoubles
  PROVE  Key!TypeOK'
<1>1. g \in Nat /\ keyAge \in Nat /\ keyFirst \in Nat /\ keyCount \in Nat /\ 0 \in 0..KeyOldest
  BY KeyGap, KeyAssumption DEF Key!TypeOK
<1>2. /\ Key!Capped(keyAge + g) \in 0..KeyOldest /\ Key!Capped(keyFirst + g) \in 0..KeyOldest
      /\ keyCount + 1 \in Nat
  BY <1>1, KeyCapped
<1>3. /\ keyDown' \in BOOLEAN /\ keyRun' \in 0..KeyOldest
      /\ keyCertain' \in Nat /\ keyPossible' \in Nat
  BY KeySampled
<1>4. keyTold' \in {"rest", "pressed", "long", "double", "wrong"} /\ keyReported' \in Nat
  <2>1. ASSUME NEW e1, NEW e2, NEW e3, Key!Raise(e1, e2, e3)
        PROVE  keyTold' \in {"rest", "pressed", "long", "double", "wrong"} /\ keyReported' \in Nat
    BY <2>1, KeyRaised
  <2>2. ASSUME Key!Silent
        PROVE  keyTold' \in {"rest", "pressed", "long", "double", "wrong"} /\ keyReported' \in Nat
    BY <2>2 DEF Key!Silent, Key!TypeOK
  <2> QED
    BY <2>1, <2>2, Zenon DEF Key!CheckKeyState, Key!Idle, Key!Pressed, Key!Held, Key!HeldTwice,
      Key!Released, Key!RaiseOne
<1>5. keyAge' \in 0..KeyOldest /\ keyFirst' \in 0..KeyOldest /\ keyCount' \in Nat
  <2>1. ASSUME Key!Idle(on, g)
        PROVE  keyAge' \in 0..KeyOldest /\ keyFirst' \in 0..KeyOldest /\ keyCount' \in Nat
    BY <1>1, <1>2, <2>1 DEF Key!Idle
  <2>2. ASSUME Key!Pressed(on, g)
        PROVE  keyAge' \in 0..KeyOldest /\ keyFirst' \in 0..KeyOldest /\ keyCount' \in Nat
    BY <1>1, <1>2, <2>2 DEF Key!Pressed
  <2>3. ASSUME Key!Held(on, g)
        PROVE  keyAge' \in 0..KeyOldest /\ keyFirst' \in 0..KeyOldest /\ keyCount' \in Nat
    BY <1>1, <1>2, <2>3 DEF Key!Held
  <2>4. ASSUME Key!HeldTwice(on, g) \/ Key!Released(on, g)
        PROVE  keyAge' \in 0..KeyOldest /\ keyFirst' \in 0..KeyOldest /\ keyCount' \in Nat
    BY <1>1, <1>2, <2>4 DEF Key!HeldTwice, Key!Released, Key!flags
  <2> QED
    BY <2>1, <2>2, <2>3, <2>4 DEF Key!CheckKeyState
<1>6. /\ keyDoubles' \in BOOLEAN /\ keyPressed' \in BOOLEAN /\ keyShort' \in BOOLEAN
      /\ keyDouble' \in BOOLEAN /\ keyLong' \in BOOLEAN
      /\ keyState' \in {"idle", "pressed", "hold", "released"}
  <2> DEFINE Flags == /\ keyPressed' \in BOOLEAN /\ keyShort' \in BOOLEAN
                      /\ keyDouble' \in BOOLEAN /\ keyLong' \in BOOLEAN
                      /\ keyState' \in {"idle", "pressed", "hold", "released"}
  <2>1. ASSUME Key!Idle(on, g) PROVE Flags
    BY <2>1 DEF Key!Idle, Key!TypeOK
  <2>2. ASSUME Key!Pressed(on, g) PROVE Flags
    BY <2>2 DEF Key!Pressed, Key!AfterNoise, Key!TypeOK
  <2>3. ASSUME Key!Held(on, g) PROVE Flags
    BY <2>3 DEF Key!Held, Key!Clicked, Key!TypeOK
  <2>4. ASSUME Key!HeldTwice(on, g) \/ Key!Released(on, g) PROVE Flags
    BY <2>4 DEF Key!HeldTwice, Key!Released, Key!flags, Key!TypeOK
  <2>5. Flags
    BY <2>1, <2>2, <2>3, <2>4 DEF Key!CheckKeyState
  <2> QED
    BY <2>5 DEF Key!TypeOK
<1> QED
  BY <1>3, <1>4, <1>5, <1>6 DEF Key!TypeOK


\* What the events are worth.
LEMMA KeyWorth ==
  ASSUME Key!TypeOK
  PROVE  /\ Key!Raise("none", "none", "none") => keyReported' = keyReported
         /\ Key!Raise("P", "R", "none") => keyReported' = keyReported + 1
         /\ Key!RaiseOne("R") => keyReported' = keyReported
         /\ Key!RaiseOne("none") => keyReported' = keyReported
         /\ Key!RaiseOne("D") => keyReported' = keyReported + 2
         /\ \A e1, e2, e3 : Key!Raise(e1, e2, e3) /\ e2 \in {"none", "r"} =>
              /\ e1 = "P" /\ e3 = "none" => keyReported' = keyReported + 1
              /\ e1 \in {"none", "L"} /\ e3 = "P" => keyReported' = keyReported + 1
              /\ e1 \in {"none", "L"} /\ e3 = "none" => keyReported' = keyReported
<1>1. /\ Key!Worth("none") = 0 /\ Key!Worth("P") = 1 /\ Key!Worth("R") = 0 /\ Key!Worth("D") = 2
      /\ Key!Worth("L") = 0 /\ Key!Worth("r") = 0
  BY DEF Key!Worth
<1>2. keyReported \in Nat
  BY DEF Key!TypeOK
<1>3. \A e1, e2, e3 : Key!Raise(e1, e2, e3) =>
        keyReported' = keyReported + Key!Worth(e1) + Key!Worth(e2) + Key!Worth(e3)
  BY DEF Key!Raise
<1>4. /\ keyReported + 0 + 0 + 0 = keyReported /\ keyReported + 1 + 0 + 0 = keyReported + 1
      /\ keyReported + 2 + 0 + 0 = keyReported + 2 /\ keyReported + 0 + 0 + 1 = keyReported + 1
  BY <1>2
<1>5. ASSUME NEW e1, NEW e2, NEW e3, Key!Raise(e1, e2, e3), e2 \in {"none", "r"}
      PROVE  /\ e1 = "P" /\ e3 = "none" => keyReported' = keyReported + 1
             /\ e1 \in {"none", "L"} /\ e3 = "P" => keyReported' = keyReported + 1
             /\ e1 \in {"none", "L"} /\ e3 = "none" => keyReported' = keyReported
  <2>1. keyReported' = keyReported + Key!Worth(e1) + Key!Worth(e2) + Key!Worth(e3)
    BY <1>3, <1>5
  <2>2. Key!Worth(e2) = 0
    BY <1>1, <1>5
  <2>3. e1 \in {"none", "L"} => Key!Worth(e1) = 0
    BY <1>1
  <2> QED
    BY <1>1, <1>4, <2>1, <2>2, <2>3
<1> QED
  BY <1>1, <1>3, <1>4, <1>5 DEF Key!RaiseOne

\* Each state of the key keeps the account: no press is counted twice or lost.
LEMMA KeyIdleStep ==
  ASSUME Key!Inv, NEW on \in BOOLEAN, NEW g \in Key!Gaps,
         Key!Idle(on, g), Key!Sampled(on, g), UNCHANGED keyDoubles
  PROVE  Key!Told'
<1> DEFINE over == keyShort /\ keyFirst + g >= KeyDouble
<1>1. /\ g \in Nat /\ 0 < g /\ g <= KeyMaxGap /\ KeyMaxGap \in Nat /\ KeyDouble \in Nat
      /\ KeyHold \in Nat /\ 0 < KeyHold /\ KeyDouble <= KeyOldest
  BY KeyGap, KeyAssumption
<1>2. /\ Key!TypeOK /\ keyAge \in Nat /\ keyFirst \in Nat /\ keyRun \in Nat
      /\ keyFirst + g \in Nat /\ keyRun + g \in Nat
  BY <1>1 DEF Key!Inv, Key!TypeOK
<1>3. keyState = "idle" /\ keyRun = 0 /\ (keyShort => keyDoubles)
  BY DEF Key!Idle, Key!Inv, Key!Told, Key!Known, Key!Waiting
<1>4. /\ keyShort' = (keyShort /\ ~over) /\ keyFirst' = Key!Capped(keyFirst + g)
      /\ on => /\ keyState' = "pressed" /\ keyAge' = 0 /\ keyPressed' = FALSE /\ keyLong' = FALSE
      /\ ~on => keyState' = "idle"
  BY <1>3 DEF Key!Idle
<1>5. Key!Known(keyState', keyDown', keyRun', keyAge')
  <2>1. CASE on
    <3> DEFINE seen == IF keyDown THEN Key!Capped(keyRun + g) ELSE 0
    <3>1. keyRun' = seen /\ keyDown'
      BY <1>2, <2>1, KeySampled, Zenon
    <3>2. seen \in Nat /\ seen <= 0 + KeyMaxGap /\ 0 < KeyHold
      <4>1. Key!Capped(0 + g) \in Nat /\ Key!Capped(0 + g) <= 0 + g
        BY <1>1, KeyCapped
      <4> QED
        BY <1>1, <1>3, <4>1
    <3> HIDE DEF seen
    <3>3. Key!Known("pressed", TRUE, seen, 0)
      BY <3>2 DEF Key!Known
    <3> QED
      BY <1>4, <2>1, <3>1, <3>3
  <2>2. CASE ~on
    <3>1. keyRun' = 0
      BY <1>2, <1>3, <2>2, KeySampled, Zenon
    <3> QED
      BY <1>4, <2>2, <3>1 DEF Key!Known
  <2> QED
    BY <2>1, <2>2
<1>6. Key!Waiting(keyState', keyDoubles', keyShort', keyPressed', keyLong', keyDouble', keyAge', keyFirst')
  <2>1. keyShort' => keyDoubles'
    BY <1>3, <1>4
  <2>2. CASE on
    <3>1. keyShort /\ ~over => Key!Capped(keyFirst + g) - 0 < KeyDouble
      <4>1. Key!Capped(keyFirst + g) \in Nat
        BY <1>2, KeyCapped
      <4>2. keyFirst + g < KeyDouble => Key!Capped(keyFirst + g) < KeyDouble
        BY <1>1, <1>2, KeyCapped
      <4> QED
        BY <1>1, <1>2, <4>1, <4>2
    <3> HIDE DEF over
    <3>2. Key!Waiting("pressed", keyDoubles', keyShort /\ ~over, FALSE, FALSE, keyDouble', 0,
                      Key!Capped(keyFirst + g))
      BY <1>4, <2>1, <3>1 DEF Key!Waiting
    <3> QED
      BY <1>4, <2>2, <3>2
  <2>3. CASE ~on
    BY <1>4, <2>1, <2>3 DEF Key!Waiting
  <2> QED
    BY <2>2, <2>3
<1>7. Key!Balanced(Key!Ahead(keyState', keyPressed', keyDouble'), Key!Owed(keyShort'),
                   keyCertain', keyPossible', keyReported')
  <2>1. Key!Balanced(0, Key!Owed(keyShort), keyCertain, keyPossible, keyReported)
    BY <1>3 DEF Key!Inv, Key!Told, Key!Ahead
  <2>2. keyCertain \in Nat /\ keyPossible \in Nat /\ keyReported \in Nat
    BY <1>2 DEF Key!TypeOK
  <2>3. Key!Ahead(keyState', keyPressed', keyDouble') = 0
    BY <1>4 DEF Key!Ahead
  <2>4. keyCertain' = keyCertain /\ (keyPossible' = keyPossible \/ keyPossible' = keyPossible + 1)
    <3>1. ~(keyRun >= KeyHold + KeyMaxGap)
      BY <1>1, <1>3
    <3> QED
      BY <1>2, <3>1, KeySampled, Zenon
  <2>5. CASE over
    <3>1. keyReported' = keyReported + 1
      <4>1. Key!Raise("P", "R", "none")
        BY <2>5, Zenon DEF Key!Idle
      <4> QED
        BY <1>2, <4>1, KeyWorth
    <3>2. Key!Owed(keyShort) = 1 /\ Key!Owed(keyShort') = 0
      BY <1>4, <2>5 DEF Key!Owed
    <3>3. /\ Key!Balanced(0, 0, keyCertain, keyPossible, keyReported + 1)
          /\ Key!Balanced(0, 0, keyCertain, keyPossible + 1, keyReported + 1)
      BY <2>1, <2>2, <3>2, KeyBalance
    <3> QED
      BY <2>3, <2>4, <3>1, <3>2, <3>3
  <2>6. CASE ~over
    <3>1. keyReported' = keyReported
      <4>1. Key!Raise("none", "none", "none")
        BY <2>6, Zenon DEF Key!Idle
      <4> QED
        BY <1>2, <4>1, KeyWorth
    <3>2. Key!Owed(keyShort') = Key!Owed(keyShort) /\ Key!Owed(keyShort) \in {0, 1}
      BY <1>4, <2>6 DEF Key!Owed
    <3>3. /\ Key!Balanced(0, Key!Owed(keyShort), keyCertain, keyPossible, keyReported)
          /\ Key!Balanced(0, Key!Owed(keyShort), keyCertain, keyPossible + 1, keyReported)
      BY <2>1, <2>2, <3>2, KeyBalance
    <3> QED
      BY <2>3, <2>4, <3>1, <3>2, <3>3
  <2> QED
    BY <2>5, <2>6
<1> QED
  BY <1>5, <1>6, <1>7 DEF Key!Told


LEMMA KeyPressedStep ==
  ASSUME Key!Inv, NEW on \in BOOLEAN, NEW g \in Key!Gaps,
         Key!Pressed(on, g), Key!Sampled(on, g), UNCHANGED keyDoubles
  PROVE  Key!Told'
<1> DEFINE aged == Key!Capped(keyAge + g)
           seen == Key!Capped(keyRun + g)
           since == Key!Capped(keyFirst + g)
<1>1. /\ g \in Nat /\ KeyMaxGap \in Nat /\ KeyDouble \in Nat /\ KeyHold \in Nat
      /\ KeyHold <= KeyOldest /\ KeyHold + KeyMaxGap \in Nat
  BY KeyGap, KeyAssumption
<1>2. /\ Key!TypeOK /\ keyAge \in Nat /\ keyFirst \in Nat /\ keyRun \in Nat
      /\ keyAge + g \in Nat /\ keyFirst + g \in Nat /\ keyRun + g \in Nat
  BY <1>1 DEF Key!Inv, Key!TypeOK
<1>3. /\ keyState = "pressed" /\ keyDown /\ keyAge < KeyHold
      /\ keyAge <= keyRun /\ keyRun <= keyAge + KeyMaxGap
      /\ keyPressed = FALSE /\ keyLong = FALSE
      /\ keyShort => keyDoubles /\ keyFirst - keyAge < KeyDouble
  BY <1>2 DEF Key!Pressed, Key!Inv, Key!Told, Key!Known, Key!Waiting, Key!TypeOK
<1>4. keyPressed' = FALSE /\ keyLong' = FALSE
  BY <1>3 DEF Key!Pressed
<1>5. /\ Key!Balanced(0, Key!Owed(keyShort), keyCertain, keyPossible, keyReported)
      /\ keyCertain \in Nat /\ keyPossible \in Nat /\ keyReported \in Nat
      /\ keyShort \in BOOLEAN
  BY <1>2, <1>3 DEF Key!Inv, Key!Told, Key!Ahead, Key!TypeOK
<1>6. Key!Owed(keyShort) \in {0, 1}
  BY DEF Key!Owed
<1>7. CASE ~on
  <2>1. /\ keyState' = "idle" /\ keyShort' = keyShort /\ keyReported' = keyReported
    BY <1>7, Zenon DEF Key!Pressed, Key!AfterNoise, Key!Silent
  <2>2. keyRun' = 0
    BY <1>2, <1>3, <1>7, KeySampled, Zenon
  <2>3. keyCertain' = keyCertain /\ (keyPossible' = keyPossible \/ keyPossible' = keyPossible + 1)
    <3>1. ~(keyRun >= KeyHold + KeyMaxGap)
      BY <1>1, <1>2, <1>3
    <3> QED
      BY <1>2, <3>1, KeySampled, Zenon
  <2>4. Key!Known(keyState', keyDown', keyRun', keyAge')
    BY <2>1, <2>2 DEF Key!Known
  <2>5. Key!Waiting(keyState', keyDoubles', keyShort', keyPressed', keyLong', keyDouble', keyAge', keyFirst')
    BY <1>3, <2>1 DEF Key!Waiting
  <2>6. Key!Ahead(keyState', keyPressed', keyDouble') = 0
    BY <2>1 DEF Key!Ahead
  <2>7. Key!Balanced(0, Key!Owed(keyShort), keyCertain, keyPossible + 1, keyReported)
    BY <1>5, <1>6, KeyBalance
  <2>8. Key!Balanced(0, Key!Owed(keyShort), keyCertain', keyPossible', keyReported')
    BY <1>5, <2>1, <2>3, <2>7
  <2> QED
    BY <2>1, <2>4, <2>5, <2>6, <2>8 DEF Key!Told
<1>8. CASE on /\ keyAge + g < KeyHold
  <2>1. /\ keyState' = "pressed" /\ keyShort' = keyShort /\ keyReported' = keyReported
        /\ keyAge' = aged /\ keyFirst' = since
    BY <1>3, <1>8, Zenon DEF Key!Pressed, Key!Silent
  <2>2. keyRun' = seen /\ keyDown' /\ keyCertain' = keyCertain /\ keyPossible' = keyPossible
    BY <1>2, <1>3, <1>8, KeySampled, Zenon
  <2>3. aged = keyAge + g
    BY <1>1, <1>2, <1>8, KeyCapped, KeyAssumption
  <2>4. seen \in Nat /\ seen <= keyRun + g /\ since \in Nat /\ since <= keyFirst + g
    BY <1>2, KeyCapped
  <2>5. keyAge + g <= seen
    <3>1. keyAge + g <= KeyOldest /\ keyRun + g >= keyAge + g
      BY <1>1, <1>2, <1>3, <1>8, KeyAssumption
    <3>2. seen >= keyAge + g
      BY <1>2, <3>1, KeyCapped
    <3> QED
      BY <1>2, <2>4, <3>2
  <2>6. Key!Known("pressed", TRUE, seen, keyAge + g)
    <3>1. seen <= keyAge + g + KeyMaxGap
      BY <1>1, <1>2, <1>3, <2>4
    <3> QED
      BY <1>8, <2>5, <3>1 DEF Key!Known
  <2>7. Key!Waiting("pressed", keyDoubles, keyShort, FALSE, FALSE, keyDouble', keyAge + g, since)
    <3>1. keyShort => since - (keyAge + g) < KeyDouble
      BY <1>1, <1>2, <1>3, <2>4
    <3> QED
      BY <1>3, <3>1 DEF Key!Waiting
  <2>8. Key!Ahead(keyState', keyPressed', keyDouble') = 0
    BY <2>1 DEF Key!Ahead
  <2>9. Key!Known(keyState', keyDown', keyRun', keyAge')
    BY <2>1, <2>2, <2>3, <2>6
  <2>10. Key!Waiting(keyState', keyDoubles', keyShort', keyPressed', keyLong', keyDouble', keyAge', keyFirst')
    BY <1>4, <2>1, <2>3, <2>7
  <2> QED
    BY <1>5, <2>1, <2>2, <2>8, <2>9, <2>10 DEF Key!Told
<1>9. CASE on /\ ~(keyAge + g < KeyHold)
  <2>1. /\ keyState' = "hold" /\ keyDouble' = keyShort /\ keyShort' = FALSE
        /\ Key!RaiseOne(IF keyShort THEN "D" ELSE "none")
    <3>1. (keyDoubles /\ keyShort /\ keyFirst - keyAge < KeyDouble) = keyShort
      BY <1>3, <1>5
    <3>2. /\ keyState' = "hold"
          /\ keyDouble' = (keyDoubles /\ keyShort /\ keyFirst - keyAge < KeyDouble)
          /\ Key!RaiseOne(IF keyDoubles /\ keyShort /\ keyFirst - keyAge < KeyDouble
                          THEN "D" ELSE "none")
          /\ keyShort' = (keyShort /\ ~(keyDoubles /\ keyShort /\ keyFirst - keyAge < KeyDouble))
      BY <1>9, Zenon DEF Key!Pressed
    <3> QED
      BY <1>5, <3>1, <3>2
  <2>2. keyRun' = seen /\ keyDown' /\ keyCertain' = keyCertain /\ keyPossible' = keyPossible
    BY <1>2, <1>3, <1>9, KeySampled, Zenon
  <2>3. seen >= KeyHold
    <3>1. keyRun + g >= KeyHold
      BY <1>1, <1>2, <1>3, <1>9
    <3> QED
      BY <1>1, <1>2, <3>1, KeyCapped
  <2>4. Key!Known(keyState', keyDown', keyRun', keyAge')
    BY <2>1, <2>2, <2>3 DEF Key!Known
  <2>5. Key!Waiting(keyState', keyDoubles', keyShort', keyPressed', keyLong', keyDouble', keyAge', keyFirst')
    BY <1>4, <2>1 DEF Key!Waiting
  <2>6. Key!Balanced(Key!Ahead(keyState', keyPressed', keyDouble'), Key!Owed(keyShort'),
                     keyCertain', keyPossible', keyReported')
    <3>1. Key!Owed(keyShort') = 0
      BY <2>1 DEF Key!Owed
    <3>2. CASE keyShort
      <4>1. keyReported' = keyReported + 2
        BY <1>2, <2>1, <3>2, KeyWorth
      <4>2. Key!Ahead(keyState', keyPressed', keyDouble') = 1 /\ Key!Owed(keyShort) = 1
        BY <2>1, <3>2 DEF Key!Ahead, Key!Owed
      <4>3. Key!Balanced(1, 0, keyCertain, keyPossible, keyReported + 2)
        BY <1>5, <4>2, KeyBalance
      <4> QED
        BY <2>2, <3>1, <4>1, <4>2, <4>3
    <3>3. CASE ~keyShort
      <4>1. keyReported' = keyReported
        BY <1>2, <2>1, <3>3, KeyWorth
      <4>2. Key!Ahead(keyState', keyPressed', keyDouble') = 0 /\ Key!Owed(keyShort) = 0
        BY <1>4, <2>1, <3>3 DEF Key!Ahead, Key!Owed
      <4> QED
        BY <1>5, <2>2, <3>1, <4>1, <4>2
    <3> QED
      BY <3>2, <3>3
  <2> QED
    BY <2>4, <2>5, <2>6 DEF Key!Told
<1> QED
  BY <1>7, <1>8, <1>9


\* A press that ends, after the hold time, may count and perhaps does so certainly.
LEMMA KeyEnds ==
  ASSUME Key!TypeOK, NEW g \in Key!Gaps, Key!Sampled(FALSE, g), keyDown, keyRun >= KeyHold
  PROVE  /\ keyPossible' = keyPossible + 1 /\ keyRun' = 0 /\ ~keyDown'
         /\ keyCertain' = keyCertain \/ keyCertain' = keyCertain + 1
<1>1. ~(keyRun < KeyHold)
  BY KeyAssumption DEF Key!TypeOK
<1> QED
  BY <1>1, KeySampled, Zenon

LEMMA KeyHeldStep ==
  ASSUME Key!Inv, NEW on \in BOOLEAN, NEW g \in Key!Gaps,
         Key!Held(on, g), Key!Sampled(on, g), UNCHANGED keyDoubles
  PROVE  Key!Told'
<1> DEFINE time == Key!Capped(keyAge + g)
           seen == Key!Capped(keyRun + g)
           clicked == Key!Clicked(time)
           event == Key!Becomes(time)
<1>1. /\ g \in Nat /\ KeyDouble \in Nat /\ KeyLong \in Nat /\ KeyHold \in Nat
      /\ KeyHold <= KeyOldest
  BY KeyGap, KeyAssumption
<1>2. /\ Key!TypeOK /\ keyAge \in Nat /\ keyRun \in Nat
      /\ keyAge + g \in Nat /\ keyRun + g \in Nat
  BY <1>1 DEF Key!Inv, Key!TypeOK
<1>3. /\ keyState = "hold" /\ keyDouble = FALSE /\ keyDown /\ keyRun >= KeyHold /\ keyShort = FALSE
      /\ keyPressed \in BOOLEAN /\ keyDoubles \in BOOLEAN
  BY <1>2 DEF Key!Held, Key!Inv, Key!Told, Key!Known, Key!Waiting, Key!TypeOK
<1>4. time \in Nat
  BY <1>2, KeyCapped
<1>5. /\ clicked = (keyPressed \/ (time >= KeyDouble /\ time < KeyLong)) /\ clicked \in BOOLEAN
      /\ clicked /\ ~keyPressed => event = "P"
      /\ ~clicked \/ keyPressed => event \in {"none", "L"}
  BY <1>1, <1>3, <1>4 DEF Key!Clicked, Key!Becomes
<1>6. /\ keyPressed' = clicked /\ keyDouble' = FALSE
      /\ on => keyState' = "hold" /\ keyShort' = FALSE
      /\ ~on /\ ~clicked /\ keyDoubles => keyState' = "idle" /\ keyShort' = TRUE
      /\ ~on /\ (clicked \/ ~keyDoubles) => keyState' = "released" /\ keyShort' = FALSE
  BY <1>3, <1>5 DEF Key!Held
<1>7. \E again \in {"none", "r"} :
        Key!Raise(event, again, IF ~on /\ ~clicked /\ ~keyDoubles THEN "P" ELSE "none")
  BY Zenon DEF Key!Held
<1>8. /\ clicked /\ ~keyPressed => keyReported' = keyReported + 1
      /\ ~clicked /\ ~on /\ ~keyDoubles => keyReported' = keyReported + 1
      /\ keyPressed => keyReported' = keyReported
      /\ ~clicked /\ (on \/ keyDoubles) => keyReported' = keyReported
  <2>1. PICK again \in {"none", "r"} :
          Key!Raise(event, again, IF ~on /\ ~clicked /\ ~keyDoubles THEN "P" ELSE "none")
    BY <1>7
  <2>2. keyPressed => clicked
    BY <1>5
  <2> HIDE DEF clicked, event
  <2>3. CASE ~on /\ ~clicked /\ ~keyDoubles
    <3>1. Key!Raise(event, again, "P") /\ event \in {"none", "L"}
      BY <1>5, <2>1, <2>3
    <3> QED
      BY <1>2, <2>2, <2>3, <3>1, KeyWorth
  <2>4. CASE ~(~on /\ ~clicked /\ ~keyDoubles)
    <3>1. Key!Raise(event, again, "none")
      BY <2>1, <2>4
    <3> QED
      BY <1>2, <1>5, <2>2, <2>4, <3>1, KeyWorth
  <2> QED
    BY <2>3, <2>4
<1>9. /\ Key!Balanced(IF keyPressed THEN 1 ELSE 0, 0, keyCertain, keyPossible, keyReported)
      /\ keyCertain \in Nat /\ keyPossible \in Nat /\ keyReported \in Nat
  BY <1>2, <1>3 DEF Key!Inv, Key!Told, Key!Ahead, Key!Owed, Key!TypeOK
<1> HIDE DEF clicked, event
<1>10. Key!Waiting(keyState', keyDoubles', keyShort', keyPressed', keyLong', keyDouble', keyAge', keyFirst')
  BY <1>6 DEF Key!Waiting
<1>11. CASE on
  <2>1. keyRun' = seen /\ keyDown' /\ keyCertain' = keyCertain /\ keyPossible' = keyPossible
    BY <1>2, <1>3, <1>11, KeySampled, Zenon
  <2>2. seen >= KeyHold
    <3>1. keyRun + g >= KeyHold
      BY <1>1, <1>2, <1>3
    <3> QED
      BY <1>1, <1>2, <3>1, KeyCapped
  <2>3. Key!Known(keyState', keyDown', keyRun', keyAge')
    BY <1>6, <1>11, <2>1, <2>2 DEF Key!Known
  <2>4. Key!Owed(keyShort') = 0 /\ Key!Ahead(keyState', keyPressed', keyDouble') = IF clicked THEN 1 ELSE 0
    BY <1>5, <1>6, <1>11 DEF Key!Owed, Key!Ahead
  <2>5. Key!Balanced(IF clicked THEN 1 ELSE 0, 0, keyCertain, keyPossible, keyReported')
    <3>1. CASE clicked /\ ~keyPressed
      BY <1>8, <1>9, <3>1, KeyBalance
    <3>2. CASE keyPressed
      BY <1>5, <1>8, <1>9, <3>2
    <3>3. CASE ~clicked
      BY <1>5, <1>8, <1>9, <1>11, <3>3
    <3> QED
      BY <3>1, <3>2, <3>3
  <2> QED
    BY <1>10, <2>1, <2>3, <2>4, <2>5 DEF Key!Told
<1>12. CASE ~on
  <2>1. /\ keyPossible' = keyPossible + 1 /\ keyRun' = 0 /\ ~keyDown'
        /\ keyCertain' = keyCertain \/ keyCertain' = keyCertain + 1
    <3>1. on = FALSE
      BY <1>12
    <3> QED
      BY <1>2, <1>3, <3>1, KeyEnds
  <2>2. Key!Known(keyState', keyDown', keyRun', keyAge')
    BY <1>5, <1>6, <1>12, <2>1 DEF Key!Known
  <2>3. Key!Ahead(keyState', keyPressed', keyDouble') = 0
    BY <1>5, <1>6, <1>12 DEF Key!Ahead
  <2>4. Key!Balanced(0, Key!Owed(keyShort'), keyCertain', keyPossible', keyReported')
    <3>1. CASE keyPressed
      <4>1. /\ Key!Balanced(0, 0, keyCertain, keyPossible + 1, keyReported)
            /\ Key!Balanced(0, 0, keyCertain + 1, keyPossible + 1, keyReported)
        BY <1>9, <3>1, KeyBalance
      <4>2. Key!Owed(keyShort') = 0
        BY <1>5, <1>6, <1>12, <3>1 DEF Key!Owed
      <4> QED
        BY <1>8, <2>1, <3>1, <4>1, <4>2
    <3>2. CASE ~keyPressed /\ (clicked \/ ~keyDoubles)
      <4>1. /\ Key!Balanced(0, 0, keyCertain, keyPossible + 1, keyReported + 1)
            /\ Key!Balanced(0, 0, keyCertain + 1, keyPossible + 1, keyReported + 1)
        BY <1>9, <3>2, KeyBalance
      <4>2. Key!Owed(keyShort') = 0
        BY <1>5, <1>6, <1>12, <3>2 DEF Key!Owed
      <4>3. keyReported' = keyReported + 1
        BY <1>5, <1>8, <1>12, <3>2
      <4> QED
        BY <2>1, <4>1, <4>2, <4>3
    <3>3. CASE ~keyPressed /\ ~clicked /\ keyDoubles
      <4>1. /\ Key!Balanced(0, 1, keyCertain, keyPossible + 1, keyReported)
            /\ Key!Balanced(0, 1, keyCertain + 1, keyPossible + 1, keyReported)
        BY <1>9, <3>3, KeyBalance
      <4>2. Key!Owed(keyShort') = 1
        BY <1>5, <1>6, <1>12, <3>3 DEF Key!Owed
      <4> QED
        BY <1>8, <2>1, <3>3, <4>1, <4>2
    <3> QED
      BY <3>1, <3>2, <3>3
  <2> QED
    BY <1>10, <2>2, <2>3, <2>4 DEF Key!Told
<1> QED
  BY <1>11, <1>12

LEMMA KeyTwiceStep ==
  ASSUME Key!Inv, NEW on \in BOOLEAN, NEW g \in Key!Gaps,
         Key!HeldTwice(on, g), Key!Sampled(on, g), UNCHANGED keyDoubles
  PROVE  Key!Told'
<1> DEFINE seen == Key!Capped(keyRun + g)
<1>1. g \in Nat /\ KeyHold \in Nat /\ KeyHold <= KeyOldest
  BY KeyGap, KeyAssumption
<1>2. Key!TypeOK /\ keyRun \in Nat /\ keyRun + g \in Nat
  BY <1>1 DEF Key!Inv, Key!TypeOK
<1>3. /\ keyState = "hold" /\ keyDouble = TRUE /\ keyDown /\ keyRun >= KeyHold /\ keyShort = FALSE
      /\ keyPressed = FALSE /\ keyLong = FALSE
  BY <1>2 DEF Key!HeldTwice, Key!Inv, Key!Told, Key!Known, Key!Waiting, Key!TypeOK
<1>4. /\ keyPressed' = FALSE /\ keyLong' = FALSE /\ keyDouble' = TRUE /\ keyShort' = FALSE
      /\ keyReported' = keyReported
      /\ on => keyState' = "hold"
      /\ ~on => keyState' = "released"
  BY <1>3 DEF Key!HeldTwice, Key!flags, Key!Silent
<1>5. /\ Key!Balanced(1, 0, keyCertain, keyPossible, keyReported)
      /\ keyCertain \in Nat /\ keyPossible \in Nat /\ keyReported \in Nat
  BY <1>2, <1>3 DEF Key!Inv, Key!Told, Key!Ahead, Key!Owed, Key!TypeOK
<1>6. Key!Waiting(keyState', keyDoubles', keyShort', keyPressed', keyLong', keyDouble', keyAge', keyFirst')
  BY <1>4 DEF Key!Waiting
<1>7. Key!Owed(keyShort') = 0
  BY <1>4 DEF Key!Owed
<1>8. CASE on
  <2>1. keyRun' = seen /\ keyDown' /\ keyCertain' = keyCertain /\ keyPossible' = keyPossible
    BY <1>2, <1>3, <1>8, KeySampled, Zenon
  <2>2. seen >= KeyHold
    <3>1. keyRun + g >= KeyHold
      BY <1>1, <1>2, <1>3
    <3> QED
      BY <1>1, <1>2, <3>1, KeyCapped
  <2>3. Key!Known(keyState', keyDown', keyRun', keyAge')
    BY <1>4, <1>8, <2>1, <2>2 DEF Key!Known
  <2>4. Key!Ahead(keyState', keyPressed', keyDouble') = 1
    BY <1>4, <1>8 DEF Key!Ahead
  <2> QED
    BY <1>4, <1>5, <1>6, <1>7, <2>1, <2>3, <2>4 DEF Key!Told
<1>9. CASE ~on
  <2>1. /\ keyPossible' = keyPossible + 1 /\ keyRun' = 0 /\ ~keyDown'
        /\ keyCertain' = keyCertain \/ keyCertain' = keyCertain + 1
    <3>1. on = FALSE
      BY <1>9
    <3> QED
      BY <1>2, <1>3, <3>1, KeyEnds
  <2>2. Key!Known(keyState', keyDown', keyRun', keyAge')
    BY <1>4, <1>9, <2>1 DEF Key!Known
  <2>3. Key!Ahead(keyState', keyPressed', keyDouble') = 0
    BY <1>4, <1>9 DEF Key!Ahead
  <2>4. /\ Key!Balanced(0, 0, keyCertain, keyPossible + 1, keyReported)
        /\ Key!Balanced(0, 0, keyCertain + 1, keyPossible + 1, keyReported)
    BY <1>5, KeyBalance
  <2>5. Key!Balanced(0, 0, keyCertain', keyPossible', keyReported')
    BY <1>4, <2>1, <2>4
  <2> QED
    BY <1>6, <1>7, <2>2, <2>3, <2>5 DEF Key!Told
<1> QED
  BY <1>8, <1>9

LEMMA KeyReleasedStep ==
  ASSUME Key!Inv, NEW on \in BOOLEAN, NEW g \in Key!Gaps,
         Key!Released(on, g), Key!Sampled(on, g), UNCHANGED keyDoubles
  PROVE  Key!Told'
<1>1. Key!TypeOK
  BY DEF Key!Inv
<1>2. keyState = "released" /\ ~keyDown /\ keyRun = 0 /\ keyShort = FALSE
  BY <1>1 DEF Key!Released, Key!Inv, Key!Told, Key!Known, Key!Waiting, Key!TypeOK
<1>3. keyState' = "idle" /\ keyShort' = FALSE /\ keyReported' = keyReported
  <2>1. Key!RaiseOne("none") \/ Key!RaiseOne("R")
    BY Zenon DEF Key!Released
  <2> QED
    BY <1>1, <1>2, <2>1, KeyWorth DEF Key!Released, Key!flags
<1>4. keyRun' = 0 /\ keyCertain' = keyCertain /\ keyPossible' = keyPossible
  BY <1>1, <1>2, KeySampled, Zenon
<1>5. Key!Known(keyState', keyDown', keyRun', keyAge')
  BY <1>3, <1>4 DEF Key!Known
<1>6. Key!Waiting(keyState', keyDoubles', keyShort', keyPressed', keyLong', keyDouble', keyAge', keyFirst')
  BY <1>3 DEF Key!Waiting
<1>7. /\ Key!Ahead(keyState', keyPressed', keyDouble') = 0 /\ Key!Ahead(keyState, keyPressed, keyDouble) = 0
      /\ Key!Owed(keyShort') = Key!Owed(keyShort)
  BY <1>2, <1>3 DEF Key!Ahead, Key!Owed
<1>8. Key!Balanced(0, Key!Owed(keyShort), keyCertain, keyPossible, keyReported)
  BY <1>7 DEF Key!Inv, Key!Told
<1> QED
  BY <1>3, <1>4, <1>5, <1>6, <1>7, <1>8 DEF Key!Told


\* What is heard of the events a scan raises.
LEMMA KeyHears ==
  /\ \A e1, e2, e3 : Key!Raise(e1, e2, e3)
       => keyTold' = Key!Hears(Key!Hears(Key!Hears(keyTold, e1), e2), e3)
  /\ \A h : Key!Hears(h, "none") = h
  /\ \A h \in {"rest", "long"} : Key!Hears(h, "P") = "pressed" /\ Key!Hears(h, "D") = "double"
  /\ \A h \in {"pressed", "double"} : Key!Hears(h, "R") = "rest"
  /\ \A h \in {"pressed", "long"} : Key!Hears(h, "r") = h
  /\ Key!Hears("pressed", "L") = "long"
<1>1. \A h : Key!Hears(h, "none") = h
  BY DEF Key!Hears
<1>2. \A h \in {"rest", "long"} : Key!Hears(h, "P") = "pressed" /\ Key!Hears(h, "D") = "double"
  BY DEF Key!Hears
<1>3. \A h \in {"pressed", "double"} : Key!Hears(h, "R") = "rest"
  BY DEF Key!Hears
<1>4. \A h \in {"pressed", "long"} : Key!Hears(h, "r") = h
  BY DEF Key!Hears
<1>5. Key!Hears("pressed", "L") = "long"
  BY DEF Key!Hears
<1>6. \A e1, e2, e3 : Key!Raise(e1, e2, e3)
        => keyTold' = Key!Hears(Key!Hears(Key!Hears(keyTold, e1), e2), e3)
  BY DEF Key!Raise
<1> QED
  BY <1>1, <1>2, <1>3, <1>4, <1>5, <1>6

\* Each state of the key tells what follows what was told before.
LEMMA KeyHeardIdle ==
  ASSUME Key!InOrder, NEW on \in BOOLEAN, NEW g \in Key!Gaps, Key!Idle(on, g)
  PROVE  Key!Heard(keyState', keyPressed', keyLong', keyDouble', keyAge', keyTold')
<1>1. keyState = "idle" /\ keyTold \in {"rest", "long"}
  BY DEF Key!Idle, Key!InOrder, Key!Heard
<1>2. keyState' \in {"idle", "pressed"}
  BY <1>1 DEF Key!Idle
<1>3. Key!Raise("P", "R", "none") \/ Key!Raise("none", "none", "none")
  BY Zenon DEF Key!Idle
<1>4. keyTold' \in {"rest", "long"}
  BY <1>1, <1>3, KeyHears
<1> QED
  BY <1>2, <1>4 DEF Key!Heard

LEMMA KeyHeardPressed ==
  ASSUME Key!InOrder, NEW on \in BOOLEAN, NEW g \in Key!Gaps, Key!Pressed(on, g)
  PROVE  Key!Heard(keyState', keyPressed', keyLong', keyDouble', keyAge', keyTold')
<1> DEFINE aged == Key!Capped(keyAge + g)
           second == keyDoubles /\ keyShort /\ keyFirst - keyAge < KeyDouble
<1>1. /\ keyState = "pressed" /\ keyTold \in {"rest", "long"} /\ keyAge \in Nat
      /\ keyPressed = FALSE /\ keyLong = FALSE /\ keyAge < KeyHold
  BY DEF Key!Pressed, Key!InOrder, Key!Heard, Key!Inv, Key!TypeOK, Key!Told, Key!Waiting, Key!Known
<1>2. keyPressed' = FALSE /\ keyLong' = FALSE /\ keyAge' = aged
  BY <1>1 DEF Key!Pressed
<1>3. CASE keyState' \in {"idle", "pressed"}
  <2>1. ~(on /\ ~(keyAge + g < KeyHold))
    <3>1. on /\ ~(keyAge + g < KeyHold) => keyState' = "hold"
      BY Zenon DEF Key!Pressed
    <3> QED
      BY <1>3, <3>1
  <2>2. keyTold' = keyTold
    BY <2>1, Zenon DEF Key!Pressed, Key!Silent
  <2> QED
    BY <1>1, <1>3, <2>2 DEF Key!Heard
<1>4. CASE keyState' \notin {"idle", "pressed"}
  <2>1. on /\ ~(keyAge + g < KeyHold)
    BY <1>1, <1>4 DEF Key!Pressed
  <2>2. keyState' = "hold" /\ keyDouble' = second /\ Key!RaiseOne(IF second THEN "D" ELSE "none")
    BY <2>1, Zenon DEF Key!Pressed
  <2>3. aged \in Nat /\ aged + KeyMaxGap < KeyLong
    <3>1. g \in Nat /\ g <= KeyMaxGap /\ KeyMaxGap \in Nat /\ KeyHold \in Nat /\ KeyLong \in Nat
      BY KeyGap, KeyAssumption
    <3>2. aged \in Nat /\ aged <= keyAge + g
      BY <1>1, <3>1, KeyCapped
    <3> QED
      BY <1>1, <3>1, <3>2, ScansInTime
  <2> HIDE DEF second, aged
  <2>4. CASE second
    <3>1. keyTold' = "double"
      BY <1>1, <2>2, <2>4, KeyHears DEF Key!RaiseOne
    <3> QED
      BY <2>2, <2>4, <3>1 DEF Key!Heard
  <2>5. CASE ~second
    <3>1. keyTold' = keyTold
      BY <2>2, <2>5, KeyHears DEF Key!RaiseOne
    <3>2. keyDouble' = FALSE
      BY <2>2, <2>5 DEF second
    <3>3. Key!Heard("hold", FALSE, FALSE, FALSE, aged, keyTold)
      BY <1>1, <2>3 DEF Key!Heard
    <3> QED
      BY <1>2, <2>2, <3>1, <3>2, <3>3
  <2> QED
    BY <2>4, <2>5
<1> QED
  BY <1>3, <1>4

LEMMA KeyHeardHeld ==
  ASSUME Key!InOrder, NEW on \in BOOLEAN, NEW g \in Key!Gaps, Key!Held(on, g)
  PROVE  Key!Heard(keyState', keyPressed', keyLong', keyDouble', keyAge', keyTold')
<1> DEFINE time == Key!Capped(keyAge + g)
           clicked == Key!Clicked(time)
           event == Key!Becomes(time)
           again == IF Key!Repeats(on, time) THEN "r" ELSE "none"
           late == IF ~on /\ ~clicked /\ ~keyDoubles THEN "P" ELSE "none"
<1>1. /\ g \in Nat /\ g <= KeyMaxGap /\ KeyMaxGap \in Nat /\ KeyDouble \in Nat /\ KeyLong \in Nat
      /\ KeyDouble < KeyLong
  BY KeyGap, KeyAssumption
<1>2. /\ keyState = "hold" /\ keyDouble = FALSE /\ keyAge \in Nat /\ keyAge + g \in Nat
      /\ keyPressed \in BOOLEAN /\ keyLong \in BOOLEAN /\ keyDoubles \in BOOLEAN /\ keyCount \in Nat
      /\ keyShort = FALSE
  BY <1>1 DEF Key!Held, Key!InOrder, Key!Inv, Key!TypeOK, Key!Told, Key!Waiting
<1>3. time \in Nat /\ time <= keyAge + g
  BY <1>2, KeyCapped
<1>4. /\ keyLong => keyPressed /\ keyTold = "long"
      /\ ~keyLong /\ keyPressed => keyTold = "pressed"
      /\ ~keyLong /\ ~keyPressed => keyTold \in {"rest", "long"} /\ keyAge + KeyMaxGap < KeyLong
  BY <1>2 DEF Key!InOrder, Key!Heard
<1>5. /\ clicked = (keyPressed \/ (time >= KeyDouble /\ time < KeyLong)) /\ clicked \in BOOLEAN
      /\ event = IF time >= KeyLong /\ ~keyLong THEN "L"
                 ELSE IF time < KeyLong /\ time >= KeyDouble /\ ~keyPressed THEN "P" ELSE "none"
  BY <1>1, <1>2, <1>3 DEF Key!Clicked, Key!Becomes
<1>6. /\ keyPressed' = clicked /\ keyDouble' = FALSE /\ keyAge' = time
      /\ keyLong' = (keyLong \/ time >= KeyLong)
      /\ on => keyState' = "hold"
      /\ ~on /\ ~clicked /\ keyDoubles => keyState' = "idle"
      /\ ~on /\ (clicked \/ ~keyDoubles) => keyState' = "released"
  BY <1>2, <1>5 DEF Key!Held
<1>7. keyTold' = Key!Hears(Key!Hears(Key!Hears(keyTold, event), again), late)
  <2>1. Key!Raise(event, again, late)
    BY Zenon DEF Key!Held
  <2> HIDE DEF event, again, late
  <2> QED
    BY <2>1, KeyHears
<1>8. again \in {"none", "r"}
  OBVIOUS
<1>9. CASE clicked
  <2>1. late = "none"
    BY <1>9
  <2>2. Key!Hears(keyTold, event) = IF keyLong \/ time >= KeyLong THEN "long" ELSE "pressed"
    <3>1. CASE keyLong
      <4>1. event = "none"
        BY <1>4, <1>5, <3>1
      <4> QED
        BY <1>4, <3>1, <4>1, KeyHears
    <3>2. CASE ~keyLong /\ keyPressed
      <4>1. event = IF time >= KeyLong THEN "L" ELSE "none"
        BY <1>5, <3>2
      <4> HIDE DEF event, time
      <4> QED
        BY <1>4, <3>2, <4>1, KeyHears
    <3>3. CASE ~keyLong /\ ~keyPressed
      <4>1. time >= KeyDouble /\ time < KeyLong
        BY <1>5, <1>9, <3>3
      <4>2. event = "P" /\ ~(time >= KeyLong)
        BY <1>1, <1>3, <1>5, <3>3, <4>1
      <4> HIDE DEF event, time
      <4> QED
        BY <1>4, <3>3, <4>2, KeyHears
    <3> QED
      BY <1>2, <3>1, <3>2, <3>3
  <2> HIDE DEF event, again, late, time
  <2>3. keyTold' = IF keyLong \/ time >= KeyLong THEN "long" ELSE "pressed"
    BY <1>7, <1>8, <2>1, <2>2, KeyHears
  <2>4. keyTold' = IF keyLong' THEN "long" ELSE "pressed"
    BY <1>6, <2>3
  <2>5. keyLong' \in BOOLEAN /\ keyPressed' = TRUE /\ keyState' \in {"hold", "released"}
    BY <1>2, <1>5, <1>6, <1>9
  <2> QED
    BY <1>6, <2>4, <2>5 DEF Key!Heard
<1>10. CASE ~clicked
  <2>1. ~keyPressed /\ ~keyLong /\ keyTold \in {"rest", "long"} /\ keyAge + KeyMaxGap < KeyLong
    BY <1>4, <1>5, <1>10
  <2>2. time < KeyLong /\ time < KeyDouble
    BY <1>1, <1>2, <1>3, <1>5, <1>10, <2>1
  <2>3. event = "none"
    BY <1>1, <1>3, <1>5, <2>2
  <2>4. again = "none"
    <3>1. KeyDelay \in Nat /\ KeyPeriod * keyCount \in Nat /\ KeyDouble <= KeyDelay
      BY <1>2, KeyAssumption
    <3>2. ~(time >= KeyDelay + KeyPeriod * keyCount)
      BY <1>1, <1>3, <2>2, <3>1
    <3> QED
      BY <3>2 DEF Key!Repeats
  <2>5. keyLong' = FALSE /\ keyPressed' = FALSE
    BY <1>1, <1>3, <1>5, <1>6, <1>10, <2>1, <2>2
  <2>6. keyTold' = IF late = "P" THEN "pressed" ELSE keyTold
    <3> HIDE DEF event, again, time
    <3>1. late \in {"P", "none"}
      OBVIOUS
    <3> HIDE DEF late
    <3> QED
      BY <1>7, <2>1, <2>3, <2>4, <3>1, KeyHears
  <2>7. CASE on
    <3>1. keyTold' = keyTold /\ keyState' = "hold"
      BY <1>6, <2>6, <2>7
    <3>2. Key!Heard("hold", FALSE, FALSE, FALSE, time, keyTold)
      <4>1. time + KeyMaxGap < KeyLong
        BY <1>1, <1>3, <2>2, ScansInTime
      <4> QED
        BY <2>1, <4>1 DEF Key!Heard
    <3> QED
      BY <1>6, <2>5, <3>1, <3>2
  <2>8. CASE ~on /\ keyDoubles
    BY <1>6, <1>10, <2>1, <2>6, <2>8 DEF Key!Heard
  <2>9. CASE ~on /\ ~keyDoubles
    BY <1>6, <1>10, <2>5, <2>6, <2>9 DEF Key!Heard
  <2> QED
    BY <1>2, <2>7, <2>8, <2>9
<1> QED
  BY <1>5, <1>9, <1>10

LEMMA KeyHeardReleased ==
  ASSUME Key!InOrder, NEW on \in BOOLEAN, NEW g \in Key!Gaps,
         Key!HeldTwice(on, g) \/ Key!Released(on, g)
  PROVE  Key!Heard(keyState', keyPressed', keyLong', keyDouble', keyAge', keyTold')
<1>1. Key!TypeOK
  BY DEF Key!InOrder, Key!Inv
<1>2. CASE Key!HeldTwice(on, g)
  <2>1. keyState = "hold" /\ keyDouble = TRUE /\ keyLong = FALSE /\ keyTold = "double"
    BY <1>1, <1>2 DEF Key!HeldTwice, Key!InOrder, Key!Inv, Key!Told, Key!Waiting, Key!Heard, Key!TypeOK
  <2>2. keyState' \in {"hold", "released"} /\ keyDouble' = TRUE /\ keyLong' = FALSE /\ keyTold' = "double"
    BY <1>2, <2>1 DEF Key!HeldTwice, Key!flags, Key!Silent
  <2> QED
    BY <2>2 DEF Key!Heard
<1>3. CASE Key!Released(on, g)
  <2>1. keyState' = "idle" /\ Key!RaiseOne(IF keyLong THEN "none" ELSE "R")
    BY <1>3 DEF Key!Released
  <2>2. keyTold \in IF keyLong THEN {"long"} ELSE {"pressed", "double"}
    BY <1>3 DEF Key!Released, Key!InOrder, Key!Heard
  <2>3. keyTold' \in {"rest", "long"}
    BY <2>1, <2>2, KeyHears DEF Key!RaiseOne
  <2> QED
    BY <2>1, <2>3 DEF Key!Heard
<1> QED
  BY <1>2, <1>3

\* A scan keeps what is known of the key, however late it is.
LEMMA KeyKept == ASSUME Key!Inv, [Key!Next]_Key!vars PROVE Key!Inv'
<1>1. CASE UNCHANGED Key!vars
  BY <1>1, Zenon DEF Key!vars, Key!Inv, Key!TypeOK, Key!Told
<1>2. CASE Key!Next
  <2>1. PICK on \in BOOLEAN, g \in Key!Gaps :
          Key!CheckKeyState(on, g) /\ Key!Sampled(on, g) /\ UNCHANGED keyDoubles
    BY <1>2, Zenon DEF Key!Next, Key!Scan
  <2>2. Key!TypeOK'
    BY <2>1, KeyTypes DEF Key!Inv
  <2>3. Key!Told'
    BY <2>1, KeyIdleStep, KeyPressedStep, KeyHeldStep, KeyTwiceStep, KeyReleasedStep
      DEF Key!CheckKeyState
  <2> QED
    BY <2>2, <2>3 DEF Key!Inv
<1> QED
  BY <1>1, <1>2

LEMMA KeyOrderKept == ASSUME Key!InOrder, [Key!Next]_Key!vars PROVE Key!InOrder'
<1>1. Key!Inv'
  BY KeyKept DEF Key!InOrder
<1>2. Key!Heard(keyState', keyPressed', keyLong', keyDouble', keyAge', keyTold')
  <2>1. CASE UNCHANGED Key!vars
    BY <2>1, Zenon DEF Key!vars, Key!InOrder
  <2>2. CASE Key!Next
    <3>1. PICK on \in BOOLEAN, g \in Key!Gaps : Key!CheckKeyState(on, g)
      BY <2>2, Zenon DEF Key!Next, Key!Scan
    <3> QED
      BY <3>1, KeyHeardIdle, KeyHeardPressed, KeyHeardHeld, KeyHeardReleased DEF Key!CheckKeyState
  <2> QED
    BY <2>1, <2>2
<1> QED
  BY <1>1, <1>2 DEF Key!InOrder

\* However late the scans come, every press that lasts is told of and once.
THEOREM PressesCounted == Key!Spec => []Key!EachPressOnce
<1>1. Key!Init => Key!Inv
  BY KeyInit DEF Key!InOrder
<1>2. Key!Inv => Key!EachPressOnce
  <2> SUFFICES ASSUME Key!Inv, keyState = "idle", keyShort = FALSE
               PROVE  keyCertain <= keyReported /\ keyReported <= keyPossible
    BY DEF Key!EachPressOnce, Key!Inv, Key!TypeOK
  <2>1. Key!Balanced(0, 0, keyCertain, keyPossible, keyReported)
    BY DEF Key!Inv, Key!Told, Key!Ahead, Key!Owed
  <2> QED
    BY <2>1 DEF Key!Balanced, Key!Inv, Key!TypeOK
<1> QED
  BY <1>1, <1>2, KeyKept, PTL DEF Key!Spec

\* And when they come in time for the press to be told of before the long press, the events of a
\* key follow each other as they should.
THEOREM EventsFollow == Key!Spec => [](Key!EventsInOrder /\ Key!EachPressOnce)
<1>1. Key!InOrder => Key!EventsInOrder
  BY DEF Key!InOrder, Key!Inv, Key!TypeOK, Key!Heard, Key!EventsInOrder
<1> QED
  BY <1>1, KeyInit, KeyOrderKept, PressesCounted, PTL DEF Key!Spec

-----------------------------------------------------------------------------
(* All of them.                                                              *)

\* A behaviour of all is one of each.
LEMMA DevicesAreEach ==
  DevicesSpec => Nor!Spec /\ Record!Spec /\ Edges!Spec /\ Valves!Spec /\ Key!Spec
<1>1. DevicesInit => Nor!Init /\ Record!Init /\ Edges!Init /\ Valves!Init /\ Key!Init
  BY DEF DevicesInit
<1>2. [DevicesNext]_deviceVars =>
        /\ [Nor!Next]_Nor!vars /\ [Record!Next]_Record!vars
        /\ [Edges!Next]_Edges!vars /\ [Valves!Next]_Valves!vars /\ [Key!Next]_Key!vars
  <2> SUFFICES ASSUME [DevicesNext]_deviceVars
               PROVE  /\ [Nor!Next]_Nor!vars /\ [Record!Next]_Record!vars
                      /\ [Edges!Next]_Edges!vars /\ [Valves!Next]_Valves!vars /\ [Key!Next]_Key!vars
    OBVIOUS
  <2>1. /\ UNCHANGED norVars => UNCHANGED Nor!vars
        /\ UNCHANGED recVars => UNCHANGED Record!vars
    BY DEF norVars, recVars, Nor!vars, Nor!driver, Nor!device, Record!vars
  <2>2. /\ UNCHANGED pulseVars => UNCHANGED Edges!vars
        /\ UNCHANGED valveVars => UNCHANGED Valves!vars
        /\ UNCHANGED keyVars => UNCHANGED Key!vars
    BY DEF pulseVars, valveVars, keyVars, Edges!vars, Edges!interrupt, Valves!vars, Key!vars
  <2> QED
    BY <2>1, <2>2 DEF DevicesNext, deviceVars
<1> QED
  BY <1>1, <1>2, PTL DEF DevicesSpec, Nor!Spec, Record!Spec, Edges!Spec, Valves!Spec, Key!Spec

\* Whatever the devices do side by side, what the drivers of the two flashes answer is true: what
\* was read, erased, programmed or recorded is so, and an erase left alone is remembered.
THEOREM AnswersHold == DevicesSpec => []AnswersAreTrue
<1>1. DevicesSpec => []((Nor!AnswersAreTrue /\ Nor!EraseRemembered)
                         /\ (Record!EndTells /\ Record!WrittenStays))
  BY DevicesAreEach, CallsAreTrue, RecordsHold, PTL
<1>2. (Nor!AnswersAreTrue /\ Nor!EraseRemembered) /\ (Record!EndTells /\ Record!WrittenStays)
        => AnswersAreTrue
  BY DEF AnswersAreTrue
<1> QED
  BY <1>1, <1>2, PTL

\* A measurement that is handed out is about edges of one signal, however many interrupts come
\* while it is made and however often the sensor is reset.
THEOREM MeasurementsHold == DevicesSpec => []Consistent
<1>1. Edges!Consistent => Consistent
  BY DEF Consistent
<1> QED
  BY <1>1, DevicesAreEach, MeasurementsAreTrue, PTL

\* A channel is switched when it was asked for, for any number of channels, queues and delays:
\* the one trigger of the task serves them all.
THEOREM ValvesHold == DevicesSpec => []ValvesInTime
<1>1. Valves!NeverLate /\ Valves!QueueBehindDelay /\ Valves!AsAsked => ValvesInTime
  BY DEF ValvesInTime
<1> QED
  BY <1>1, DevicesAreEach, CommandsInTime, PTL

\* The events of a key follow each other, and every press that lasts is told of once, for all times
\* the setters take and scans that are in time.
THEOREM PressesHold == DevicesSpec => []PressesTold
<1>1. Key!EventsInOrder /\ Key!EachPressOnce => PressesTold
  BY DEF PressesTold
<1> QED
  BY <1>1, DevicesAreEach, EventsFollow, PTL

-----------------------------------------------------------------------------
(* The receivers of a remote control.                                        *)

CONSTANTS RcProtocol, RcFrames, RcPause, RcLate, RcQueue, RcMaxPeriod, RcFaults

VARIABLES
  rcLeft, rcFrame, rcRest, rcQuiet, rcRx, rcBuf, rcSince, rcAge, rcFailsafe, rcGood, rcRun,
  rcTaken, rcFaulted

Rc == INSTANCE Receiver WITH
  Protocol <- RcProtocol, Frames <- RcFrames, Pause <- RcPause, Late <- RcLate,
  Queue <- RcQueue, MaxPeriod <- RcMaxPeriod, Faults <- RcFaults,
  left <- rcLeft, frame <- rcFrame, rest <- rcRest, quiet <- rcQuiet, rx <- rcRx, buf <- rcBuf,
  since <- rcSince, age <- rcAge, failsafe <- rcFailsafe, good <- rcGood, run <- rcRun,
  taken <- rcTaken, faults <- rcFaulted

\* One of the receivers, with a transmitter that sends frames as the protocol has them and a task
\* that reads in time; only S.BUS looks for a start byte in what is left of a bad frame, so that
\* it needs no pause.
Resyncs == RcProtocol = "sbus"
InUse ==
  /\ RcProtocol \in {"sbus", "sumd", "ibus", "crsf", "spektrum"}
  /\ \A f \in RcFrames : Rc!IsFrame(f)
  /\ RcPause \in Nat /\ RcLate \in Nat /\ Rc!ReadInTime
  /\ Rc!PauseIsSeen \/ Resyncs

Gap == Rc!P.gap

LEMMA GapIsSeen ==
  ASSUME InUse
  PROVE  Gap \in Nat /\ Gap > 0 /\ RcLate + 1 < Gap /\ RcPause \in Nat /\ RcLate \in Nat
         /\ (Rc!PauseIsSeen => Gap + RcLate <= RcPause)
<1>1. Gap \in Nat /\ Gap > 0
  BY DEF InUse, Gap, Rc!P, Rc!Receivers, Rc!Sbus, Rc!Sumd, Rc!Ibus, Rc!Crsf, Rc!Spektrum
<1>2. RcLate + 1 < Gap /\ RcPause \in Nat /\ RcLate \in Nat
  BY DEF InUse, Rc!ReadInTime, Gap
<1>3. Rc!PauseIsSeen => RcPause >= Gap + RcLate
  BY DEF Rc!PauseIsSeen, Gap
<1> QED
  BY <1>1, <1>2, <1>3

\* The frames of S.BUS: four bytes in the model, of which the first is a start byte.
LEMMA SbusIs ==
  ASSUME InUse, Resyncs
  PROVE  /\ \A w : Rc!IsWrong(w) <=> Len(w) <= 1 /\ Rc!Last(w) \notin Rc!P.heads[Len(w)]
         /\ Rc!P.heads[1] = {1} /\ Rc!P.wrong = "drop" /\ Rc!P.bad = "resync"
         /\ \A w : Rc!IsFull(w) <=> Len(w) >= 0 /\ Len(w) >= 4
<1>1. Rc!P = Rc!Sbus
  BY DEF Resyncs, Rc!P, Rc!Receivers
<1>2. /\ Rc!P.heads = <<{1}>> /\ Rc!P.at = 0 /\ Rc!P.more = 4 /\ Rc!P.wrong = "drop"
      /\ Rc!P.bad = "resync"
  BY <1>1 DEF Rc!Sbus
<1>3. Len(Rc!P.heads) = 1 /\ Rc!P.heads[1] = {1}
  BY <1>2
<1>4. \A w : Rc!IsWrong(w) <=> Len(w) <= 1 /\ Rc!Last(w) \notin Rc!P.heads[Len(w)]
  <2> TAKE w
  <2>1. Rc!IsWrong(w) <=> Len(w) <= Len(Rc!P.heads) /\ Rc!Last(w) \notin Rc!P.heads[Len(w)]
    BY DEF Rc!IsWrong
  <2> QED
    BY <1>3, <2>1
<1>5. \A w : Rc!IsFull(w) <=> Len(w) >= 0 /\ Len(w) >= 4
  BY <1>2 DEF Rc!IsFull
<1> QED
  BY <1>2, <1>3, <1>4, <1>5

Arrived == [v : Nat, of : RcFrames \cup {<<>>}, wait : Nat]
RcTypes ==
  /\ rcLeft \in Seq(Nat) /\ rcFrame \in RcFrames \cup {<<>>}
  /\ rcQuiet \in Nat /\ rcSince \in Nat
  /\ rcRx \in Seq(Arrived) /\ rcRun \in Nat

\* What was put last waits as long as the line is quiet, and nothing waits longer than the task
\* is late; when nothing does, what was read last was read that long ago.
Clock ==
  /\ \A k \in 1..Len(rcRx) : rcQuiet <= rcRx[k].wait /\ rcRx[k].wait <= RcLate
  /\ rcRx = <<>> => rcSince >= Gap \/ rcSince + RcLate >= rcQuiet

\* The receiver has r bytes of the frame.  Behind a pause it has only those, or the pause is behind
\* what it has; without one they are the last it has, unless the end of a frame was seen in them.
EndsIn(b, f, r) == Len(b) >= r /\ \A j \in 1..r : b[Len(b) - r + j] = f[j]
ReadSoFar(f, r) ==
  IF Rc!PauseIsSeen
  THEN r >= 0 /\ IF r = 0 THEN rcSince >= Gap ELSE rcBuf = SubSeq(f, 1, r)
  ELSE r >= 0 /\ rcRun >= r => EndsIn(rcBuf, f, r)

\* The next k bytes are those behind the r of the frame the receiver has, or behind the -r that are
\* before the frame; what comes next comes in time.
Has(f, r, k) ==
  /\ f \in RcFrames /\ r \in Int /\ r + k <= Len(f)
  /\ \A j \in 1..k : r + j > 0 => rcRx[j].v = f[r + j]
  /\ r > 0 /\ rcRx # <<>> => rcSince <= rcRx[1].wait + 1
  /\ ReadSoFar(f, r)

\* The last byte of a frame is behind the others.
Marked == \A k \in 1..Len(rcRx) : rcRx[k].of # <<>> => Has(rcRx[k].of, Len(rcRx[k].of) - k, k)

\* A frame to which nothing has happened is in part read, in part in the buffer and in part to come.
HasRead == Len(rcFrame) - Len(rcLeft) - Len(rcRx)
OnItsWay ==
  rcFrame # <<>> /\ rcLeft # <<>> =>
    /\ Has(rcFrame, HasRead, Len(rcRx))
    /\ Len(rcLeft) <= Len(rcFrame)
    /\ \A j \in 1..Len(rcLeft) : rcLeft[j] = rcFrame[HasRead + Len(rcRx) + j]
    /\ Len(rcLeft) < Len(rcFrame) => rcQuiet <= 1
    /\ HasRead > 0 /\ rcRx = <<>> => rcSince <= rcQuiet

\* What S.BUS has begins with a start byte and is not full.
Begun == Resyncs => rcBuf \in Seq(Nat) /\ Len(rcBuf) < 4 /\ (rcBuf # <<>> => rcBuf[1] = 1)

RcInv == RcTypes /\ Clock /\ Marked /\ OnItsWay /\ Begun

LEMMA RcInit == InUse /\ Rc!Init => RcInv
<1> SUFFICES ASSUME InUse, Rc!Init PROVE RcInv
  OBVIOUS
<1>1. /\ rcLeft = <<>> /\ rcFrame = <<>> /\ rcQuiet = RcPause + 1 /\ rcRx = <<>> /\ rcSince = Gap
      /\ rcBuf = <<>> /\ rcRun = 0
  BY DEF Rc!Init, Rc!Quiet, Gap
<1>2. RcTypes
  BY <1>1, GapIsSeen DEF RcTypes
<1>3. Clock
  BY <1>1, GapIsSeen DEF Clock
<1>4. Marked /\ OnItsWay /\ Begun
  BY <1>1 DEF Marked, OnItsWay, Begun
<1> QED
  BY <1>2, <1>3, <1>4 DEF RcInv

\* What is read of the frames.
LEMMA FramesAre ==
  ASSUME InUse, NEW f \in RcFrames
  PROVE  f \in Seq(Nat) /\ f # <<>> /\ Len(f) \in Nat /\ Len(f) > 0
         /\ \A j \in 1..Len(f) : f[j] \in Nat
<1>1. f \in Seq(Rc!Byte) /\ f # <<>>
  BY DEF InUse, Rc!IsFrame
<1> QED
  BY <1>1 DEF Rc!Byte

\* A step that appends bytes leaves what was there as it was.
LEMMA HasMore ==
  ASSUME RcTypes, NEW f, NEW r, NEW k \in Nat, Has(f, r, k), k <= Len(rcRx),
         UNCHANGED <<rcBuf, rcSince, rcRun>>,
         \/ UNCHANGED rcRx
         \/ \E e \in Arrived : rcRx' = Append(rcRx, e),
         rcRx = <<>> /\ r > 0 => rcSince <= 1
  PROVE  Has(f, r, k)'
<1>1. CASE UNCHANGED rcRx
  BY <1>1 DEF Has, ReadSoFar
<1>2. ASSUME NEW e \in Arrived, rcRx' = Append(rcRx, e) PROVE Has(f, r, k)'
  <2>1. /\ \A j \in 1..Len(rcRx) : rcRx'[j] = rcRx[j]
        /\ rcRx = <<>> => rcRx'[1] = e
        /\ rcRx # <<>> => rcRx'[1] = rcRx[1]
        /\ Len(rcRx) \in Nat
    BY <1>2 DEF RcTypes
  <2>2. \A j \in 1..k : r + j > 0 => rcRx'[j].v = f[r + j]
    <3>1. \A j \in 1..k : j \in 1..Len(rcRx)
      BY <2>1
    <3> QED
      BY <2>1, <3>1 DEF Has
  <2>3. r > 0 => rcSince <= rcRx'[1].wait + 1
    <3>1. e.wait \in Nat /\ rcSince \in Nat
      BY DEF Arrived, RcTypes
    <3>2. rcRx = <<>> /\ r > 0 => rcSince <= rcRx'[1].wait + 1
      BY <2>1, <3>1
    <3>3. rcRx # <<>> /\ r > 0 => rcSince <= rcRx'[1].wait + 1
      BY <2>1 DEF Has
    <3> QED
      BY <3>2, <3>3
  <2>4. ReadSoFar(f, r)'
    BY DEF Has, ReadSoFar
  <2> QED
    BY <2>2, <2>3, <2>4 DEF Has
<1> QED
  BY <1>1, <1>2

\* All bytes wait on.
LEMMA WaitingTick ==
  ASSUME rcRx \in Seq(Arrived),
         rcRx' = [j \in DOMAIN rcRx |-> [rcRx[j] EXCEPT !.wait = @ + 1]]
  PROVE  /\ rcRx' \in Seq(Arrived) /\ Len(rcRx) \in Nat /\ Len(rcRx') = Len(rcRx)
         /\ \A j \in 1..Len(rcRx) : /\ rcRx'[j].v = rcRx[j].v /\ rcRx'[j].of = rcRx[j].of
                                   /\ rcRx'[j].wait = rcRx[j].wait + 1 /\ rcRx[j].wait \in Nat
         /\ rcRx' # <<>> => rcRx # <<>> /\ 1 \in 1..Len(rcRx) /\ rcRx[1].wait \in Nat
<1>1. DOMAIN rcRx = 1..Len(rcRx) /\ Len(rcRx) \in Nat /\ \A j \in 1..Len(rcRx) : rcRx[j] \in Arrived
  OBVIOUS
<1>2. \A e \in Arrived : /\ [e EXCEPT !.wait = @ + 1] \in Arrived /\ e.wait \in Nat
                        /\ [e EXCEPT !.wait = @ + 1].v = e.v
                        /\ [e EXCEPT !.wait = @ + 1].of = e.of
                        /\ [e EXCEPT !.wait = @ + 1].wait = e.wait + 1
  <2> TAKE e \in Arrived
  <2> DEFINE w == e.wait + 1
             r == [e EXCEPT !.wait = w]
  <2>1. e.v \in Nat /\ e.of \in RcFrames \cup {<<>>} /\ e.wait \in Nat
    BY DEF Arrived
  <2>2. w \in Nat /\ e = [v |-> e.v, of |-> e.of, wait |-> e.wait]
    BY <2>1 DEF Arrived
  <2> HIDE DEF w
  <2>3. r = [v |-> e.v, of |-> e.of, wait |-> w]
    BY <2>2
  <2>4. r \in Arrived /\ r.v = e.v /\ r.of = e.of /\ r.wait = w
    BY <2>1, <2>2, <2>3 DEF Arrived
  <2>5. [e EXCEPT !.wait = @ + 1] = r
    BY DEF w
  <2> QED
    BY <2>1, <2>4, <2>5 DEF w
<1> DEFINE q == [j \in 1..Len(rcRx) |-> [rcRx[j] EXCEPT !.wait = @ + 1]]
           n == Len(rcRx)
<1>3. rcRx' = q
  BY <1>1
<1>4. \A j \in 1..n : q[j] = [rcRx[j] EXCEPT !.wait = @ + 1]
  OBVIOUS
<1>5. q \in [1..n -> Arrived]
  BY <1>1, <1>2
<1> HIDE DEF q
<1>6. q \in Seq(Arrived) /\ Len(q) = n
  BY <1>1, <1>5, IsASeq
<1>7. \A j \in 1..n : /\ q[j].v = rcRx[j].v /\ q[j].of = rcRx[j].of
                     /\ q[j].wait = rcRx[j].wait + 1 /\ rcRx[j].wait \in Nat
  BY <1>1, <1>2, <1>4
<1>8. q # <<>> => n > 0
  BY <1>6, EmptySeq
<1>9. n > 0 => rcRx # <<>> /\ 1 \in 1..n
  BY <1>1
<1> QED
  BY <1>1, <1>3, <1>6, <1>7, <1>8, <1>9

\* The time passes for all of it.
LEMMA HasTick ==
  ASSUME InUse, RcTypes, NEW f, NEW r, NEW k \in Nat, Has(f, r, k), k <= Len(rcRx),
         UNCHANGED <<rcBuf, rcRun>>, rcSince' = Rc!Least(rcSince + 1, Gap),
         rcRx' = [j \in DOMAIN rcRx |-> [rcRx[j] EXCEPT !.wait = @ + 1]]
  PROVE  Has(f, r, k)'
<1>1. /\ \A j \in 1..Len(rcRx) : rcRx'[j].v = rcRx[j].v /\ rcRx'[j].wait = rcRx[j].wait + 1
      /\ rcRx' # <<>> => rcRx # <<>> /\ 1 \in 1..Len(rcRx) /\ rcRx[1].wait \in Nat
      /\ Len(rcRx) \in Nat
  BY WaitingTick DEF RcTypes
<1>2. rcSince \in Nat /\ rcSince' <= rcSince + 1 /\ (rcSince >= Gap => rcSince' >= Gap)
      /\ rcSince' \in Nat
  BY GapIsSeen DEF RcTypes, Rc!Least
<1>3. \A j \in 1..k : r + j > 0 => rcRx'[j].v = f[r + j]
  BY <1>1 DEF Has
<1>4. ASSUME r > 0, rcRx' # <<>> PROVE rcSince' <= rcRx'[1].wait + 1
  <2>1. rcRx # <<>> /\ 1 \in 1..Len(rcRx) /\ rcRx[1].wait \in Nat
    BY <1>1, <1>4
  <2>2. rcSince <= rcRx[1].wait + 1
    BY <1>4, <2>1 DEF Has
  <2>3. rcRx'[1].wait = rcRx[1].wait + 1
    BY <1>1, <2>1
  <2> QED
    BY ONLY <1>2, <2>1, <2>2, <2>3
<1>5. ReadSoFar(f, r)'
  BY <1>2 DEF Has, ReadSoFar
<1> QED
  BY <1>3, <1>4, <1>5 DEF Has

LEMMA Prefixes ==
  ASSUME NEW f \in Seq(Nat), NEW r \in Nat, r < Len(f)
  PROVE  /\ Append(SubSeq(f, 1, r), f[r + 1]) = SubSeq(f, 1, r + 1)
         /\ r = 0 => SubSeq(f, 1, r) = <<>>
         /\ r + 1 = Len(f) => SubSeq(f, 1, r + 1) = f
<1>1. Len(f) \in Nat /\ 1 \in Nat /\ r + 1 \in Nat /\ r + 1 \in 1..Len(f) /\ r + 1 <= Len(f)
  OBVIOUS
<1> DEFINE a == SubSeq(f, 1, r)
           b == SubSeq(f, 1, r + 1)
           c == Append(a, f[r + 1])
<1>2. a \in Seq(Nat) /\ Len(a) = r /\ \A j \in 1..r : a[j] = f[j]
  BY <1>1
<1>3. b \in Seq(Nat) /\ Len(b) = r + 1 /\ \A j \in 1..r + 1 : b[j] = f[j]
  BY <1>1
<1>4. f[r + 1] \in Nat
  BY <1>1
<1> HIDE DEF a, b
<1>5. c \in Seq(Nat) /\ Len(c) = r + 1 /\ c[r + 1] = f[r + 1] /\ \A j \in 1..r : c[j] = a[j]
  BY <1>2, <1>4
<1> HIDE DEF c
<1>6. \A j \in 1..r + 1 : c[j] = b[j]
  <2> TAKE j \in 1..r + 1
  <2>1. j \in 1..r \/ j = r + 1
    OBVIOUS
  <2>2. CASE j \in 1..r
    BY <1>2, <1>3, <1>5, <2>2
  <2>3. CASE j = r + 1
    BY <1>3, <1>5, <2>3
  <2> QED
    BY <2>1, <2>2, <2>3
<1>7. c = b
  BY <1>3, <1>5, <1>6
<1>8. r = 0 => a = <<>>
  BY <1>2, EmptySeq
<1>9. r + 1 = Len(f) => b = f
  BY <1>3
<1> QED
  BY <1>7, <1>8, <1>9 DEF a, b, c

\* The byte that is read next is the next one of the frame, and is read before it looks as if a
\* pause was before it.
LEMMA NextByte ==
  ASSUME InUse, RcTypes, Clock, NEW f, NEW r, NEW k \in Nat, Has(f, r, k), k > 0, k <= Len(rcRx),
         r >= 0
  PROVE  /\ f \in RcFrames /\ f \in Seq(Nat) /\ r \in Nat /\ r < Len(f)
         /\ Head(rcRx).v = f[r + 1] /\ f[r + 1] \in Nat
         /\ r > 0 => Rc!Open = rcBuf
<1>1. f \in RcFrames /\ r \in Nat /\ r < Len(f) /\ f \in Seq(Nat) /\ f[r + 1] \in Nat
  <2>1. f \in RcFrames /\ r \in Nat /\ r + k <= Len(f)
    BY DEF Has
  <2>2. f \in Seq(Nat) /\ Len(f) \in Nat /\ \A j \in 1..Len(f) : f[j] \in Nat
    BY <2>1, FramesAre
  <2> QED
    BY <2>1, <2>2
<1>2. /\ Len(rcRx) \in Nat /\ 1 \in 1..k /\ 1 \in 1..Len(rcRx) /\ rcRx # <<>>
      /\ rcRx[1] = Head(rcRx) /\ rcRx[1] \in Arrived
  BY DEF RcTypes
<1>3. Head(rcRx).v = f[r + 1]
  BY <1>1, <1>2 DEF Has
<1>4. ASSUME r > 0 PROVE Rc!Open = rcBuf
  <2>1. rcSince <= rcRx[1].wait + 1
    BY <1>2, <1>4 DEF Has
  <2>2. rcRx[1].wait <= RcLate /\ rcRx[1].wait \in Nat /\ rcSince \in Nat
    BY <1>2 DEF Clock, Arrived, RcTypes
  <2>3. ~(rcSince >= Gap)
    BY <2>1, <2>2, GapIsSeen
  <2> QED
    BY <2>3 DEF Rc!Open, Gap
<1> QED
  BY <1>1, <1>3, <1>4

\* Behind a pause the receiver then has one more of the frame, and only those.
LEMMA ReadsNext ==
  ASSUME InUse, RcTypes, Clock, NEW f, NEW r, NEW k \in Nat, Has(f, r, k), k > 0, k <= Len(rcRx),
         Rc!PauseIsSeen
  PROVE  Append(Rc!Open, Head(rcRx).v) = SubSeq(f, 1, r + 1) /\ r < Len(f) /\ r \in Nat
         /\ f \in RcFrames
<1>1. r >= 0
  BY DEF Has, ReadSoFar
<1>2. /\ f \in RcFrames /\ f \in Seq(Nat) /\ r \in Nat /\ r < Len(f) /\ Head(rcRx).v = f[r + 1]
      /\ r > 0 => Rc!Open = rcBuf
  BY <1>1, NextByte
<1>3. f \in Seq(Nat) /\ r \in Nat /\ r < Len(f)
  BY <1>2
<1>4. /\ Append(SubSeq(f, 1, r), f[r + 1]) = SubSeq(f, 1, r + 1)
      /\ r = 0 => SubSeq(f, 1, r) = <<>>
  BY <1>3, Prefixes
<1>5. Rc!Open = SubSeq(f, 1, r)
  <2>1. CASE r = 0
    <3>1. rcSince >= Gap
      BY <2>1 DEF Has, ReadSoFar
    <3>2. Rc!Open = <<>>
      BY <3>1 DEF Rc!Open, Gap
    <3> QED
      BY <1>4, <2>1, <3>2
  <2>2. CASE r # 0
    BY <1>2, <2>2 DEF Has, ReadSoFar
  <2> QED
    BY <2>1, <2>2
<1> QED
  BY <1>2, <1>4, <1>5

\* So it goes on to the byte before the last one.
LEMMA OnlyIts ==
  ASSUME InUse, RcTypes, Clock, NEW f, NEW r, NEW k \in Nat, Has(f, r, k), k > 0, k <= Len(rcRx),
         r + 1 < Len(f), Rc!Read, Rc!PauseIsSeen
  PROVE  ReadSoFar(f, r + 1)'
<1> DEFINE w == Append(Rc!Open, Head(rcRx).v)
<1>1. w = SubSeq(f, 1, r + 1) /\ r \in Nat /\ f \in RcFrames
  BY ReadsNext
<1>2. f \in Seq(Nat) /\ Len(f) \in Nat
  BY <1>1, FramesAre
<1>3. r + 1 \in 1..Len(f) - 1
  BY <1>1, <1>2
<1>4. ~Rc!IsWrong(w) /\ ~Rc!IsFull(w)
  BY <1>1, <1>3 DEF InUse, Rc!IsFrame
<1>5. IF ~Rc!IsWrong(w) /\ Rc!IsFull(w) /\ Rc!IsGood(w) THEN Rc!Process(w) ELSE Rc!Collect(w)
  BY DEF Rc!Read
<1> HIDE DEF w
<1>6. rcBuf' = w
  BY <1>4, <1>5 DEF Rc!Collect
<1> QED
  BY <1>1, <1>6 DEF ReadSoFar, Rc!PauseIsSeen

\* _resync() keeps what begins with the first start byte behind the one of the bad frame.
\* The end of four bytes.
LEMMA EndFrom ==
  ASSUME NEW w \in Seq(Nat), Len(w) = 4, NEW i \in 2..4
  PROVE  /\ SubSeq(w, i, 4) \in Seq(Nat) /\ Len(SubSeq(w, i, 4)) = 5 - i
         /\ \A j \in 1..5 - i : SubSeq(w, i, 4)[j] = w[i + j - 1]
<1> DEFINE b == SubSeq(w, i, 4)
<1>1. \A j \in i..4 : w[j] \in Nat
  <2>1. \A j \in 1..Len(w) : w[j] \in Nat
    BY ElementOfSeq
  <2>2. \A j \in i..4 : j \in 1..Len(w)
    OBVIOUS
  <2> QED
    BY <2>1, <2>2
<1>2. /\ b \in Seq(Nat) /\ Len(b) = (IF i <= 4 THEN 4 - i + 1 ELSE 0)
      /\ \A j \in 1..4 - i + 1 : b[j] = w[i + j - 1]
  BY <1>1, SubSeqProperties
<1> HIDE DEF b
<1>3. 4 - i + 1 = 5 - i /\ i <= 4
  OBVIOUS
<1>4. b \in Seq(Nat) /\ Len(b) = 5 - i /\ \A j \in 1..5 - i : b[j] = w[i + j - 1]
  BY <1>2, <1>3
<1> QED
  BY <1>4 DEF b

LEMMA ResyncIs ==
  ASSUME InUse, Resyncs, NEW w \in Seq(Nat), Len(w) = 4
  PROVE  \/ Rc!Resync(w) = <<>> /\ \A i \in 2..4 : w[i] # 1
         \/ \E i \in 2..4 : /\ w[i] = 1 /\ Rc!Resync(w) = SubSeq(w, i, 4)
                            /\ \A j \in 2..4 : w[j] = 1 => i <= j
<1> DEFINE starts == {i \in 2..Len(w) : w[i] \in Rc!P.heads[1]}
<1>1. Rc!P.heads[1] = {1} /\ ~(Rc!P.bad = "drop")
  BY SbusIs
<1>2. starts = {i \in 2..4 : w[i] = 1}
  BY <1>1
<1>3. Rc!Resync(w) = IF starts = {} THEN <<>>
                     ELSE SubSeq(w, CHOOSE i \in starts : \A j \in starts : i <= j, Len(w))
  BY <1>1 DEF Rc!Resync
<1>4. CASE starts = {}
  BY <1>2, <1>3, <1>4
<1>5. CASE starts # {}
  <2>1. starts \in SUBSET Nat
    BY <1>2
  <2> DEFINE i == CHOOSE i \in starts : \A j \in starts : i <= j
  <2> HIDE DEF starts
  <2>2. \E m \in starts : \A j \in starts : m <= j
    BY <1>5, <2>1, LeastNumber
  <2>3. i \in starts /\ \A j \in starts : i <= j
    BY <2>2
  <2>4. Rc!Resync(w) = SubSeq(w, i, 4)
    BY <1>3, <1>5
  <2> HIDE DEF i
  <2> QED
    BY <1>2, <2>3, <2>4
<1> QED
  BY <1>4, <1>5

\* A frame of S.BUS is full with the fourth byte.
LEMMA SbusFrame ==
  ASSUME InUse, Resyncs, NEW f \in RcFrames
  PROVE  Len(f) = 4 /\ f[1] = 1 /\ f \in Seq(Nat)
<1>1. f \in Seq(Nat) /\ Len(f) \in Nat /\ Len(f) > 0
  BY FramesAre
<1>2. Rc!IsFull(f) /\ \A n \in 1..Len(f) - 1 : ~Rc!IsWrong(SubSeq(f, 1, n)) /\ ~Rc!IsFull(SubSeq(f, 1, n))
  BY DEF InUse, Rc!IsFrame
<1>3. Len(f) >= 4
  BY <1>2, SbusIs
<1>4. \A n \in 1..Len(f) - 1 : Len(SubSeq(f, 1, n)) = n /\ SubSeq(f, 1, n)[1] = f[1]
  BY <1>1
<1>5. ~(Len(f) > 4)
  <2> SUFFICES ASSUME Len(f) > 4 PROVE FALSE
    BY <1>1
  <2>1. 4 \in 1..Len(f) - 1
    BY <1>1
  <2>2. PICK w : w = SubSeq(f, 1, 4)
    OBVIOUS
  <2>3. Len(w) = 4 /\ ~Rc!IsFull(w)
    BY <1>2, <1>4, <2>1, <2>2
  <2>4. Len(w) >= 0 /\ Len(w) >= 4
    BY <2>3
  <2> QED
    BY <2>3, <2>4, SbusIs
<1>6. f[1] = 1
  <2>1. 1 \in 1..Len(f) - 1
    BY <1>1, <1>3
  <2>2. PICK w : w = SubSeq(f, 1, 1)
    OBVIOUS
  <2>3. Len(w) = 1 /\ w[1] = f[1] /\ ~Rc!IsWrong(w)
    BY <1>2, <1>4, <2>1, <2>2
  <2>4. Rc!Last(w) = f[1]
    BY <2>3 DEF Rc!Last
  <2>5. Len(w) <= 1
    BY <2>3
  <2>6. Rc!Last(w) \in Rc!P.heads[Len(w)]
    BY <2>3, <2>5, SbusIs
  <2>7. Rc!Last(w) \in Rc!P.heads[1]
    BY <2>3, <2>6
  <2> QED
    BY <2>4, <2>7, SbusIs
<1>7. Len(f) = 4
  <2> DEFINE n == Len(f)
  <2>1. n \in Nat /\ n >= 4 /\ ~(n > 4)
    BY <1>1, <1>3, <1>5
  <2> HIDE DEF n
  <2>2. n = 4
    BY <2>1
  <2> QED
    BY <2>2 DEF n
<1> QED
  BY <1>1, <1>6, <1>7

\* What S.BUS has with the byte that is read: at most a frame, which begins with a start byte but
\* for a first byte that is to be looked at.
LEMMA BegunWith ==
  ASSUME InUse, Resyncs, RcTypes, Begun, rcRx # <<>>, NEW w, w = Append(Rc!Open, Head(rcRx).v)
  PROVE  /\ w \in Seq(Nat) /\ Len(w) \in 1..4 /\ (Len(w) > 1 => w[1] = 1)
         /\ Rc!Last(w) = w[Len(w)] /\ Rc!Open \in Seq(Nat) /\ Len(w) = Len(Rc!Open) + 1
         /\ \A j \in 1..Len(Rc!Open) : w[j] = Rc!Open[j]
         /\ w[Len(w)] = Head(rcRx).v
<1>1. rcRx \in Seq(Arrived) /\ Head(rcRx) \in Arrived
  BY DEF RcTypes
<1>2. PICK v \in Nat : v = Head(rcRx).v
  BY <1>1 DEF Arrived
<1>3. rcBuf \in Seq(Nat) /\ Len(rcBuf) < 4 /\ (rcBuf # <<>> => rcBuf[1] = 1)
  BY DEF Begun
<1>4. PICK b : b = Rc!Open
  OBVIOUS
<1>5. b = <<>> \/ b = rcBuf
  BY <1>4 DEF Rc!Open
<1>6. b \in Seq(Nat) /\ Len(b) < 4 /\ (b # <<>> => b[1] = 1)
  <2>1. CASE b = <<>>
    <3>1. <<>> \in Seq(Nat) /\ Len(<<>>) = 0
      BY EmptySeq
    <3> QED
      BY <2>1, <3>1
  <2> QED
    BY <1>3, <1>5, <2>1
<1>7. w = Append(b, v)
  BY <1>2, <1>4
<1>8. w \in Seq(Nat) /\ Len(w) = Len(b) + 1 /\ Len(b) \in Nat /\ w[Len(w)] = v
      /\ \A j \in 1..Len(b) : w[j] = b[j]
  <2>1. Len(b) \in Nat /\ b \in Seq(Nat) /\ v \in Nat
    BY <1>6
  <2>2. w \in Seq(Nat) /\ Len(w) = Len(b) + 1 /\ w[Len(b) + 1] = v
    BY ONLY <1>7, <2>1
  <2>3. \A j \in 1..Len(b) : w[j] = b[j]
    BY ONLY <1>7, <2>1
  <2> QED
    BY <2>1, <2>2, <2>3
<1>9. Len(w) > 1 => w[1] = 1
  <2>1. Len(w) > 1 => b # <<>> /\ 1 \in 1..Len(b)
    BY <1>8, EmptySeq
  <2> QED
    BY <1>6, <1>8, <2>1
<1>10. Rc!Last(w) = w[Len(w)]
  BY DEF Rc!Last
<1> QED
  BY <1>2, <1>4, <1>6, <1>8, <1>9, <1>10

\* A byte read leaves what S.BUS has begun.
LEMMA BegunKeeps ==
  ASSUME InUse, RcTypes, Begun, Rc!Read
  PROVE  Begun'
<1> SUFFICES ASSUME Resyncs
             PROVE  rcBuf' \in Seq(Nat) /\ Len(rcBuf') < 4 /\ (rcBuf' # <<>> => rcBuf'[1] = 1)
  BY DEF Begun, Resyncs
<1>1. PICK w : w = Append(Rc!Open, Head(rcRx).v)
  OBVIOUS
<1>2. rcRx # <<>> /\ (Rc!Process(w) \/ Rc!Collect(w))
  BY <1>1 DEF Rc!Read
<1>3. w \in Seq(Nat) /\ Len(w) \in 1..4 /\ (Len(w) > 1 => w[1] = 1) /\ Rc!Last(w) = w[Len(w)]
  BY <1>1, <1>2, BegunWith
<1>4. /\ Rc!IsWrong(w) <=> Len(w) <= 1 /\ Rc!Last(w) \notin Rc!P.heads[Len(w)]
      /\ Rc!P.heads[1] = {1} /\ Rc!P.wrong = "drop"
      /\ Rc!IsFull(w) <=> Len(w) >= 0 /\ Len(w) >= 4
  BY SbusIs
<1>5. CASE rcBuf' = <<>>
  BY <1>5, EmptySeq
<1>6. CASE Rc!IsFull(w) /\ rcBuf' = Rc!Resync(w)
  <2>1. Len(w) = 4
    BY <1>3, <1>4, <1>6
  <2>2. \/ rcBuf' = <<>>
        \/ \E i \in 2..4 : w[i] = 1 /\ rcBuf' = SubSeq(w, i, 4)
    BY <1>3, <1>6, <2>1, ResyncIs
  <2>3. ASSUME NEW i \in 2..4, w[i] = 1, rcBuf' = SubSeq(w, i, 4)
        PROVE  rcBuf' \in Seq(Nat) /\ Len(rcBuf') < 4 /\ rcBuf'[1] = 1
    <3> DEFINE b == SubSeq(w, i, 4)
    <3>1. b \in Seq(Nat) /\ Len(b) = 5 - i /\ \A j \in 1..5 - i : b[j] = w[i + j - 1]
      BY <1>3, <2>1, EndFrom
    <3> HIDE DEF b
    <3>2. b \in Seq(Nat) /\ Len(b) < 4 /\ b[1] = w[i]
      <4>1. 1 \in 1..5 - i /\ i + 1 - 1 = i /\ 5 - i < 4
        OBVIOUS
      <4> QED
        BY <3>1, <4>1
    <3> QED
      BY <2>3, <3>2 DEF b
  <2> QED
    BY <1>5, <2>2, <2>3
<1>7. CASE ~Rc!IsWrong(w) /\ ~Rc!IsFull(w) /\ rcBuf' = w
  <2>1. Len(w) < 4
    BY <1>3, <1>4, <1>7
  <2>2. Len(w) = 1 => w[1] = 1
    BY <1>3, <1>4, <1>7
  <2>3. Len(w) = 1 \/ Len(w) > 1
    <3>1. Len(w) \in 1..4
      BY <1>3
    <3> QED
      BY ONLY <3>1
  <2>4. w \in Seq(Nat) /\ Len(w) < 4 /\ w[1] = 1
    BY <1>3, <2>1, <2>2, <2>3
  <2> QED
    BY <1>7, <2>4
<1>8. \/ rcBuf' = <<>> \/ (Rc!IsFull(w) /\ rcBuf' = Rc!Resync(w))
      \/ (~Rc!IsWrong(w) /\ ~Rc!IsFull(w) /\ rcBuf' = w)
  <2>1. Rc!Restart(Rc!Last(w)) = <<>>
    BY <1>4 DEF Rc!Restart
  <2> QED
    BY <1>2, <2>1 DEF Rc!Process, Rc!Collect
<1> QED
  BY <1>5, <1>6, <1>7, <1>8

\* The bytes of the frame are the last S.BUS has.
LEMMA ReadsOn ==
  ASSUME InUse, Resyncs, RcTypes, Clock, Begun, ~Rc!PauseIsSeen, NEW f, NEW r, NEW k \in Nat,
         Has(f, r, k), k > 0, k <= Len(rcRx), r >= 0, rcRun >= r,
         NEW w, w = Append(Rc!Open, Head(rcRx).v)
  PROVE  EndsIn(w, f, r + 1)
<1>1. /\ f \in RcFrames /\ f \in Seq(Nat) /\ r \in Nat /\ r < Len(f) /\ Head(rcRx).v = f[r + 1]
      /\ r > 0 => Rc!Open = rcBuf
  BY NextByte
<1>2. rcRx # <<>>
  BY DEF RcTypes
<1>3. PICK b : b = Rc!Open
  OBVIOUS
<1>4. /\ w \in Seq(Nat) /\ b \in Seq(Nat) /\ Len(w) = Len(b) + 1 /\ Len(b) \in Nat
      /\ \A j \in 1..Len(b) : w[j] = b[j]
      /\ w[Len(w)] = f[r + 1]
  <2>1. /\ w \in Seq(Nat) /\ Rc!Open \in Seq(Nat) /\ Len(w) = Len(Rc!Open) + 1
        /\ \A j \in 1..Len(Rc!Open) : w[j] = Rc!Open[j]
        /\ w[Len(w)] = Head(rcRx).v
    BY <1>2, BegunWith
  <2>2. Len(b) \in Nat
    BY <1>3, <2>1
  <2> QED
    BY <1>1, <1>3, <2>1, <2>2
<1>5. Len(b) >= r /\ \A j \in 1..r : b[Len(b) - r + j] = f[j]
  <2>1. CASE r = 0
    BY <1>4, <2>1
  <2>2. CASE r > 0
    <3>1. EndsIn(rcBuf, f, r)
      BY DEF Has, ReadSoFar
    <3> QED
      BY <1>1, <1>3, <2>2, <3>1 DEF EndsIn
  <2>3. r = 0 \/ r > 0
    BY <1>1
  <2> QED
    BY <2>1, <2>2, <2>3
<1>6. Len(w) >= r + 1
  BY <1>1, <1>4, <1>5
<1>7. ASSUME NEW j \in 1..r + 1 PROVE w[Len(w) - (r + 1) + j] = f[j]
  <2>1. CASE j = r + 1
    <3>1. Len(w) - (r + 1) + j = Len(w)
      BY <1>1, <1>4, <2>1
    <3> QED
      BY <1>4, <2>1, <3>1
  <2>2. CASE j # r + 1
    <3>1. j \in 1..r /\ Len(w) - (r + 1) + j = Len(b) - r + j /\ Len(b) - r + j \in 1..Len(b)
      <4>1. r \in Nat /\ Len(b) \in Nat /\ Len(w) = Len(b) + 1 /\ Len(b) >= r
        BY <1>1, <1>4, <1>5
      <4> QED
        BY ONLY <1>7, <2>2, <4>1
    <3> QED
      BY <1>4, <1>5, <3>1
  <2> QED
    BY <2>1, <2>2
<1> QED
  BY <1>6, <1>7 DEF EndsIn

\* They stay so, also when a bad frame ends in the midst of them, as none is dropped from the
\* first start byte on; the end of a frame that was good ends the run.
LEMMA ItsLast ==
  ASSUME InUse, RcTypes, Clock, Begun, NEW f, NEW r, NEW k \in Nat, Has(f, r, k), k > 0,
         k <= Len(rcRx), r + 1 < Len(f), Rc!Read, ~Rc!PauseIsSeen
  PROVE  ReadSoFar(f, r + 1)'
<1>1. Resyncs /\ ~Rc!PauseIsSeen'
  BY DEF InUse, Rc!PauseIsSeen
<1>2. SUFFICES ASSUME r + 1 >= 0, rcRun' >= r + 1
               PROVE  EndsIn(rcBuf', f, r + 1)
  BY <1>1 DEF ReadSoFar
<1>3. f \in RcFrames /\ r \in Int
  BY DEF Has
<1>4. Len(f) = 4 /\ f[1] = 1 /\ f \in Seq(Nat)
  BY <1>1, <1>3, SbusFrame
<1>5. rcBuf' \in Seq(Nat)
  BY <1>1, BegunKeeps DEF Begun, Resyncs
<1>6. CASE r + 1 = 0
  BY <1>5, <1>6 DEF EndsIn
<1>7. CASE r >= 0
  <2>1. PICK w : w = Append(Rc!Open, Head(rcRx).v)
    OBVIOUS
  <2>2. rcRx # <<>> /\ (Rc!Process(w) \/ Rc!Collect(w))
    BY <2>1 DEF Rc!Read
  <2>3. Rc!Collect(w)
    <3>1. Rc!Process(w) => rcRun' = 0
      BY DEF Rc!Process
    <3> QED
      BY <1>2, <1>3, <1>7, <2>2, <3>1
  <2>4. rcRun >= r
    <3>1. rcRun \in Nat /\ rcRun' <= rcRun + 1
      BY <2>3 DEF RcTypes, Rc!Collect, Rc!Least
    <3>2. PICK n : n = rcRun'
      OBVIOUS
    <3>3. n >= r + 1 /\ n <= rcRun + 1 /\ n \in Nat
      BY <1>2, <2>3, <3>1, <3>2 DEF Rc!Collect, Rc!Least
    <3> QED
      BY <1>3, <3>1, <3>3
  <2>5. EndsIn(w, f, r + 1)
    BY <1>1, <1>7, <2>1, <2>4, ReadsOn
  <2>6. w \in Seq(Nat) /\ Len(w) \in 1..4 /\ Rc!Last(w) = w[Len(w)]
    BY <1>1, <2>1, <2>2, BegunWith
  <2>7. r \in 0..2 /\ Len(w) >= r + 1 /\ \A j \in 1..r + 1 : w[Len(w) - (r + 1) + j] = f[j]
    BY <1>3, <1>4, <1>7, <2>5 DEF EndsIn
  <2>8. ~Rc!IsWrong(w)
    <3> SUFFICES ASSUME Rc!IsWrong(w) PROVE FALSE
      OBVIOUS
    <3>1. Len(w) <= 1 /\ Rc!Last(w) \notin Rc!P.heads[Len(w)] /\ Rc!P.heads[1] = {1}
      BY <1>1, SbusIs
    <3>2. Len(w) = 1 /\ r = 0
      <4>1. Len(w) <= 1 /\ Len(w) >= r + 1 /\ r \in 0..2 /\ Len(w) \in 1..4
        BY <2>6, <2>7, <3>1
      <4> QED
        BY ONLY <4>1
    <3>3. w[1] = f[1]
      BY <2>7, <3>2
    <3> QED
      BY <1>4, <2>6, <3>1, <3>2, <3>3
  <2>9. CASE ~Rc!IsFull(w)
    BY <2>3, <2>5, <2>8, <2>9 DEF Rc!Collect
  <2>10. CASE Rc!IsFull(w)
    <3>1. Len(w) = 4
      BY <1>1, <2>6, <2>10, SbusIs
    <3>2. rcBuf' = Rc!Resync(w)
      BY <2>3, <2>8, <2>10 DEF Rc!Collect
    <3>3. 4 - r \in 2..4 /\ w[4 - r] = 1
      <4>1. 1 \in 1..r + 1 /\ 4 - (r + 1) + 1 = 4 - r
        BY <2>7
      <4>2. w[4 - r] = f[1]
        BY <2>7, <3>1, <4>1
      <4> QED
        BY <1>4, <2>7, <4>2
    <3>4. \/ rcBuf' = <<>> /\ \A i \in 2..4 : w[i] # 1
          \/ \E i \in 2..4 : w[i] = 1 /\ rcBuf' = SubSeq(w, i, 4) /\ \A j \in 2..4 : w[j] = 1 => i <= j
      BY <1>1, <2>6, <3>1, <3>2, ResyncIs
    <3>5. PICK i \in 2..4 : rcBuf' = SubSeq(w, i, 4) /\ i <= 4 - r
      BY <3>3, <3>4
    <3> DEFINE b == SubSeq(w, i, 4)
               d == Len(b)
    <3>6. d = 5 - i /\ \A j \in 1..5 - i : b[j] = w[i + j - 1]
      BY <2>6, <3>1, <3>5
    <3> HIDE DEF b
    <3>7. ASSUME NEW j \in 1..r + 1 PROVE b[d - (r + 1) + j] = f[j]
      <4>1. d - (r + 1) + j \in 1..5 - i /\ i + (d - (r + 1) + j) - 1 = 4 - (r + 1) + j
        BY <2>7, <3>5, <3>6
      <4>2. b[d - (r + 1) + j] = w[4 - (r + 1) + j]
        BY <3>6, <4>1
      <4> QED
        BY <2>7, <3>1, <4>2
    <3>8. d >= r + 1
      BY <2>7, <3>5, <3>6
    <3>9. EndsIn(b, f, r + 1)
      BY <3>7, <3>8 DEF EndsIn
    <3> QED
      BY <3>5, <3>9 DEF b
  <2> QED
    BY <2>9, <2>10
<1> QED
  BY <1>2, <1>3, <1>6, <1>7

\* With and without a pause.
LEMMA NextIsRead ==
  ASSUME InUse, RcTypes, Clock, Begun, NEW f, NEW r, NEW k \in Nat, Has(f, r, k), k > 0,
         k <= Len(rcRx), r + 1 < Len(f), Rc!Read
  PROVE  Has(f, r + 1, k - 1)'
<1>1. f \in RcFrames /\ r \in Int /\ r + k <= Len(f)
  BY DEF Has
<1>2. f \in Seq(Nat) /\ Len(f) \in Nat
  BY <1>1, FramesAre
<1>3. rcRx # <<>> /\ rcRx' = Tail(rcRx) /\ rcSince' = 0
  BY DEF Rc!Read
<1>4. /\ Len(rcRx') = Len(rcRx) - 1 /\ Len(rcRx) \in Nat /\ rcRx' \in Seq(Arrived)
      /\ \A j \in 1..Len(rcRx') : rcRx'[j] = rcRx[j + 1]
  BY <1>3 DEF RcTypes
<1>5. rcRx' # <<>> => rcSince' <= rcRx'[1].wait + 1
  <2>1. rcRx' # <<>> => rcRx'[1].wait \in Nat
    <3>1. rcRx' # <<>> => 1 \in 1..Len(rcRx')
      BY <1>4, EmptySeq
    <3>2. \A j \in 1..Len(rcRx') : rcRx'[j] \in Arrived
      BY <1>4
    <3> QED
      BY <3>1, <3>2 DEF Arrived
  <2> QED
    BY <1>3, <2>1
<1>6. \A j \in 1..(k - 1) : (r + 1) + j > 0 => rcRx'[j].v = f[(r + 1) + j]
  <2> SUFFICES ASSUME NEW j \in 1..(k - 1), (r + 1) + j > 0 PROVE rcRx'[j].v = f[(r + 1) + j]
    OBVIOUS
  <2>1. j \in 1..Len(rcRx') /\ j + 1 \in 1..k /\ r + (j + 1) = (r + 1) + j
    BY <1>1, <1>4
  <2>2. rcRx[j + 1].v = f[r + (j + 1)]
    BY <2>1 DEF Has
  <2> QED
    BY <1>4, <2>1, <2>2
<1>7. ReadSoFar(f, r + 1)'
  BY OnlyIts, ItsLast
<1>8. r + 1 \in Int /\ (r + 1) + (k - 1) <= Len(f)
  BY <1>1, <1>2
<1> QED
  BY <1>1, <1>5, <1>6, <1>7, <1>8 DEF Has

\* Its last byte completes the frame, which passes its check.
LEMMA LastRead ==
  ASSUME InUse, RcTypes, Clock, Begun, NEW f, Has(f, Len(f) - 1, 1), rcRx # <<>>, Rc!Read,
         Rc!PauseIsSeen \/ rcRun + 1 >= Len(f)
  PROVE  rcTaken' = IF Rc!IsLost(f) \/ rcGood' < Rc!P.first THEN <<>> ELSE f
<1>1. PICK r, k, w : r = Len(f) - 1 /\ k = 1 /\ w = Append(Rc!Open, Head(rcRx).v)
  OBVIOUS
<1>2. f \in RcFrames /\ Has(f, r, k) /\ k \in Nat /\ k > 0 /\ k <= Len(rcRx)
  <2>1. Len(rcRx) >= 1
    BY DEF RcTypes
  <2> QED
    BY <1>1, <2>1 DEF Has
<1>3. f \in Seq(Nat) /\ Len(f) \in Nat /\ r \in Nat /\ r < Len(f) /\ r + 1 = Len(f)
  BY <1>1, <1>2, FramesAre
<1>4. w = f
  <2>1. CASE Rc!PauseIsSeen
    <3>1. w = SubSeq(f, 1, r + 1)
      BY <1>1, <1>2, <2>1, ReadsNext
    <3>2. r + 1 = Len(f) => SubSeq(f, 1, r + 1) = f
      BY <1>3, Prefixes
    <3> QED
      BY <1>3, <3>1, <3>2
  <2>2. CASE ~Rc!PauseIsSeen
    <3>1. Resyncs
      BY <2>2 DEF InUse
    <3>2. rcRun >= r
      BY <1>3, <2>2 DEF RcTypes
    <3>3. r >= 0
      BY <1>3
    <3>4. EndsIn(w, f, r + 1)
      BY <1>1, <1>2, <2>2, <3>1, <3>2, <3>3, ReadsOn
    <3>5. w \in Seq(Nat) /\ Len(w) \in 1..4
      BY <1>1, <3>1, BegunWith
    <3>6. Len(f) = 4
      BY <1>2, <3>1, SbusFrame
    <3>7. Len(w) = 4 /\ \A j \in 1..4 : w[j] = f[j]
      <4>1. r + 1 = 4 /\ Len(w) \in 1..4
        BY <1>3, <3>5, <3>6
      <4>2. EndsIn(w, f, 4)
        BY <3>4, <4>1
      <4>3. Len(w) = 4
        BY <4>1, <4>2 DEF EndsIn
      <4>4. \A j \in 1..4 : Len(w) - 4 + j = j
        BY <4>3
      <4> QED
        BY <4>2, <4>3, <4>4 DEF EndsIn
    <3> QED
      BY <1>3, <3>5, <3>6, <3>7
  <2> QED
    BY <2>1, <2>2
<1>5. ~Rc!IsWrong(f) /\ Rc!IsFull(f) /\ Rc!IsGood(f)
  BY <1>2 DEF InUse, Rc!IsFrame
<1>6. IF ~Rc!IsWrong(w) /\ Rc!IsFull(w) /\ Rc!IsGood(w) THEN Rc!Process(w) ELSE Rc!Collect(w)
  BY <1>1 DEF Rc!Read
<1>7. Rc!Process(f)
  BY <1>4, <1>5, <1>6
<1> QED
  BY <1>7 DEF Rc!Process

LEMMA RcTaken ==
  ASSUME InUse, RcInv, Rc!Read PROVE Rc!WholeFrameTaken
<1> SUFFICES ASSUME rcRx # <<>>, Head(rcRx).of # <<>>,
                    Rc!PauseIsSeen \/ rcRun + 1 >= Len(Head(rcRx).of)
             PROVE  LET f == Head(rcRx).of
                    IN rcTaken' = IF Rc!IsLost(f) \/ rcGood' < Rc!P.first THEN <<>> ELSE f
  BY DEF Rc!WholeFrameTaken
<1>1. 1 \in 1..Len(rcRx) /\ Head(rcRx) = rcRx[1]
  BY DEF RcInv, RcTypes
<1>2. PICK f : f = Head(rcRx).of
  OBVIOUS
<1>3. Has(f, Len(f) - 1, 1)
  BY <1>1, <1>2 DEF RcInv, Marked
<1>4. rcTaken' = IF Rc!IsLost(f) \/ rcGood' < Rc!P.first THEN <<>> ELSE f
  BY <1>2, <1>3, LastRead DEF RcInv
<1> QED
  BY <1>2, <1>4

\* The last two parts of the invariant after a step, said of what they are about.
LEMMA MarkedAfter ==
  ASSUME \A k \in 1..Len(rcRx') : \A f : rcRx'[k].of = f /\ f # <<>> => Has(f, Len(f) - k, k)'
  PROVE  Marked'
<1> SUFFICES ASSUME NEW k \in 1..Len(rcRx'), rcRx'[k].of # <<>>
             PROVE  Has(rcRx[k].of, Len(rcRx[k].of) - k, k)'
  BY DEF Marked
<1>1. PICK f : f = rcRx'[k].of
  OBVIOUS
<1>2. Has(f, Len(f) - k, k)'
  BY <1>1
<1> QED
  BY <1>1, <1>2 DEF Has, ReadSoFar

LEMMA OnItsWayAfter ==
  ASSUME NEW f, NEW r, NEW n, rcFrame' = f, Len(rcRx') = n, r = Len(f) - Len(rcLeft') - n,
         Has(f, r, n)', \A j \in 1..Len(rcLeft') : rcLeft'[j] = f[r + n + j],
         Len(rcLeft') <= Len(f),
         Len(rcLeft') < Len(f) => rcQuiet' <= 1,
         r > 0 /\ rcRx' = <<>> => rcSince' <= rcQuiet'
  PROVE  OnItsWay'
<1>1. HasRead' = r
  BY DEF HasRead
<1>2. Has(rcFrame, HasRead, Len(rcRx))'
  BY <1>1 DEF Has, ReadSoFar
<1> QED
  BY <1>1, <1>2 DEF OnItsWay

LEMMA NoneOnItsWay == rcFrame' = <<>> => OnItsWay'
BY DEF OnItsWay

\* While something waits, the line is not quiet for longer than the task is late.
LEMMA WaitsWhileQuiet ==
  ASSUME InUse, RcTypes, Clock, rcRx # <<>>
  PROVE  /\ 1 \in 1..Len(rcRx) /\ rcQuiet <= rcRx[1].wait /\ rcRx[1].wait <= RcLate
         /\ rcQuiet \in Nat /\ rcRx[1].wait \in Nat /\ rcQuiet <= RcLate
<1>1. 1 \in 1..Len(rcRx) /\ rcRx[1] \in Arrived
  BY DEF RcTypes
<1>2. rcQuiet \in Nat /\ rcRx[1].wait \in Nat
  BY <1>1 DEF RcTypes, Arrived
<1>3. rcQuiet <= rcRx[1].wait /\ rcRx[1].wait <= RcLate
  BY <1>1 DEF Clock
<1> QED
  BY <1>1, <1>2, <1>3, GapIsSeen

\* A frame begins after a pause: all before it has been read.
LEMMA StartKeeps ==
  ASSUME InUse, RcInv, NEW f \in RcFrames, Rc!Start(f)
  PROVE  RcInv'
<1>1. /\ UNCHANGED <<rcQuiet, rcRx, rcBuf, rcSince, rcRun>> /\ rcLeft' = f
      /\ rcFrame' = IF rcQuiet >= RcPause THEN f ELSE <<>>
  BY DEF Rc!Start
<1>2. f \in Seq(Nat) /\ f # <<>> /\ Len(f) \in Nat
  BY FramesAre
<1>3. RcTypes /\ Clock /\ Marked /\ Begun
  BY DEF RcInv
<1>4. RcTypes'
  BY <1>1, <1>2, <1>3 DEF RcTypes
<1>5. Clock'
  BY <1>1, <1>3 DEF Clock
<1>6. Marked' /\ Begun'
  BY <1>1, <1>3 DEF Marked, Has, ReadSoFar, Rc!PauseIsSeen, Begun, Resyncs
<1>7. CASE rcQuiet >= RcPause
  <2>1. PICK r, n : n = Len(rcRx) /\ r = 0 - n /\ n \in Nat /\ r \in Int
    BY <1>3 DEF RcTypes
  <2>2. n = 0 => rcRx = <<>>
    BY <1>3, <2>1, EmptySeq DEF RcTypes
  <2>3. Rc!PauseIsSeen => rcRx = <<>> /\ rcSince >= Gap
    <3> SUFFICES ASSUME Rc!PauseIsSeen PROVE rcRx = <<>> /\ rcSince >= Gap
      OBVIOUS
    <3>1. ASSUME rcRx # <<>> PROVE FALSE
      <4>1. rcQuiet \in Nat /\ rcQuiet <= RcLate
        BY <1>3, <3>1, WaitsWhileQuiet
      <4>2. RcPause \in Nat /\ RcLate \in Nat /\ Gap + RcLate <= RcPause /\ Gap \in Nat /\ Gap > 0
        BY GapIsSeen
      <4> QED
        BY <1>7, <4>1, <4>2
    <3>2. rcSince >= Gap
      <4>1. rcSince \in Nat /\ rcQuiet \in Nat
        BY <1>3 DEF RcTypes
      <4>2. rcSince >= Gap \/ rcSince + RcLate >= rcQuiet
        BY <1>3, <3>1 DEF Clock
      <4>3. RcPause \in Nat /\ RcLate \in Nat /\ Gap + RcLate <= RcPause /\ Gap \in Nat
        BY GapIsSeen
      <4> QED
        BY <1>7, <4>1, <4>2, <4>3
    <3> QED
      BY <3>1, <3>2
  <2>4. ReadSoFar(f, r)'
    <3>1. CASE Rc!PauseIsSeen
      <4>1. rcRx = <<>> /\ rcSince >= Gap
        BY <2>3, <3>1
      <4>2. n = 0
        BY <2>1, <4>1, EmptySeq
      <4>3. r = 0
        BY ONLY <2>1, <4>2
      <4>4. r = 0 /\ rcSince' >= Gap
        BY <1>1, <4>1, <4>3
      <4> QED
        BY <3>1, <4>4 DEF ReadSoFar, Rc!PauseIsSeen
    <3>2. CASE ~Rc!PauseIsSeen
      <4>1. rcBuf \in Seq(Nat)
        BY <1>3, <3>2 DEF InUse, Begun
      <4>2. EndsIn(rcBuf', f, 0)
        BY <1>1, <4>1 DEF EndsIn
      <4>3. r >= 0 => r = 0
        BY <2>1
      <4> QED
        BY <3>2, <4>2, <4>3 DEF ReadSoFar, Rc!PauseIsSeen
    <3> QED
      BY <3>1, <3>2
  <2>5. Has(f, r, n)'
    <3>1. ~(r > 0) /\ r + n <= Len(f) /\ \A j \in 1..n : ~(r + j > 0)
      BY <1>2, <2>1
    <3> QED
      BY <2>1, <2>4, <3>1 DEF Has
  <2>6. rcFrame' = f /\ Len(rcRx') = n /\ r = Len(f) - Len(rcLeft') - n
    BY <1>1, <1>2, <1>7, <2>1
  <2>7. \A j \in 1..Len(rcLeft') : rcLeft'[j] = f[r + n + j]
    BY <1>1, <1>2, <2>1
  <2>8. ~(Len(rcLeft') < Len(f)) /\ ~(r > 0) /\ Len(rcLeft') <= Len(f)
    BY <1>1, <1>2, <2>1
  <2>9. OnItsWay'
    BY <2>5, <2>6, <2>7, <2>8, OnItsWayAfter
  <2> QED
    BY <1>4, <1>5, <1>6, <2>9 DEF RcInv
<1>8. CASE ~(rcQuiet >= RcPause)
  BY <1>1, <1>4, <1>5, <1>6, <1>8, NoneOnItsWay DEF RcInv
<1> QED
  BY <1>7, <1>8

\* Bytes on the line behind those that wait.
LEMMA PutKeeps ==
  ASSUME InUse, RcInv, NEW e \in Arrived, e.wait = 0, rcRx' = Append(rcRx, e), rcQuiet' = 0,
         UNCHANGED <<rcBuf, rcSince, rcRun>>
  PROVE  /\ Clock' /\ Begun' /\ rcRx' \in Seq(Arrived) /\ rcQuiet' \in Nat /\ rcSince' \in Nat
         /\ Len(rcRx') = Len(rcRx) + 1 /\ Len(rcRx) \in Nat
         /\ \A k \in 1..Len(rcRx) : \A f : rcRx'[k].of = f /\ f # <<>> => Has(f, Len(f) - k, k)'
<1>1. RcTypes /\ Clock /\ Marked
  BY DEF RcInv
<1>2. /\ rcRx' \in Seq(Arrived) /\ Len(rcRx') = Len(rcRx) + 1 /\ Len(rcRx) \in Nat
      /\ rcRx'[Len(rcRx) + 1] = e /\ \A j \in 1..Len(rcRx) : rcRx'[j] = rcRx[j]
      /\ rcRx' # <<>> /\ \A j \in 1..Len(rcRx) : rcRx[j] \in Arrived
  <2>1. rcRx \in Seq(Arrived) /\ Len(rcRx) \in Nat /\ \A j \in 1..Len(rcRx) : rcRx[j] \in Arrived
    BY <1>1 DEF RcTypes
  <2>2. /\ rcRx' \in Seq(Arrived) /\ Len(rcRx') = Len(rcRx) + 1
        /\ rcRx'[Len(rcRx) + 1] = e /\ \A j \in 1..Len(rcRx) : rcRx'[j] = rcRx[j]
    BY <2>1
  <2>3. rcRx' # <<>>
    BY <2>1, <2>2, EmptySeq
  <2> QED
    BY <2>1, <2>2, <2>3
<1>3. rcQuiet' \in Nat /\ rcSince' \in Nat
  BY <1>1 DEF RcTypes
<1>4. Clock'
  <2>1. ASSUME NEW k \in 1..Len(rcRx') PROVE rcQuiet' <= rcRx'[k].wait /\ rcRx'[k].wait <= RcLate
    <3>1. CASE k = Len(rcRx) + 1
      BY <1>2, <3>1, GapIsSeen
    <3>2. CASE k \in 1..Len(rcRx)
      <4>1. rcRx[k].wait \in Nat /\ rcRx[k].wait <= RcLate
        BY <1>1, <1>2, <3>2 DEF Clock, Arrived
      <4> QED
        BY <1>2, <3>2, <4>1
    <3> QED
      BY <1>2, <3>1, <3>2
  <2> QED
    BY <1>2, <2>1 DEF Clock
<1>5. ASSUME NEW k \in 1..Len(rcRx), NEW f, rcRx'[k].of = f, f # <<>>
      PROVE  Has(f, Len(f) - k, k)'
  <2>1. Has(f, Len(f) - k, k)
    BY <1>1, <1>2, <1>5 DEF Marked
  <2>2. k \in Nat /\ k <= Len(rcRx) /\ rcRx # <<>>
    BY <1>2
  <2> DEFINE r == Len(f) - k
  <2> HIDE DEF r
  <2>3. Has(f, r, k)'
    BY <1>1, <2>1, <2>2, HasMore DEF r
  <2> QED
    BY <2>3 DEF r
<1>6. Begun'
  BY DEF RcInv, Begun, Resyncs
<1> QED
  BY <1>2, <1>3, <1>4, <1>5, <1>6

\* The next byte of the frame on its way arrives.
LEMMA ArriveKeeps ==
  ASSUME InUse, RcInv, Rc!Arrive
  PROVE  RcInv'
<1> DEFINE e == [v |-> Head(rcLeft), of |-> IF Len(rcLeft) = 1 THEN rcFrame ELSE <<>>, wait |-> 0]
<1>1. /\ rcLeft # <<>> /\ rcRx' = Append(rcRx, e) /\ rcQuiet' = 0 /\ rcLeft' = Tail(rcLeft)
      /\ UNCHANGED <<rcBuf, rcSince, rcFrame, rcRun>>
  BY DEF Rc!Arrive, Rc!Put, Rc!Gone
<1>2. RcTypes
  BY DEF RcInv
<1>3. /\ rcLeft' \in Seq(Nat) /\ Len(rcLeft') = Len(rcLeft) - 1 /\ Head(rcLeft) = rcLeft[1]
      /\ Head(rcLeft) \in Nat /\ Len(rcLeft) \in Nat /\ Len(rcLeft) > 0 /\ 1 \in 1..Len(rcLeft)
      /\ \A j \in 1..Len(rcLeft') : rcLeft'[j] = rcLeft[j + 1] /\ j + 1 \in 1..Len(rcLeft)
  BY <1>1, <1>2 DEF RcTypes
<1>4. e \in Arrived /\ e.wait = 0
  BY <1>2, <1>3 DEF Arrived, RcTypes
<1>5. e.of # <<>> => e.of = rcFrame /\ Len(rcLeft) = 1
  OBVIOUS
<1>6. e.v = rcLeft[1]
  BY <1>3
<1> HIDE DEF e
<1>7. /\ Clock' /\ Begun' /\ rcRx' \in Seq(Arrived) /\ rcQuiet' \in Nat /\ rcSince' \in Nat
      /\ Len(rcRx') = Len(rcRx) + 1 /\ Len(rcRx) \in Nat
      /\ \A k \in 1..Len(rcRx) : \A f : rcRx'[k].of = f /\ f # <<>> => Has(f, Len(f) - k, k)'
  BY <1>1, <1>4, PutKeeps
<1>8. /\ rcRx'[Len(rcRx) + 1] = e /\ \A j \in 1..Len(rcRx) : rcRx'[j] = rcRx[j]
  BY <1>1, <1>2, <1>4 DEF RcTypes
<1>9. RcTypes'
  BY <1>1, <1>2, <1>3, <1>7 DEF RcTypes
<1>10. ASSUME NEW f, NEW r, NEW n, f = rcFrame, f # <<>>, r = HasRead, n = Len(rcRx)
       PROVE  /\ f \in RcFrames /\ r \in Int /\ n \in Nat /\ Len(f) \in Nat
              /\ Len(rcLeft) <= Len(f) /\ r = Len(f) - Len(rcLeft) - n /\ Has(f, r, n + 1)'
              /\ \A j \in 1..Len(rcLeft) : rcLeft[j] = f[r + n + j]
  <2>1. /\ Has(f, r, n)
        /\ \A j \in 1..Len(rcLeft) : rcLeft[j] = f[r + n + j]
        /\ Len(rcLeft) < Len(f) => rcQuiet <= 1
        /\ r > 0 /\ rcRx = <<>> => rcSince <= rcQuiet
    BY <1>1, <1>10 DEF RcInv, OnItsWay
  <2>2. Len(rcLeft) <= Len(f)
    BY <1>1, <1>10 DEF RcInv, OnItsWay
  <2>3. n = Len(rcRx)
    BY <1>10
  <2>4. f \in RcFrames /\ r \in Int /\ n \in Nat /\ Has(f, r, n)
    BY <1>7, <1>10, <2>1 DEF Has
  <2>5. Len(f) \in Nat
    BY <2>4, FramesAre
  <2>6. r = Len(f) - Len(rcLeft) - n
    BY <1>10 DEF HasRead
  <2>7. rcRx = <<>> /\ r > 0 => rcSince <= 1
    <3> SUFFICES ASSUME rcRx = <<>>, r > 0 PROVE rcSince <= 1
      OBVIOUS
    <3>1. Len(rcLeft) < Len(f)
      BY <1>3, <2>4, <2>5, <2>6
    <3>2. rcQuiet <= 1 /\ rcSince <= rcQuiet
      BY <2>1, <2>3, <3>1
    <3>3. rcQuiet \in Nat /\ rcSince \in Nat
      BY <1>2 DEF RcTypes
    <3> QED
      BY <3>2, <3>3
  <2>8. Has(f, r, n)'
    BY <1>1, <1>2, <1>4, <2>3, <2>4, <2>7, HasMore
  <2>9. \A j \in 1..n + 1 : r + j > 0 => rcRx'[j].v = f[r + j]
    <3> SUFFICES ASSUME NEW j \in 1..n + 1, r + j > 0 PROVE rcRx'[j].v = f[r + j]
      OBVIOUS
    <3>1. CASE j = n + 1
      <4>1. rcLeft[1] = f[r + n + 1]
        BY <1>3, <2>1, <2>3
      <4>2. r + n + 1 = r + j
        BY <2>4, <3>1
      <4> QED
        BY <1>6, <1>8, <2>3, <3>1, <4>1, <4>2
    <3>2. CASE j # n + 1
      <4>1. j \in 1..n
        BY <2>4, <3>2
      <4> QED
        BY <2>8, <4>1 DEF Has
    <3> QED
      BY <3>1, <3>2
  <2>10. r + (n + 1) <= Len(f)
    BY <1>3, <2>4, <2>5, <2>6
  <2>11. Has(f, r, n + 1)'
    BY <2>4, <2>8, <2>9, <2>10 DEF Has
  <2> QED
    BY <2>1, <2>4, <2>5, <2>6, <2>11, <2>2
<1>11. Marked'
  <2> SUFFICES ASSUME NEW k \in 1..Len(rcRx'), NEW f, rcRx'[k].of = f, f # <<>>
               PROVE  Has(f, Len(f) - k, k)'
    BY MarkedAfter
  <2>1. CASE k \in 1..Len(rcRx)
    BY <1>7, <2>1
  <2>2. CASE k = Len(rcRx) + 1
    <3>1. f = rcFrame /\ Len(rcLeft) = 1
      BY <1>5, <1>8, <2>2
    <3>2. PICK r, n : r = HasRead /\ n = Len(rcRx)
      OBVIOUS
    <3>3. /\ r \in Int /\ n \in Nat /\ Len(f) \in Nat
          /\ r = Len(f) - Len(rcLeft) - n /\ Has(f, r, n + 1)'
      BY <1>10, <3>1, <3>2
    <3>4. r = Len(f) - k /\ n + 1 = k
      BY <2>2, <3>1, <3>2, <3>3
    <3> QED
      BY <3>3, <3>4
  <2> QED
    BY <1>7, <2>1, <2>2
<1>12. OnItsWay'
  <2>1. CASE rcFrame = <<>>
    BY <1>1, <2>1, NoneOnItsWay
  <2>2. CASE rcFrame # <<>>
    <3>1. PICK f, r, n : f = rcFrame /\ r = HasRead /\ n = Len(rcRx)
      OBVIOUS
    <3>2. /\ f \in RcFrames /\ r \in Int /\ n \in Nat /\ Len(f) \in Nat
          /\ Len(rcLeft) <= Len(f) /\ r = Len(f) - Len(rcLeft) - n /\ Has(f, r, n + 1)'
          /\ \A j \in 1..Len(rcLeft) : rcLeft[j] = f[r + n + j]
      <4>1. f = rcFrame /\ f # <<>> /\ r = HasRead /\ n = Len(rcRx)
        BY <2>2, <3>1
      <4>2. Has(f, r, n + 1)'
        BY <1>10, <4>1
      <4>3. f \in RcFrames /\ r \in Int /\ n \in Nat /\ Len(f) \in Nat
        BY <1>10, <4>1
      <4>4. Len(rcLeft) <= Len(f) /\ r = Len(f) - Len(rcLeft) - n
        BY <1>10, <4>1
      <4>5. \A j \in 1..Len(rcLeft) : rcLeft[j] = f[r + n + j]
        BY <1>10, <4>1
      <4> QED
        BY <4>2, <4>3, <4>4, <4>5
    <3> DEFINE m == n + 1
    <3>3. rcFrame' = f /\ Len(rcRx') = m /\ r = Len(f) - Len(rcLeft') - m
          /\ Len(rcLeft') <= Len(f)
      BY <1>1, <1>3, <1>7, <3>1, <3>2
    <3>4. \A j \in 1..Len(rcLeft') : rcLeft'[j] = f[r + m + j]
      <4> TAKE j \in 1..Len(rcLeft')
      <4>1. rcLeft'[j] = f[r + n + (j + 1)]
        BY <1>3, <3>2
      <4>2. r + n + (j + 1) = r + m + j
        BY <1>3, <3>2
      <4> QED
        BY <4>1, <4>2
    <3>5. rcQuiet' <= 1 /\ ~(rcRx' = <<>>)
      BY <1>1, <1>7
    <3>6. Has(f, r, m)'
      BY <3>2
    <3> HIDE DEF m
    <3> QED
      BY <3>3, <3>4, <3>5, <3>6, OnItsWayAfter
  <2> QED
    BY <2>1, <2>2
<1> QED
  BY <1>7, <1>9, <1>11, <1>12 DEF RcInv

\* With a fault the frame on its way is none that comes whole.
LEMMA FaultKeeps ==
  ASSUME InUse, RcInv, Rc!Lose \/ Rc!Spoil \/ Rc!Noise
  PROVE  RcInv'
<1>1. RcTypes /\ Clock /\ Marked
  BY DEF RcInv
<1>2. /\ rcFrame' = <<>> /\ rcQuiet' = 0 /\ UNCHANGED <<rcBuf, rcSince, rcRun>>
      /\ \/ UNCHANGED rcRx
         \/ \E v \in Rc!Byte : rcRx' = Append(rcRx, [v |-> v, of |-> <<>>, wait |-> 0])
  BY DEF Rc!Lose, Rc!Spoil, Rc!Noise, Rc!Fault, Rc!Put
<1>3. rcLeft' \in Seq(Nat)
  <2>1. UNCHANGED rcLeft \/ (rcLeft # <<>> /\ rcLeft' = Tail(rcLeft))
    BY DEF Rc!Lose, Rc!Spoil, Rc!Noise, Rc!Gone
  <2>2. rcLeft \in Seq(Nat)
    BY <1>1 DEF RcTypes
  <2>3. rcLeft # <<>> => Tail(rcLeft) \in Seq(Nat)
    BY <2>2
  <2> QED
    BY <2>1, <2>2, <2>3
<1>4. OnItsWay' /\ Begun'
  BY <1>2, NoneOnItsWay DEF RcInv, Begun, Resyncs
<1>5. CASE UNCHANGED rcRx
  <2>1. RcTypes'
    BY <1>1, <1>2, <1>3, <1>5 DEF RcTypes
  <2>2. Clock'
    <3>1. \A k \in 1..Len(rcRx) : 0 <= rcRx[k].wait /\ rcRx[k].wait <= RcLate
      <4> TAKE k \in 1..Len(rcRx)
      <4>1. rcRx[k] \in Arrived
        BY <1>1 DEF RcTypes
      <4>2. rcRx[k].wait \in Nat
        BY <4>1 DEF Arrived
      <4> QED
        BY <1>1, <4>2 DEF Clock
    <3>2. rcSince + RcLate >= 0
      BY <1>1, GapIsSeen DEF RcTypes
    <3> QED
      BY <1>2, <1>5, <3>1, <3>2 DEF Clock
  <2>3. Marked'
    BY <1>1, <1>2, <1>5 DEF Marked, Has, ReadSoFar, Rc!PauseIsSeen
  <2> QED
    BY <1>4, <2>1, <2>2, <2>3 DEF RcInv
<1>6. CASE \E v \in Rc!Byte : rcRx' = Append(rcRx, [v |-> v, of |-> <<>>, wait |-> 0])
  <2>1. PICK v \in Nat : rcRx' = Append(rcRx, [v |-> v, of |-> <<>>, wait |-> 0])
    BY <1>6 DEF Rc!Byte
  <2>2. PICK e \in Arrived : e = [v |-> v, of |-> <<>>, wait |-> 0]
    BY DEF Arrived
  <2>3. e.wait = 0 /\ e.of = <<>> /\ rcRx' = Append(rcRx, e)
    BY <2>1, <2>2
  <2>4. /\ Clock' /\ rcRx' \in Seq(Arrived) /\ rcQuiet' \in Nat /\ rcSince' \in Nat
        /\ Len(rcRx') = Len(rcRx) + 1 /\ Len(rcRx) \in Nat
        /\ \A k \in 1..Len(rcRx) : \A f : rcRx'[k].of = f /\ f # <<>> => Has(f, Len(f) - k, k)'
    BY <1>2, <2>3, PutKeeps
  <2>5. RcTypes'
    BY <1>1, <1>2, <1>3, <2>4 DEF RcTypes
  <2>6. rcRx'[Len(rcRx) + 1] = e
    BY <1>1, <2>3 DEF RcTypes
  <2>7. \A k \in 1..Len(rcRx') : \A f : rcRx'[k].of = f /\ f # <<>> => Has(f, Len(f) - k, k)'
    <3> TAKE k \in 1..Len(rcRx')
    <3>1. k = Len(rcRx) + 1 \/ k \in 1..Len(rcRx)
      BY <2>4
    <3> QED
      BY <2>3, <2>4, <2>6, <3>1
  <2>8. Marked'
    BY <2>7, MarkedAfter
  <2> QED
    BY <1>4, <2>4, <2>5, <2>8 DEF RcInv
<1> QED
  BY <1>2, <1>5, <1>6

\* A millisecond passes: bytes of a frame come with no more between them.
LEMMA RcTick ==
  ASSUME InUse, RcInv, Rc!Tick
  PROVE  RcInv'
<1>1. RcTypes /\ Clock /\ Marked /\ OnItsWay
  BY DEF RcInv
<1>2. /\ rcLeft # <<>> => rcQuiet = 0
      /\ \A k \in DOMAIN rcRx : rcRx[k].wait < RcLate
      /\ rcRx' = [k \in DOMAIN rcRx |-> [rcRx[k] EXCEPT !.wait = @ + 1]]
      /\ rcSince' = Rc!Least(rcSince + 1, Gap)
      /\ rcQuiet' = Rc!Least(rcQuiet + 1, RcPause + 1)
      /\ UNCHANGED <<rcLeft, rcFrame, rcBuf, rcRun>>
  BY DEF Rc!Tick, Gap, Rc!Quiet
<1>3. /\ rcRx' \in Seq(Arrived) /\ Len(rcRx) \in Nat /\ Len(rcRx') = Len(rcRx)
      /\ \A j \in 1..Len(rcRx) : /\ rcRx'[j].v = rcRx[j].v /\ rcRx'[j].of = rcRx[j].of
                                 /\ rcRx'[j].wait = rcRx[j].wait + 1 /\ rcRx[j].wait \in Nat
  BY <1>1, <1>2, WaitingTick DEF RcTypes
<1>4. /\ rcQuiet \in Nat /\ rcQuiet' \in Nat /\ rcQuiet' <= rcQuiet + 1
      /\ rcQuiet = 0 => rcQuiet' = 1
  BY <1>1, <1>2, GapIsSeen DEF RcTypes, Rc!Least
<1>5. /\ rcSince \in Nat /\ rcSince' \in Nat /\ rcSince' <= rcSince + 1
      /\ rcSince' >= Gap \/ rcSince' = rcSince + 1
      /\ rcSince >= Gap => rcSince' >= Gap
  BY <1>1, <1>2, GapIsSeen DEF RcTypes, Rc!Least
<1>6. RcTypes'
  BY <1>1, <1>2, <1>3, <1>4, <1>5 DEF RcTypes
<1>7. rcRx' = <<>> <=> rcRx = <<>>
  BY <1>1, <1>3, EmptySeq DEF RcTypes
<1>8. Clock'
  <2>1. ASSUME NEW k \in 1..Len(rcRx) PROVE rcQuiet' <= rcRx'[k].wait /\ rcRx'[k].wait <= RcLate
    <3>1. rcRx[k].wait < RcLate
      BY <1>1, <1>2 DEF RcTypes
    <3>2. rcQuiet <= rcRx[k].wait
      BY <1>1 DEF Clock
    <3> QED
      BY <1>3, <1>4, <3>1, <3>2, GapIsSeen
  <2>2. rcRx = <<>> => rcSince' >= Gap \/ rcSince' + RcLate >= rcQuiet'
    <3>1. rcRx = <<>> => rcSince >= Gap \/ rcSince + RcLate >= rcQuiet
      BY <1>1 DEF Clock
    <3> QED
      BY <1>4, <1>5, <3>1, GapIsSeen
  <2> QED
    BY <1>3, <1>7, <2>1, <2>2 DEF Clock
<1>9. Marked'
  <2> SUFFICES ASSUME NEW k \in 1..Len(rcRx'), NEW f, rcRx'[k].of = f, f # <<>>
               PROVE  Has(f, Len(f) - k, k)'
    BY MarkedAfter
  <2> DEFINE r == Len(f) - k
  <2>1. k \in Nat /\ k <= Len(rcRx) /\ k \in 1..Len(rcRx)
    BY <1>3
  <2>2. rcRx[k].of = f
    BY <1>3, <2>1
  <2>3. Has(f, r, k)
    BY <1>1, <2>1, <2>2 DEF Marked
  <2> HIDE DEF r
  <2>4. Has(f, r, k)'
    BY <1>1, <1>2, <2>1, <2>3, HasTick
  <2> QED
    BY <2>4 DEF r
<1>10. OnItsWay'
  <2>1. CASE rcFrame = <<>>
    BY <1>2, <2>1, NoneOnItsWay
  <2>2. CASE rcLeft = <<>>
    BY <1>2, <2>2 DEF OnItsWay
  <2>3. CASE rcFrame # <<>> /\ rcLeft # <<>>
    <3>1. PICK f, r, n : f = rcFrame /\ r = HasRead /\ n = Len(rcRx)
      OBVIOUS
    <3>2. /\ Has(f, r, n) /\ \A j \in 1..Len(rcLeft) : rcLeft[j] = f[r + n + j]
          /\ r > 0 /\ rcRx = <<>> => rcSince <= rcQuiet
          /\ Len(rcLeft) <= Len(f)
      BY <1>1, <2>3, <3>1 DEF OnItsWay
    <3>3. r = Len(f) - Len(rcLeft) - n /\ n \in Nat /\ n <= Len(rcRx)
      BY <1>3, <3>1 DEF HasRead
    <3>4. Has(f, r, n)'
      BY <1>1, <1>2, <3>2, <3>3, HasTick
    <3>5. rcQuiet = 0 /\ rcQuiet' = 1
      BY <1>2, <1>4, <2>3
    <3>6. r > 0 /\ rcRx' = <<>> => rcSince' <= rcQuiet'
      BY <1>5, <1>7, <3>2, <3>5
    <3>7. rcFrame' = f /\ Len(rcRx') = n /\ rcLeft' = rcLeft
      BY <1>2, <1>3, <3>1
    <3>8. Len(rcLeft') <= Len(f) /\ r = Len(f) - Len(rcLeft') - n /\ \A j \in 1..Len(rcLeft') : rcLeft'[j] = f[r + n + j]
      BY <3>2, <3>3, <3>7
    <3>9. rcQuiet' <= 1
      BY <3>5
    <3> QED
      BY <3>4, <3>6, <3>7, <3>8, <3>9, OnItsWayAfter
  <2> QED
    BY <2>1, <2>2, <2>3
<1>11. Begun'
  BY <1>2 DEF RcInv, Begun, Resyncs
<1> QED
  BY <1>6, <1>8, <1>9, <1>10, <1>11 DEF RcInv

\* The task reads the next byte.
LEMMA ReadKeeps ==
  ASSUME InUse, RcInv, Rc!Read
  PROVE  RcInv'
<1>1. RcTypes /\ Clock /\ Marked /\ OnItsWay /\ Begun
  BY DEF RcInv
<1>2. /\ rcRx # <<>> /\ rcRx' = Tail(rcRx) /\ rcSince' = 0
      /\ UNCHANGED <<rcLeft, rcFrame, rcQuiet>>
  BY DEF Rc!Read, Rc!line
<1>3. /\ Len(rcRx') = Len(rcRx) - 1 /\ Len(rcRx) \in Nat /\ rcRx' \in Seq(Arrived)
      /\ \A j \in 1..Len(rcRx') : rcRx'[j] = rcRx[j + 1] /\ j + 1 \in 1..Len(rcRx)
      /\ Len(rcRx) > 0
  BY <1>1, <1>2 DEF RcTypes
<1>4. RcTypes' /\ Begun'
  <2>1. rcRun' \in Nat
    BY <1>1 DEF RcTypes, Rc!Read, Rc!Process, Rc!Collect, Rc!Least
  <2> QED
    BY <1>1, <1>2, <1>3, <2>1, BegunKeeps DEF RcTypes
<1>5. Clock'
  <2>1. \A k \in 1..Len(rcRx') : rcQuiet' <= rcRx'[k].wait /\ rcRx'[k].wait <= RcLate
    BY <1>1, <1>2, <1>3 DEF Clock
  <2>2. rcSince' + RcLate >= rcQuiet'
    <3>1. rcQuiet <= RcLate /\ rcQuiet \in Nat
      BY <1>1, <1>2, WaitsWhileQuiet
    <3> QED
      BY <1>2, <3>1, GapIsSeen
  <2> QED
    BY <2>1, <2>2 DEF Clock
<1>6. Marked'
  <2> SUFFICES ASSUME NEW k \in 1..Len(rcRx'), NEW f, rcRx'[k].of = f, f # <<>>
               PROVE  Has(f, Len(f) - k, k)'
    BY MarkedAfter
  <2> DEFINE r == Len(f) - (k + 1)
             m == k + 1
  <2>1. Has(f, r, m) /\ m \in Nat /\ m > 0 /\ m <= Len(rcRx) /\ k \in Nat /\ k > 0
    <3>1. m \in 1..Len(rcRx) /\ k \in Nat /\ k > 0 /\ m \in Nat /\ m > 0 /\ m <= Len(rcRx)
      BY <1>3
    <3>2. rcRx[m].of = f
      BY <1>3
    <3>3. r = Len(f) - m
      OBVIOUS
    <3> HIDE DEF m, r
    <3>4. Has(f, r, m)
      BY <1>1, <3>1, <3>2, <3>3 DEF Marked
    <3> QED
      BY <3>1, <3>4
  <2>2. Len(f) \in Nat
    BY <2>1, FramesAre DEF Has
  <2>3. r + 1 < Len(f) /\ r + 1 = Len(f) - k /\ m - 1 = k
    BY <2>1, <2>2
  <2> HIDE DEF r, m
  <2>4. Has(f, r + 1, m - 1)'
    BY <1>1, <2>1, <2>3, NextIsRead
  <2> QED
    BY <2>3, <2>4
<1>7. OnItsWay'
  <2>1. CASE rcFrame = <<>>
    BY <1>2, <2>1, NoneOnItsWay
  <2>2. CASE rcLeft = <<>>
    BY <1>2, <2>2 DEF OnItsWay
  <2>3. CASE rcFrame # <<>> /\ rcLeft # <<>>
    <3>1. PICK f, r, n : f = rcFrame /\ r = HasRead /\ n = Len(rcRx)
      OBVIOUS
    <3>2. /\ Has(f, r, n) /\ \A j \in 1..Len(rcLeft) : rcLeft[j] = f[r + n + j]
          /\ Len(rcLeft) < Len(f) => rcQuiet <= 1
          /\ Len(rcLeft) <= Len(f)
      BY <1>1, <2>3, <3>1 DEF OnItsWay
    <3>3. /\ r = Len(f) - Len(rcLeft) - n /\ n \in Nat /\ n > 0 /\ n <= Len(rcRx)
          /\ r \in Int /\ f \in RcFrames
      BY <1>3, <3>1, <3>2 DEF HasRead, Has
    <3>4. Len(f) \in Nat /\ Len(rcLeft) \in Nat /\ Len(rcLeft) > 0
      BY <1>1, <2>3, <3>3, FramesAre DEF RcTypes
    <3>5. r + 1 < Len(f)
      BY <3>3, <3>4
    <3> DEFINE p == r + 1
               m == n - 1
    <3>6. Has(f, p, m)'
      BY <1>1, <3>2, <3>3, <3>5, NextIsRead
    <3>7. p = Len(f) - Len(rcLeft) - m /\ \A j \in 1..Len(rcLeft) : p + m + j = r + n + j
      BY <3>3, <3>4
    <3>8. rcFrame' = f /\ Len(rcRx') = m /\ rcLeft' = rcLeft /\ rcQuiet' = rcQuiet
          /\ Len(rcLeft') <= Len(f)
      BY <1>2, <1>3, <3>1, <3>2
    <3> HIDE DEF p, m
    <3>9. \A j \in 1..Len(rcLeft') : rcLeft'[j] = f[p + m + j]
      BY <3>2, <3>7, <3>8
    <3>10. rcSince' <= rcQuiet'
      BY <1>1, <1>2 DEF RcTypes
    <3> QED
      BY <3>2, <3>6, <3>7, <3>8, <3>9, <3>10, OnItsWayAfter
  <2> QED
    BY <2>1, <2>2, <2>3
<1> QED
  BY <1>4, <1>5, <1>6, <1>7 DEF RcInv

LEMMA RcStep ==
  ASSUME InUse, RcInv, [Rc!Next]_Rc!vars
  PROVE  RcInv' /\ Rc!WholeFrameTaken
<1>1. CASE Rc!Read
  BY <1>1, ReadKeeps, RcTaken
<1>2. rcRx \in Seq(Arrived) /\ Len(rcRx) \in Nat
  BY DEF RcInv, RcTypes
<1>3. ASSUME ~(Len(rcRx') < Len(rcRx)) PROVE Rc!WholeFrameTaken
  BY <1>3 DEF Rc!WholeFrameTaken
<1>4. CASE \E f \in RcFrames : Rc!Start(f)
  <2>1. PICK f \in RcFrames : Rc!Start(f)
    BY <1>4
  <2>2. RcInv' /\ rcRx' = rcRx
    BY <2>1, StartKeeps DEF Rc!Start
  <2> QED
    BY <1>2, <1>3, <2>2
<1>6. CASE Rc!Arrive
  <2>1. RcInv'
    BY <1>6, ArriveKeeps
  <2>2. \E e : rcRx' = Append(rcRx, e)
    BY <1>6 DEF Rc!Arrive, Rc!Put
  <2>3. Len(rcRx') = Len(rcRx) + 1
    BY <1>2, <2>1, <2>2 DEF RcInv, RcTypes
  <2> QED
    BY <1>2, <1>3, <2>1, <2>3
<1>7. CASE Rc!Lose \/ Rc!Spoil \/ Rc!Noise
  <2>1. RcInv'
    BY <1>7, FaultKeeps
  <2>2. rcRx' = rcRx \/ \E e : rcRx' = Append(rcRx, e)
    BY <1>7 DEF Rc!Lose, Rc!Spoil, Rc!Noise, Rc!Put
  <2>3. rcRx' = rcRx \/ Len(rcRx') = Len(rcRx) + 1
    BY <1>2, <2>1, <2>2 DEF RcInv, RcTypes
  <2> QED
    BY <1>2, <1>3, <2>1, <2>3
<1>8. CASE Rc!Tick
  <2>1. Len(rcRx') = Len(rcRx)
    BY <1>2, <1>8, WaitingTick DEF Rc!Tick
  <2> QED
    BY <1>2, <1>3, <1>8, <2>1, RcTick
<1>9. CASE UNCHANGED Rc!vars
  <2>1. UNCHANGED <<rcLeft, rcFrame, rcQuiet, rcRx, rcBuf, rcSince, rcRun>>
    BY <1>9 DEF Rc!vars, Rc!line
  <2>2. RcTypes' /\ Clock' /\ Marked' /\ OnItsWay' /\ Begun'
    BY <2>1 DEF RcInv, RcTypes, Clock, Marked, OnItsWay, Has, ReadSoFar, HasRead, Begun, Resyncs,
                Rc!PauseIsSeen
  <2> QED
    BY <1>2, <1>3, <2>1, <2>2 DEF RcInv
<1> QED
  BY <1>1, <1>4, <1>6, <1>7, <1>8, <1>9 DEF Rc!Next

\* As the parsers of pif_rc_sbus.c, _sumd, _ibus, _crsf and _spektrum start anew after a pause:
\* a frame that comes whole behind a pause is handed out when its last byte is read, whatever was
\* lost, spoilt or added before it and whatever the parser made of that; for every set of frames
\* of the protocol, any size of the buffer and number of faults, when the pause before a frame is
\* longer than the one a late task takes for one, and the task is not so late that it takes a wait
\* inside a frame for one.  As _resync() of pif_rc_sbus.c looks for the next start byte, S.BUS hands
\* out each with any pause or none, but for those in which a frame ended that was none.
THEOREM WholeFramesAreTaken ==
  ASSUME InUse
  PROVE  Rc!Spec => [][Rc!WholeFrameTaken]_Rc!vars
<1>1. Rc!Init => RcInv
  BY RcInit
<1>2. RcInv /\ [Rc!Next]_Rc!vars => RcInv' /\ Rc!WholeFrameTaken
  BY RcStep
<1> QED
  BY <1>1, <1>2, PTL DEF Rc!Spec
=============================================================================
