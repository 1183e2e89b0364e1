--------------------------- MODULE StreamsProofs ---------------------------
(* What the byte streams promise, proved for every number of bytes, size of a buffer or a         *)
(* queue and number of faults: each keeps its inductive invariant, which its module states, and a *)
(* step of another one leaves it alone.  Behind them, in the same way, the exchanges over a line.  *)
EXTENDS Streams, Sequences, WellFoundedInduction, TLAPS

-----------------------------------------------------------------------------
(* Induction over the numbers, as the order of the numbers is well founded.  *)

Smaller == {pair \in Nat \X Nat : pair[1] < pair[2]}

\* A set of numbers that is not empty has a least one: what proofs by induction use below.
LEMMA LeastNumber == ASSUME NEW T \in SUBSET Nat, T # {} PROVE \E m \in T : \A j \in T : m <= j
<1>1. IsWellFoundedOn(Smaller, Nat)
  BY NatLessThanWellFounded DEF OpToRel, Smaller
<1>2. PICK m \in T : \A j \in T : ~(<<j, m>> \in Smaller)
  BY <1>1, WFMin
<1>3. ASSUME NEW j \in T PROVE m <= j
  <2>1. j \in Nat /\ m \in Nat /\ ~(<<j, m>> \in Smaller)
    BY <1>2
  <2>2. j < m => <<j, m>> \in Smaller
    BY <2>1 DEF Smaller
  <2> QED
    BY <2>1, <2>2
<1> QED
  BY <1>3

\* Induction, for a set of the numbers for which something holds.
LEMMA UpTo ==
  ASSUME NEW n \in Nat, NEW T, 0 \in T,
         \A m \in 1..n : m - 1 \in T => m \in T
  PROVE  0..n \subseteq T
<1> DEFINE Missing == {m \in Nat : m <= n /\ m \notin T}
<1>1. CASE Missing = {}
  BY <1>1
<1>2. CASE Missing # {}
  <2>1. Missing \in SUBSET Nat
    OBVIOUS
  <2>2. PICK m \in Missing : \A j \in Missing : m <= j
    <3> HIDE DEF Missing
    <3> QED
      BY <1>2, <2>1, LeastNumber
  <2>3. m \in Nat /\ m <= n /\ m \notin T
    BY <2>2
  <2>4. CASE m = 0
    BY <2>3, <2>4
  <2>5. CASE m # 0
    <3>1. m - 1 \in Nat /\ m - 1 <= n /\ m \in 1..n /\ ~(m <= m - 1)
      BY <2>3, <2>5
    <3>2. m - 1 \notin Missing
      <4> HIDE DEF Missing
      <4> QED
        BY <2>2, <3>1
    <3> QED
      BY <2>3, <3>1, <3>2
  <2> QED
    BY <2>4, <2>5
<1> QED
  BY <1>1, <1>2

-----------------------------------------------------------------------------
(* The stream over I2C.                                                      *)

LEMMA BusInit == ASSUME BusData!Init PROVE BusData!Inv
BY BusAssumption DEF BusData!Init, BusData!Inv, BusData!TypeOK, BusData!BusIsPort,
    BusData!PortFollowed, BusData!ReadAfterParse, BusData!HeldByReceiver,
  BusData!ExpectsNext, BusData!Reading, BusData!None, BusData!Gps, BusData!Other, BusData!Any

\* The interrupt ends the transfer on the bus.
LEMMA EndTransferKeeps == ASSUME BusData!Inv, BusData!EndTransfer PROVE BusData!Inv'
<1> USE BusAssumption DEF BusData!Inv, BusData!TypeOK, BusData!None, BusData!Gps, BusData!Other,
    BusData!Any
<1> USE DEF BusData!port, BusData!receiver, BusData!stream, BusData!reading, BusData!task
<1> USE DEF BusData!EndTransfer
<1>1. BusData!TypeOK'
  BY DEF BusData!HeldByReceiver
<1>2. BusData!BusIsPort'
  BY DEF BusData!BusIsPort
<1>3. BusData!PortFollowed'
  BY DEF BusData!PortFollowed
<1>4. BusData!ReadAfterParse'
  BY DEF BusData!PortFollowed, BusData!ReadAfterParse
<1>5. BusData!HeldByReceiver'
  BY DEF BusData!BusIsPort, BusData!PortFollowed, BusData!HeldByReceiver, BusData!Reading
<1>6. BusData!ExpectsNext'
  BY DEF BusData!BusIsPort, BusData!PortFollowed, BusData!ReadAfterParse, BusData!HeldByReceiver,
      BusData!ExpectsNext, BusData!Reading
<1> QED
  BY <1>1, <1>2, <1>3, <1>4, <1>5, <1>6

\* The stream takes what its transfer brought, or gives it up.
LEMMA PollEndsKeeps == ASSUME BusData!Inv, BusData!PollEnds PROVE BusData!Inv'
<1> USE BusAssumption DEF BusData!Inv, BusData!TypeOK, BusData!None, BusData!Gps, BusData!Other,
    BusData!Any
<1> USE DEF BusData!port, BusData!receiver, BusData!stream, BusData!reading, BusData!task
<1> USE DEF BusData!PollEnds, BusData!Release, BusData!Finish, BusData!AbortRx
<1>1. BusData!TypeOK'
  BY DEF BusData!HeldByReceiver, BusData!Reading
<1>2. BusData!BusIsPort'
  BY DEF BusData!BusIsPort
<1>3. BusData!PortFollowed'
  BY DEF BusData!PortFollowed
<1>4. BusData!ReadAfterParse'
  BY DEF BusData!PortFollowed, BusData!ReadAfterParse
<1>5. BusData!HeldByReceiver'
  BY DEF BusData!BusIsPort, BusData!PortFollowed, BusData!HeldByReceiver, BusData!Reading
<1>6. BusData!ExpectsNext'
  BY DEF BusData!BusIsPort, BusData!PortFollowed, BusData!ReadAfterParse, BusData!HeldByReceiver,
      BusData!ExpectsNext, BusData!Reading
<1> QED
  BY <1>1, <1>2, <1>3, <1>4, <1>5, <1>6

\* The bytes that were counted are read at once.
LEMMA PollNowKeeps == ASSUME BusData!Inv, BusData!PollNow PROVE BusData!Inv'
<1> USE BusAssumption DEF BusData!Inv, BusData!TypeOK, BusData!None, BusData!Gps, BusData!Other,
    BusData!Any
<1> USE DEF BusData!port, BusData!receiver, BusData!stream, BusData!reading, BusData!task
<1> USE DEF BusData!PollNow, BusData!Start, BusData!Begin, BusData!BeginFails, BusData!AbortRx,
    BusData!LeastOf
<1>1. BusData!TypeOK'
  OBVIOUS
<1>2. BusData!BusIsPort'
  BY DEF BusData!BusIsPort
<1>3. BusData!PortFollowed'
  BY DEF BusData!PortFollowed
<1>4. BusData!ReadAfterParse'
  BY DEF BusData!PortFollowed, BusData!ReadAfterParse
<1>5. BusData!HeldByReceiver'
  BY DEF BusData!BusIsPort, BusData!PortFollowed, BusData!HeldByReceiver, BusData!Reading
<1>6. BusData!ExpectsNext'
  BY DEF BusData!BusIsPort, BusData!PortFollowed, BusData!ReadAfterParse, BusData!HeldByReceiver,
      BusData!ExpectsNext, BusData!Reading
<1> QED
  BY <1>1, <1>2, <1>3, <1>4, <1>5, <1>6

\* The task starts a transfer.
LEMMA StartOneKeeps == ASSUME BusData!Inv, BusData!StartOne PROVE BusData!Inv'
<1> USE BusAssumption DEF BusData!Inv, BusData!TypeOK, BusData!None, BusData!Gps, BusData!Other,
    BusData!Any
<1> USE DEF BusData!port, BusData!receiver, BusData!stream, BusData!reading, BusData!task
<1> USE DEF BusData!StartOne, BusData!Start, BusData!Begin, BusData!BeginFails, BusData!AbortRx,
    BusData!LeastOf
<1>1. BusData!TypeOK'
  OBVIOUS
<1>2. BusData!BusIsPort'
  BY DEF BusData!BusIsPort
<1>3. BusData!PortFollowed'
  BY DEF BusData!PortFollowed
<1>4. BusData!ReadAfterParse'
  BY DEF BusData!PortFollowed, BusData!ReadAfterParse
<1>5. BusData!HeldByReceiver'
  BY DEF BusData!BusIsPort, BusData!PortFollowed, BusData!HeldByReceiver, BusData!Reading
<1>6. BusData!ExpectsNext'
  BY DEF BusData!BusIsPort, BusData!PortFollowed, BusData!ReadAfterParse, BusData!HeldByReceiver,
      BusData!ExpectsNext, BusData!Reading
<1> QED
  BY <1>1, <1>2, <1>3, <1>4, <1>5, <1>6

\* What the port, its interrupt, the other device, the receiver, the task and the client do keeps
\* the invariant.
LEMMA BusStep == ASSUME BusData!Inv, [BusData!Next]_BusData!vars PROVE BusData!Inv'
<1> USE BusAssumption DEF BusData!None, BusData!Gps, BusData!Other, BusData!Any, BusData!port,
    BusData!receiver, BusData!stream, BusData!reading, BusData!task
<1> USE DEF BusData!Inv, BusData!TypeOK, BusData!BusIsPort, BusData!PortFollowed,
    BusData!ReadAfterParse, BusData!HeldByReceiver, BusData!ExpectsNext
<1> USE DEF BusData!Reading
<1>1. CASE BusData!EndTransfer
  BY <1>1, EndTransferKeeps
<1>2. CASE BusData!Makes
  BY <1>2 DEF BusData!Makes
<1>3. CASE BusData!OtherStarts
  BY <1>3 DEF BusData!OtherStarts, BusData!Begin
<1>4. CASE BusData!OtherChecks
  BY <1>4 DEF BusData!OtherChecks, BusData!Release
<1>5. CASE BusData!RunTask
  BY <1>5 DEF BusData!RunTask
<1>6. CASE BusData!PollWaits
  BY <1>6 DEF BusData!PollWaits
<1>7. CASE BusData!PollEnds
  BY <1>7, PollEndsKeeps
<1>8. CASE BusData!PollNow
  BY <1>8, PollNowKeeps
<1>9. CASE BusData!Polled
  BY <1>9 DEF BusData!Polled
<1>10. CASE BusData!Send
  BY <1>10 DEF BusData!Send
<1>11. CASE BusData!Parse
  BY <1>11 DEF BusData!Parse
<1>12. CASE BusData!StartOne
  BY <1>12, StartOneKeeps
<1>13. CASE BusData!Attach
  BY <1>13 DEF BusData!Attach
<1>14. CASE BusData!Detach
  BY <1>14 DEF BusData!Detach
<1>15. CASE BusData!HasToSend
  BY <1>15 DEF BusData!HasToSend
<1>16. CASE BusData!Clear
  BY <1>16 DEF BusData!Clear
<1>17. CASE UNCHANGED BusData!vars
  BY <1>17 DEF BusData!vars
<1> QED
  BY <1>1, <1>2, <1>3, <1>4, <1>5, <1>6, <1>7, <1>8, <1>9, <1>10, <1>11, <1>12, <1>13, <1>14,
    <1>15, <1>16, <1>17 DEF BusData!Next, BusData!TaskStep

\* In every behaviour the stream follows the transfer that has the port and no other, nothing
\* looks at the buffer the bus may write into, the receiver is not read past what it holds, and
\* the client is told of every gap before it gets a byte behind it.
THEOREM PortIsFollowed ==
  BusData!Spec =>
    [](BusData!PortFollowed /\ BusData!BufferIsBus /\ BusData!NoFiller /\ BusData!GapsAreTold)
<1>1. BusData!Init => BusData!Inv
  BY BusInit
<1>2. BusData!Inv /\ [BusData!Next]_BusData!vars => BusData!Inv'
  BY BusStep
<1>3. ASSUME BusData!Inv PROVE BusData!PortFollowed /\ BusData!BufferIsBus /\ BusData!NoFiller
               /\ BusData!GapsAreTold
  <2> USE <1>3 DEF BusData!Inv, BusData!TypeOK, BusData!None, BusData!Gps, BusData!Other,
      BusData!Any
  <2>1. BusData!PortFollowed
    OBVIOUS
  <2>2. BusData!BufferIsBus
    BY DEF BusData!BufferIsBus, BusData!BusIsPort, BusData!PortFollowed, BusData!ReadAfterParse
  <2>3. BusData!NoFiller
    BY DEF BusData!NoFiller, BusData!HeldByReceiver, BusData!Reading
  <2>4. BusData!GapsAreTold
    BY DEF BusData!GapsAreTold, BusData!ReadAfterParse, BusData!ExpectsNext, BusData!Reading
  <2> QED
    BY <2>1, <2>2, <2>3, <2>4
<1> QED
  BY <1>1, <1>2, <1>3, PTL DEF BusData!Spec

-----------------------------------------------------------------------------
(* The stream over SPI, in full duplex.                                       *)

LEMMA FdInit == ASSUME FdData!Init PROVE FdData!Inv
<1> USE FdAssumption DEF FdData!Init, FdData!None, FdData!Fd, FdData!Other, FdData!Any
<1>1. FdData!TypeOK
  <2>1. fdRunning \in BOOLEAN
    OBVIOUS
  <2>2. fdExpects \in Nat /\ fdMade \in 0..FdBytes /\ fdTook \in 0..fdMade
        /\ fdGiven \in 0..fdTook
    OBVIOUS
  <2> QED
    BY <2>1, <2>2 DEF FdData!TypeOK
<1>2. FdData!BusIsPort /\ FdData!PortFollowed /\ FdData!OneAtATime /\ FdData!OnItsWay
      /\ FdData!ReadSoFar /\ FdData!TakenWasSent
  BY DEF FdData!BusIsPort, FdData!PortFollowed, FdData!OneAtATime, FdData!OnItsWay,
     FdData!ReadSoFar, FdData!TakenWasSent
<1> QED
  BY <1>1, <1>2 DEF FdData!Inv

LEMMA FdLeastIs ==
  ASSUME NEW a \in Nat, NEW b \in Nat
  PROVE  /\ FdData!LeastOf(a, b) \in Nat /\ FdData!LeastOf(a, b) <= a /\ FdData!LeastOf(a, b) <= b
         /\ FdData!LeastOf(a, b) = a \/ FdData!LeastOf(a, b) = b
         /\ FdData!MostOf(a, b) \in Nat /\ FdData!MostOf(a, b) >= a /\ FdData!MostOf(a, b) >= b
BY DEF FdData!LeastOf, FdData!MostOf

\* The transfer on the bus ends, late or not.
LEMMA FdEnds == ASSUME FdData!Inv, FdData!EndTransfer PROVE FdData!Inv'
<1> USE FdAssumption DEF FdData!None, FdData!Fd, FdData!Other, FdData!Any
<1>1. FdData!TypeOK /\ FdData!BusIsPort /\ FdData!PortFollowed /\ FdData!OneAtATime
      /\ FdData!OnItsWay /\ FdData!ReadSoFar /\ FdData!TakenWasSent
  BY DEF FdData!Inv
<1>2. PICK ok \in BOOLEAN :
        /\ IF ok THEN UNCHANGED fdFaulted ELSE fdFaulted < FdFaults /\ fdFaulted' = fdFaulted + 1
        /\ fdState' = IF fdUse # FdData!None /\ fdState[fdUse] = "run"
                      THEN [fdState EXCEPT ![fdUse] = IF ok THEN "complete" ELSE "error"]
                        ELSE fdState
        /\ IF fdHw = FdData!Fd THEN FdData!Exchanged(ok) ELSE UNCHANGED <<fdGiven, fdTook, fdHas>>
  BY DEF FdData!EndTransfer
<1>3. /\ fdHw # FdData!None /\ fdHw' = FdData!None
      /\ UNCHANGED <<fdUse, fdMade, fdRunning, fdOut, fdSent, fdHead, fdLeft, fdExpects, fdClient,
         fdTaken, fdWritten,
                     fdPc, fdTurn>>
  BY DEF FdData!EndTransfer, FdData!stream, FdData!reading, FdData!writing, FdData!task
<1>4. /\ fdGiven' \in 0..fdTook' /\ fdTook' \in 0..fdMade /\ fdHas' \in Nat /\ fdHas <= fdHas'
         /\ fdTook <= fdTook'
      /\ fdHw = FdData!Fd /\ ok => fdTook' - fdGiven' = fdTook
      /\ fdHw = FdData!Fd /\ ok /\ fdOut - fdSent <= fdHas => fdOut <= fdHas'
      /\ fdHw # FdData!Fd => UNCHANGED <<fdGiven, fdTook, fdHas>>
  <2>1. CASE fdHw = FdData!Fd
    <3>1. FdData!LeastOf(FdSize, fdMade - fdTook) \in Nat /\ FdData!LeastOf(FdSize,
          fdMade - fdTook) <= fdMade - fdTook
      BY <1>1, FdLeastIs DEF FdData!TypeOK
    <3>2. FdData!MostOf(fdHas, fdOut) \in Nat /\ FdData!MostOf(fdHas, fdOut) >= fdHas
          /\ FdData!MostOf(fdHas, fdOut) >= fdOut
      BY <1>1, FdLeastIs DEF FdData!TypeOK
    <3>3. FdData!Exchanged(ok)
      BY <1>2, <2>1
    <3> QED
      BY <1>1, <2>1, <3>1, <3>2, <3>3 DEF FdData!TypeOK, FdData!Exchanged
  <2>2. CASE fdHw # FdData!Fd
    BY <1>1, <1>2, <2>2 DEF FdData!TypeOK
  <2> QED
    BY <2>1, <2>2
<1>5. FdData!TypeOK'
  BY <1>1, <1>2, <1>3, <1>4 DEF FdData!TypeOK
<1>6. FdData!BusIsPort' /\ FdData!PortFollowed' /\ FdData!OneAtATime'
  BY <1>1, <1>2, <1>3 DEF FdData!TypeOK, FdData!BusIsPort, FdData!PortFollowed, FdData!OneAtATime
<1>7. FdData!TakenWasSent'
  BY <1>1, <1>3, <1>4 DEF FdData!TypeOK, FdData!TakenWasSent
<1>8. fdRunning => fdUse = FdData!Fd
  BY <1>1 DEF FdData!PortFollowed
<1>9. fdRunning /\ fdState'[FdData!Fd] = "complete" =>
        \/ fdHw = FdData!Fd /\ ok /\ fdState[FdData!Fd] = "run"
        \/ fdHw # FdData!Fd /\ fdState[FdData!Fd] = "complete"
  BY <1>1, <1>2, <1>8 DEF FdData!TypeOK, FdData!BusIsPort
<1>10. FdData!OnItsWay'
  <2>1. ASSUME fdRunning, fdState'[FdData!Fd] = "complete" PROVE fdOut <= fdHas'
    <3>1. CASE fdHw = FdData!Fd /\ ok
      <4>1. fdOut - fdSent <= fdHas
        BY <1>1, <2>1 DEF FdData!TypeOK, FdData!OnItsWay, FdData!TakenWasSent
      <4> QED
        BY <1>4, <3>1, <4>1
    <3>2. CASE fdHw # FdData!Fd /\ fdState[FdData!Fd] = "complete"
      BY <1>1, <1>4, <2>1, <3>2 DEF FdData!OnItsWay
    <3> QED
      BY <1>9, <2>1, <3>1, <3>2
  <2> QED
    BY <1>1, <1>3, <2>1 DEF FdData!OnItsWay
<1>11. FdData!ReadSoFar'
  <2>1. fdLeft > 0 => ~(fdHw = FdData!Fd)
    BY <1>1 DEF FdData!ReadSoFar, FdData!OneAtATime
  <2>2. fdLeft > 0 => fdHead + fdLeft = fdTook'
    BY <1>1, <1>4, <2>1 DEF FdData!ReadSoFar
  <2>3. ASSUME fdClient = "both", fdExpects # FdData!Any, ~(fdRunning
               /\ fdState'[FdData!Fd] = "error")
        PROVE  LET next == IF fdLeft > 0 THEN fdHead ELSE FdData!Behind'
               IN fdExpects <= next /\ fdExpects + 1..next \subseteq FdLookIdle
    <3>1. ~(fdRunning /\ fdState[FdData!Fd] = "error")
      BY <1>1, <1>2, <1>8, <2>3 DEF FdData!TypeOK, FdData!BusIsPort
    <3>2. LET next == IF fdLeft > 0 THEN fdHead ELSE FdData!Behind
          IN fdExpects <= next /\ fdExpects + 1..next \subseteq FdLookIdle
      BY <1>1, <2>3, <3>1 DEF FdData!ReadSoFar
    <3>3. fdLeft > 0 \/ FdData!Behind' = FdData!Behind
      <4>1. CASE fdHw = FdData!Fd
        <5>1. fdRunning
          BY <1>1, <2>3, <4>1 DEF FdData!ReadSoFar
        <5>2. fdState[FdData!Fd] = "run" /\ fdState'[FdData!Fd] = "complete" /\ ok
          BY <1>1, <1>2, <1>8, <2>3, <4>1, <5>1 DEF FdData!TypeOK, FdData!BusIsPort
        <5> QED
          BY <1>3, <1>4, <4>1, <5>1, <5>2 DEF FdData!Behind
      <4>2. CASE fdHw # FdData!Fd
        <5>1. fdRunning => (fdState'[FdData!Fd] = "complete" <=> fdState[FdData!Fd] = "complete")
          BY <1>1, <1>2, <1>8, <4>2 DEF FdData!TypeOK, FdData!BusIsPort
        <5> QED
          BY <1>3, <1>4, <4>2, <5>1 DEF FdData!Behind
      <4> QED
        BY <4>1, <4>2
    <3> QED
      BY <3>2, <3>3
  <2> QED
    BY <1>3, <2>2, <2>3 DEF FdData!ReadSoFar
<1> QED
  BY <1>5, <1>6, <1>7, <1>10, <1>11 DEF FdData!Inv

\* A run polls: the transfer is over or given up, and what it brought is handed over.
LEMMA FdPollEnds == ASSUME FdData!Inv, FdData!PollEnds PROVE FdData!Inv'
<1> USE FdAssumption DEF FdData!None, FdData!Fd, FdData!Other, FdData!Any
<1>1. FdData!TypeOK /\ FdData!BusIsPort /\ FdData!PortFollowed /\ FdData!OneAtATime
      /\ FdData!OnItsWay /\ FdData!ReadSoFar /\ FdData!TakenWasSent
  BY DEF FdData!Inv
<1>2. PICK ok \in BOOLEAN : FdData!Release(FdData!Fd, ok) /\ FdData!Finish(ok)
  BY DEF FdData!PollEnds
<1>3. /\ fdPc = "poll" /\ fdRunning /\ fdRunning' = FALSE
      /\ UNCHANGED <<fdMade, fdTook, fdGiven, fdHas, fdOut, fdSent, fdClient, fdWritten, fdPc,
         fdTurn>>
  BY DEF FdData!PollEnds, FdData!device, FdData!task
<1>4. /\ fdUse = FdData!Fd /\ fdUse' = FdData!None
         /\ fdState' = [fdState EXCEPT ![FdData!Fd] = "idle"] /\ UNCHANGED fdHw
      /\ ok <=> fdState[FdData!Fd] = "complete"
      /\ fdFaulted' \in {fdFaulted, fdFaulted + 1}
      /\ fdState' \in [{FdData!Fd, FdData!Other} -> {"idle", "run", "complete", "error"}]
         /\ fdRunning' \in BOOLEAN
  <2>1. /\ fdUse = FdData!Fd /\ fdUse' = FdData!None
           /\ fdState' = [fdState EXCEPT ![FdData!Fd] = "idle"] /\ UNCHANGED fdHw
        /\ \/ fdState[FdData!Fd] = (IF ok THEN "complete" ELSE "error") /\ UNCHANGED fdFaulted
           \/ ~ok /\ fdState[FdData!Fd] = "run" /\ fdFaulted < FdFaults
              /\ fdFaulted' = fdFaulted + 1
    BY <1>2 DEF FdData!Release
  <2>2. ok <=> fdState[FdData!Fd] = "complete"
    BY <2>1
  <2>3. fdState' \in [{FdData!Fd, FdData!Other} -> {"idle", "run", "complete", "error"}]
    BY <1>1, <2>1 DEF FdData!TypeOK
  <2>4. fdRunning' \in BOOLEAN
    BY <1>3
  <2> QED
    BY <2>1, <2>2, <2>3, <2>4
<1>5. /\ FdData!LeastOf(fdTaken + fdSent, fdWritten) \in Nat /\ FdData!LeastOf(fdTaken + fdSent,
         fdWritten) <= fdWritten
      /\ FdData!LeastOf(fdTaken + fdSent, fdWritten) <= fdTaken + fdSent
  <2>1. fdTaken \in Nat /\ fdSent \in Nat /\ fdWritten \in Nat /\ fdTaken + fdSent \in Nat
    BY <1>1 DEF FdData!TypeOK
  <2> QED
    BY <2>1, FdLeastIs
<1>6. CASE ok
  <2>1. fdTaken' = FdData!LeastOf(fdTaken + fdSent, fdWritten)
    BY <1>2, <1>6 DEF FdData!Finish
  <2>2. fdTaken' <= fdHas
    <3>1. fdOut <= fdHas
      BY <1>1, <1>3, <1>4, <1>6 DEF FdData!OnItsWay
    <3>2. CASE fdOut = fdTaken + fdSent /\ fdOut <= fdWritten
      BY <1>1, <1>5, <2>1, <3>1, <3>2 DEF FdData!TypeOK
    <3>3. CASE fdTaken = fdWritten
      BY <1>1, <1>5, <2>1, <3>3 DEF FdData!TypeOK, FdData!TakenWasSent
    <3> QED
      BY <1>1, <1>3, <3>2, <3>3 DEF FdData!OnItsWay
  <2>3. fdLeft = 0 /\ fdHw = FdData!None
    BY <1>1, <1>3, <1>4, <1>6 DEF FdData!OneAtATime, FdData!BusIsPort
  <2>4. /\ fdExpects' = fdExpects
        /\ \/ fdLeft' = fdGiven /\ fdHead' = fdTook - fdGiven
           \/ UNCHANGED <<fdHead, fdLeft>> /\ fdTook - fdGiven + 1..fdTook \subseteq FdLookIdle
    BY <1>2, <1>6 DEF FdData!Finish, FdData!reading
  <2>5. fdLeft' \in Nat /\ fdHead' \in Nat
    BY <1>1, <2>4 DEF FdData!TypeOK
  <2>6. FdData!TypeOK'
    BY <1>1, <1>3, <1>4, <1>5, <2>1, <2>4, <2>5 DEF FdData!TypeOK
  <2>7. FdData!BusIsPort' /\ FdData!PortFollowed' /\ FdData!OneAtATime' /\ FdData!OnItsWay'
        /\ FdData!TakenWasSent'
    BY <1>1, <1>3, <1>4, <2>2 DEF FdData!TypeOK, FdData!BusIsPort, FdData!PortFollowed,
       FdData!OneAtATime, FdData!OnItsWay,
       FdData!TakenWasSent
  <2>8. fdLeft' > 0 => fdHead' + fdLeft' = fdTook
    BY <1>1, <2>3, <2>4 DEF FdData!TypeOK
  <2>9. ASSUME fdClient = "both", fdExpects # FdData!Any
        PROVE  LET next == IF fdLeft' > 0 THEN fdHead' ELSE fdTook
               IN fdExpects <= next /\ fdExpects + 1..next \subseteq FdLookIdle
    <3>1. fdExpects <= fdTook - fdGiven /\ fdExpects + 1..fdTook - fdGiven \subseteq FdLookIdle
      BY <1>1, <1>3, <1>4, <1>6, <2>3, <2>9 DEF FdData!ReadSoFar, FdData!Behind
    <3>2. fdTook \in Nat /\ fdGiven \in 0..fdTook /\ fdExpects \in Nat
      BY <1>1 DEF FdData!TypeOK
    <3>3. CASE fdLeft' = fdGiven /\ fdHead' = fdTook - fdGiven
      BY <3>1, <3>2, <3>3
    <3>4. CASE UNCHANGED <<fdHead, fdLeft>> /\ fdTook - fdGiven + 1..fdTook \subseteq FdLookIdle
      <4>1. \A k \in fdExpects + 1..fdTook : k \in fdExpects + 1..fdTook - fdGiven
            \/ k \in fdTook - fdGiven + 1..fdTook
        BY <3>2
      <4> QED
        BY <2>3, <3>1, <3>2, <3>4, <4>1
    <3> QED
      BY <2>4, <3>3, <3>4
  <2>10. FdData!ReadSoFar'
    BY <1>3, <1>4, <2>3, <2>4, <2>8, <2>9 DEF FdData!ReadSoFar, FdData!Behind
  <2> QED
    BY <2>6, <2>7, <2>10 DEF FdData!Inv
<1>7. CASE ~ok
  <2>1. fdLeft' = 0 /\ fdExpects' = FdData!Any /\ UNCHANGED <<fdHead, fdTaken>>
    BY <1>2, <1>7 DEF FdData!Finish
  <2>2. FdData!TypeOK'
    BY <1>1, <1>3, <1>4, <2>1 DEF FdData!TypeOK
  <2>3. FdData!BusIsPort'
    BY <1>1, <1>3, <1>4 DEF FdData!TypeOK, FdData!BusIsPort
  <2>4. FdData!PortFollowed' /\ FdData!OneAtATime' /\ FdData!OnItsWay' /\ FdData!ReadSoFar'
        /\ FdData!TakenWasSent'
    BY <1>1, <1>3, <1>4, <2>1 DEF FdData!TypeOK, FdData!PortFollowed, FdData!OneAtATime,
       FdData!OnItsWay, FdData!ReadSoFar,
       FdData!TakenWasSent
  <2> QED
    BY <2>2, <2>3, <2>4 DEF FdData!Inv
<1> QED
  BY <1>6, <1>7


\* A transfer is asked for.
LEMMA FdStartOne == ASSUME FdData!Inv, FdData!StartOne PROVE FdData!Inv'
<1> USE FdAssumption DEF FdData!None, FdData!Fd, FdData!Other, FdData!Any
<1> DEFINE n == FdData!LeastOf(fdWritten - fdTaken, FdSize)
<1>1. FdData!TypeOK /\ FdData!BusIsPort /\ FdData!PortFollowed /\ FdData!OneAtATime
      /\ FdData!OnItsWay /\ FdData!ReadSoFar /\ FdData!TakenWasSent
  BY DEF FdData!Inv
<1>2. /\ fdPc = "start" /\ fdTurn' = "second" /\ fdLeft = 0 /\ ~fdRunning
      /\ UNCHANGED <<fdMade, fdTook, fdGiven, fdHas, fdHead, fdLeft, fdExpects, fdClient, fdTaken,
         fdWritten>>
  BY <1>1 DEF FdData!StartOne, FdData!OneAtATime, FdData!device, FdData!reading, FdData!writing
<1>3. n \in Nat /\ fdTaken + n <= fdWritten
  <2>1. fdWritten - fdTaken \in Nat /\ FdSize \in Nat /\ fdTaken \in Nat /\ fdWritten \in Nat
    BY <1>1 DEF FdData!TypeOK
  <2>2. n \in Nat /\ n <= fdWritten - fdTaken
    BY <2>1, FdLeastIs
  <2> QED
    BY <2>1, <2>2
<1> HIDE DEF n
<1>4. \/ /\ UNCHANGED <<fdUse, fdState, fdHw, fdFaulted, fdRunning, fdOut, fdSent>>
         /\ fdPc' \in {"off", "parse"}
      \/ /\ fdUse = FdData!None /\ fdHw = FdData!None /\ fdUse' = FdData!Fd /\ fdHw' = FdData!Fd
         /\ fdState' = [fdState EXCEPT ![FdData!Fd] = "run"] /\ UNCHANGED fdFaulted
         /\ fdOut' = fdTaken + n /\ fdSent' = n /\ fdRunning' = TRUE /\ fdPc' = "poll"
      \/ /\ UNCHANGED <<fdUse, fdState, fdHw, fdRunning, fdSent>> /\ fdPc' = "parse"
         /\ fdFaulted' \in {fdFaulted, fdFaulted + 1} /\ fdOut' \in {fdOut, fdTaken + n}
  BY DEF FdData!StartOne, FdData!Start, FdData!Begin, FdData!BeginFails, FdData!port,
     FdData!stream, n
<1>5. FdData!TypeOK'
  <2>1. /\ fdUse' \in {FdData!None, FdData!Fd, FdData!Other} /\ fdHw' \in {FdData!None, FdData!Fd,
           FdData!Other}
        /\ fdState' \in [{FdData!Fd, FdData!Other} -> {"idle", "run", "complete", "error"}]
    BY <1>1, <1>4 DEF FdData!TypeOK
  <2>2. fdRunning' \in BOOLEAN
    BY <1>1, <1>4 DEF FdData!TypeOK
  <2>3. fdOut' \in Nat /\ fdSent' \in Nat /\ fdFaulted' \in Nat
    BY <1>1, <1>3, <1>4 DEF FdData!TypeOK
  <2> QED
    BY <1>1, <1>2, <1>4, <2>1, <2>2, <2>3 DEF FdData!TypeOK
<1>6. FdData!BusIsPort' /\ FdData!PortFollowed' /\ FdData!OneAtATime'
  BY <1>1, <1>2, <1>4 DEF FdData!TypeOK, FdData!BusIsPort, FdData!PortFollowed, FdData!OneAtATime
<1>7. FdData!OnItsWay' /\ FdData!TakenWasSent'
  BY <1>1, <1>2, <1>3, <1>4 DEF FdData!TypeOK, FdData!OnItsWay, FdData!TakenWasSent
<1>8. FdData!ReadSoFar'
  <2>1. fdRunning' => fdState'[FdData!Fd] = "run"
    BY <1>1, <1>2, <1>4 DEF FdData!TypeOK
  <2>2. FdData!Behind' = fdTook /\ FdData!Behind = fdTook
    BY <1>2, <2>1 DEF FdData!Behind
  <2>3. fdHw' = FdData!Fd /\ ~fdRunning' => fdHw = FdData!Fd /\ ~fdRunning
    BY <1>2, <1>4
  <2>4. ~(fdRunning' /\ fdState'[FdData!Fd] = "error") /\ ~(fdRunning
        /\ fdState[FdData!Fd] = "error")
    BY <1>2, <2>1
  <2> QED
    BY <1>1, <1>2, <2>2, <2>3, <2>4 DEF FdData!ReadSoFar
<1> QED
  BY <1>5, <1>6, <1>7, <1>8 DEF FdData!Inv

\* The client takes bytes or leaves them.
LEMMA FdParses == ASSUME FdData!Inv, FdData!Parse PROVE FdData!Inv'
<1> USE FdAssumption DEF FdData!None, FdData!Fd, FdData!Other, FdData!Any
<1>1. FdData!TypeOK /\ FdData!BusIsPort /\ FdData!PortFollowed /\ FdData!OneAtATime
      /\ FdData!OnItsWay /\ FdData!ReadSoFar /\ FdData!TakenWasSent
  BY DEF FdData!Inv
<1>2. /\ fdPc = "parse" /\ ~fdRunning
      /\ UNCHANGED <<fdUse, fdState, fdHw, fdFaulted, fdMade, fdTook, fdGiven, fdHas, fdRunning,
         fdOut, fdSent, fdClient,
                     fdTaken, fdWritten, fdTurn>>
  BY <1>1 DEF FdData!Parse, FdData!OneAtATime, FdData!port, FdData!device, FdData!stream,
     FdData!writing
<1>3. \/ /\ fdClient = "both" /\ fdPc' = fdPc
         /\ \E k \in 1..fdLeft : fdHead' = fdHead + k /\ fdLeft' = fdLeft - k
            /\ fdExpects' = fdHead + k
      \/ UNCHANGED <<fdHead, fdLeft, fdExpects>> /\ fdPc' \in {"off", "start"} /\ (fdPc' = "start"
         => fdLeft = 0)
      \/ fdClient = "sends" /\ fdLeft > 0 /\ fdLeft' = 0 /\ UNCHANGED <<fdHead, fdExpects, fdPc>>
  BY DEF FdData!Parse, FdData!reading
<1>4. FdData!TypeOK' /\ (fdLeft' > 0 => fdLeft > 0)
  <2>1. fdHead' \in Nat /\ fdLeft' \in Nat /\ fdExpects' \in Nat /\ (fdLeft' > 0 => fdLeft > 0)
    BY <1>1, <1>3 DEF FdData!TypeOK
  <2> QED
    BY <1>1, <1>2, <1>3, <2>1 DEF FdData!TypeOK
<1>5. FdData!BusIsPort' /\ FdData!PortFollowed' /\ FdData!OneAtATime' /\ FdData!OnItsWay'
      /\ FdData!TakenWasSent'
  BY <1>1, <1>2, <1>3, <1>4 DEF FdData!BusIsPort, FdData!PortFollowed, FdData!OneAtATime,
     FdData!OnItsWay, FdData!TakenWasSent
<1>6. FdData!ReadSoFar'
  <2>1. FdData!Behind' = fdTook /\ FdData!Behind = fdTook
    BY <1>2 DEF FdData!Behind
  <2>2. CASE /\ fdClient = "both" /\ fdPc' = fdPc
             /\ \E k \in 1..fdLeft : fdHead' = fdHead + k /\ fdLeft' = fdLeft - k
                /\ fdExpects' = fdHead + k
    <3>1. PICK k \in 1..fdLeft : fdHead' = fdHead + k /\ fdLeft' = fdLeft - k
               /\ fdExpects' = fdHead + k
      BY <2>2
    <3>2. fdHead \in Nat /\ fdLeft \in Nat /\ fdTook \in Nat /\ k \in Nat /\ fdLeft > 0
      BY <1>1, <3>1 DEF FdData!TypeOK
    <3>3. fdHead + fdLeft = fdTook /\ fdHw # FdData!Fd
      BY <1>1, <1>2, <3>2 DEF FdData!ReadSoFar
    <3>4. LET next == IF fdLeft' > 0 THEN fdHead' ELSE fdTook
          IN fdExpects' = next /\ (fdLeft' > 0 => fdHead' + fdLeft' = fdTook)
      BY <3>1, <3>2, <3>3
    <3>5. LET next == IF fdLeft' > 0 THEN fdHead' ELSE fdTook
          IN fdExpects' <= next /\ fdExpects' + 1..next \subseteq FdLookIdle
      BY <3>1, <3>2, <3>4
    <3> QED
      BY <1>2, <2>1, <3>3, <3>4, <3>5 DEF FdData!ReadSoFar
  <2>3. CASE UNCHANGED <<fdHead, fdLeft, fdExpects>>
    BY <1>1, <1>2, <2>1, <2>3 DEF FdData!ReadSoFar
  <2>4. CASE fdClient = "sends" /\ fdLeft > 0 /\ fdLeft' = 0 /\ UNCHANGED <<fdHead, fdExpects,
             fdPc>>
    BY <1>1, <1>2, <2>4 DEF FdData!ReadSoFar
  <2> QED
    BY <1>3, <2>2, <2>3, <2>4
<1> QED
  BY <1>4, <1>5, <1>6 DEF FdData!Inv

\* The client before goes, with what it has not read or sent.
LEMMA FdChanges ==
  ASSUME FdData!Inv, NEW to \in {"both", "sends", "none"}, FdData!Changes(to),
         \/ UNCHANGED <<fdPc, fdTurn>>
         \/ fdPc' = "poll" /\ fdTurn' = "clear"
  PROVE  FdData!Inv'
<1> USE FdAssumption DEF FdData!None, FdData!Fd, FdData!Other, FdData!Any
<1>1. FdData!TypeOK /\ FdData!BusIsPort /\ FdData!PortFollowed /\ FdData!OneAtATime
      /\ FdData!OnItsWay /\ FdData!ReadSoFar /\ FdData!TakenWasSent
  BY DEF FdData!Inv
<1>2. /\ fdClient' = to /\ fdLeft' = 0 /\ fdExpects' = FdData!Any /\ fdTaken' = fdWritten
      /\ fdHas' = FdData!MostOf(fdHas, fdWritten)
      /\ UNCHANGED <<fdUse, fdState, fdHw, fdFaulted, fdMade, fdTook, fdGiven, fdRunning, fdOut,
         fdSent, fdHead, fdWritten>>
  BY DEF FdData!Changes, FdData!port, FdData!stream
<1>3. FdData!MostOf(fdHas, fdWritten) \in Nat /\ FdData!MostOf(fdHas, fdWritten) >= fdHas
      /\ FdData!MostOf(fdHas, fdWritten) >= fdWritten
  BY <1>1, FdLeastIs DEF FdData!TypeOK
<1>4. FdData!TypeOK'
  BY <1>1, <1>2, <1>3 DEF FdData!TypeOK
<1>5. FdData!BusIsPort' /\ FdData!PortFollowed' /\ FdData!OneAtATime' /\ FdData!ReadSoFar'
      /\ FdData!TakenWasSent'
  BY <1>1, <1>2, <1>3 DEF FdData!BusIsPort, FdData!PortFollowed, FdData!OneAtATime,
     FdData!ReadSoFar, FdData!TakenWasSent
<1>6. FdData!OnItsWay'
  <2>1. fdRunning => fdOut <= fdWritten
    BY <1>1 DEF FdData!OnItsWay, FdData!TypeOK
  <2>2. fdRunning /\ fdState[FdData!Fd] = "complete" => fdOut <= fdHas'
    BY <1>1, <1>2, <1>3 DEF FdData!OnItsWay, FdData!TypeOK
  <2> QED
    BY <1>2, <2>1, <2>2 DEF FdData!OnItsWay
<1> QED
  BY <1>4, <1>5, <1>6 DEF FdData!Inv

\* Whatever the bus, the two devices, the task, the client and the application do.
LEMMA FdStep == FdData!Inv /\ [FdData!Next]_FdData!vars => FdData!Inv'
<1> SUFFICES ASSUME FdData!Inv, [FdData!Next]_FdData!vars PROVE FdData!Inv'
  OBVIOUS
<1> USE FdAssumption DEF FdData!None, FdData!Fd, FdData!Other, FdData!Any
<1>1. FdData!TypeOK /\ FdData!BusIsPort /\ FdData!PortFollowed /\ FdData!OneAtATime
      /\ FdData!OnItsWay /\ FdData!ReadSoFar /\ FdData!TakenWasSent
  BY DEF FdData!Inv
<1> DEFINE Parts == FdData!TypeOK' /\ FdData!BusIsPort' /\ FdData!PortFollowed'
                    /\ FdData!OneAtATime' /\ FdData!OnItsWay'
                    /\ FdData!ReadSoFar' /\ FdData!TakenWasSent'
<1>2. Parts => FdData!Inv'
  BY DEF FdData!Inv
<1>3. CASE FdData!Makes
  <2> USE DEF FdData!Makes, FdData!port, FdData!stream, FdData!reading, FdData!writing,
          FdData!task
  <2>1. fdMade' = fdMade + 1 /\ fdMade' \in 0..FdBytes /\ fdTook \in 0..fdMade'
    BY <1>1, <1>3 DEF FdData!TypeOK
  <2>2. FdData!TypeOK'
    BY <1>1, <1>3, <2>1 DEF FdData!TypeOK
  <2>3. FdData!BusIsPort' /\ FdData!PortFollowed' /\ FdData!OneAtATime' /\ FdData!OnItsWay'
        /\ FdData!ReadSoFar' /\ FdData!TakenWasSent'
    BY <1>1, <1>3 DEF FdData!BusIsPort, FdData!PortFollowed, FdData!OneAtATime, FdData!OnItsWay,
       FdData!ReadSoFar, FdData!TakenWasSent, FdData!Behind
  <2> QED
    BY <1>2, <2>2, <2>3
<1>4. CASE FdData!OtherStarts
  <2> USE DEF FdData!OtherStarts, FdData!Begin, FdData!device, FdData!stream, FdData!reading,
          FdData!writing, FdData!task
  <2>1. FdData!TypeOK' /\ FdData!BusIsPort' /\ FdData!PortFollowed'
    BY <1>1, <1>4 DEF FdData!TypeOK, FdData!BusIsPort, FdData!PortFollowed
  <2>2. fdState'[FdData!Fd] = fdState[FdData!Fd]
    BY <1>1, <1>4 DEF FdData!TypeOK
  <2>3. FdData!OneAtATime' /\ FdData!OnItsWay' /\ FdData!ReadSoFar' /\ FdData!TakenWasSent'
    BY <1>1, <1>4, <2>2 DEF FdData!OneAtATime, FdData!OnItsWay, FdData!ReadSoFar,
       FdData!TakenWasSent, FdData!Behind
  <2> QED
    BY <1>2, <2>1, <2>3
<1>5. CASE FdData!OtherChecks
  <2>1. /\ fdUse = FdData!Other /\ fdUse' = FdData!None
           /\ fdState' = [fdState EXCEPT ![FdData!Other] = "idle"]
        /\ UNCHANGED <<fdHw, fdMade, fdTook, fdGiven, fdHas, fdRunning, fdOut, fdSent, fdHead,
           fdLeft, fdExpects, fdClient,
                       fdTaken, fdWritten, fdPc, fdTurn>>
        /\ fdFaulted' \in {fdFaulted, fdFaulted + 1}
    BY <1>5 DEF FdData!OtherChecks, FdData!Release, FdData!device, FdData!stream, FdData!reading,
       FdData!writing, FdData!task
  <2>2. FdData!TypeOK' /\ FdData!BusIsPort' /\ FdData!PortFollowed'
        /\ fdState'[FdData!Fd] = fdState[FdData!Fd]
    BY <1>1, <2>1 DEF FdData!TypeOK, FdData!BusIsPort, FdData!PortFollowed
  <2>3. FdData!OneAtATime' /\ FdData!OnItsWay' /\ FdData!ReadSoFar' /\ FdData!TakenWasSent'
    BY <1>1, <2>1, <2>2 DEF FdData!OneAtATime, FdData!OnItsWay, FdData!ReadSoFar,
       FdData!TakenWasSent, FdData!Behind
  <2> QED
    BY <1>2, <2>2, <2>3
<1>6. CASE FdData!RunTask \/ FdData!PollWaits \/ FdData!Polled
  <2>1. UNCHANGED <<fdUse, fdState, fdHw, fdFaulted, fdMade, fdTook, fdGiven, fdHas, fdRunning,
        fdOut, fdSent, fdHead, fdLeft,
                    fdExpects, fdClient, fdTaken, fdWritten>>
    BY <1>6 DEF FdData!RunTask, FdData!PollWaits, FdData!Polled, FdData!port, FdData!device,
       FdData!stream, FdData!reading, FdData!writing
  <2>2. /\ fdPc' \in {"off", "poll", "send", "parse", "gone"}
        /\ fdTurn' \in {"was", "entry", "second", "clear"}
        /\ fdRunning => fdPc' \in {"off", "poll"}
    BY <1>1, <1>6 DEF FdData!RunTask, FdData!PollWaits, FdData!Polled, FdData!TypeOK
  <2>3. FdData!TypeOK' /\ FdData!BusIsPort' /\ FdData!PortFollowed' /\ FdData!OneAtATime'
    BY <1>1, <2>1, <2>2 DEF FdData!TypeOK, FdData!BusIsPort, FdData!PortFollowed,
       FdData!OneAtATime
  <2>4. FdData!OnItsWay' /\ FdData!ReadSoFar' /\ FdData!TakenWasSent'
    BY <1>1, <2>1 DEF FdData!OnItsWay, FdData!ReadSoFar, FdData!TakenWasSent, FdData!Behind
  <2> QED
    BY <1>2, <2>3, <2>4
<1>7. CASE FdData!Send
  <2>1. /\ fdPc = "send" /\ fdPc' = "parse" /\ ~fdRunning
        /\ UNCHANGED <<fdUse, fdState, fdHw, fdFaulted, fdMade, fdTook, fdGiven, fdHas, fdRunning,
           fdOut, fdSent, fdHead,
                       fdLeft, fdExpects, fdClient, fdTaken, fdTurn>>
    BY <1>1, <1>7 DEF FdData!Send, FdData!OneAtATime, FdData!port, FdData!device, FdData!stream,
       FdData!reading
  <2>2. fdWritten' \in Nat /\ fdTaken <= fdWritten'
    BY <1>1, <1>7 DEF FdData!Send, FdData!TypeOK
  <2>3. FdData!TypeOK' /\ FdData!BusIsPort' /\ FdData!PortFollowed' /\ FdData!OneAtATime'
    BY <1>1, <2>1, <2>2 DEF FdData!TypeOK, FdData!BusIsPort, FdData!PortFollowed,
       FdData!OneAtATime
  <2>4. FdData!OnItsWay' /\ FdData!ReadSoFar' /\ FdData!TakenWasSent'
    BY <1>1, <2>1 DEF FdData!OnItsWay, FdData!ReadSoFar, FdData!TakenWasSent, FdData!Behind
  <2> QED
    BY <1>2, <2>3, <2>4
<1>8. CASE FdData!Attach \/ FdData!Detach \/ FdData!Clear
  BY <1>8, FdChanges DEF FdData!Attach, FdData!Detach, FdData!Clear, FdData!task
<1>9. CASE UNCHANGED FdData!vars
  BY <1>9 DEF FdData!vars, FdData!port, FdData!device, FdData!stream, FdData!reading,
     FdData!writing, FdData!task, FdData!Inv, FdData!TypeOK, FdData!BusIsPort,
     FdData!PortFollowed, FdData!OneAtATime, FdData!OnItsWay, FdData!ReadSoFar,
       FdData!TakenWasSent, FdData!Behind
<1> QED
  BY <1>3, <1>4, <1>5, <1>6, <1>7, <1>8, <1>9, FdEnds, FdPollEnds, FdStartOne, FdParses
     DEF FdData!Next, FdData!TaskStep

\* In full duplex over SPI, for any number of bytes, size of the buffers and number of faults: what
\* the client wrote is dropped only when the device has it, what it reads follows on what it read
\* but for idle bytes unless it was told, and the port is the stream's while it follows a transfer.
THEOREM BothWaysTrue ==
  FdData!Spec => [](FdData!TakenWasSent /\ FdData!GapsAreTold /\ FdData!PortFollowed)
<1>1. FdData!Init => FdData!Inv
  BY FdInit
<1>2. FdData!Inv /\ [FdData!Next]_FdData!vars => FdData!Inv'
  BY FdStep
<1>3. ASSUME FdData!Inv PROVE FdData!TakenWasSent /\ FdData!GapsAreTold /\ FdData!PortFollowed
  <2>1. fdRunning => fdLeft = 0
    BY <1>3 DEF FdData!Inv, FdData!OneAtATime
  <2>2. FdData!GapsAreTold
    BY <1>3, <2>1 DEF FdData!Inv, FdData!ReadSoFar, FdData!GapsAreTold
  <2> QED
    BY <1>3, <2>2 DEF FdData!Inv
<1> QED
  BY <1>1, <1>2, <1>3, PTL DEF FdData!Spec

-----------------------------------------------------------------------------
(* The stream over CAN.                                                      *)

-----------------------------------------------------------------------------
\* The greatest of some numbers none of which is above a bound.
LEMMA GreatestNumber ==
  ASSUME NEW S \in SUBSET Nat, S # {}, NEW n \in Nat, \A x \in S : x <= n
  PROVE  CanData!Max(S) \in S /\ \A x \in S : x <= CanData!Max(S)
<1> DEFINE T == {n - x : x \in S}
<1>1. T \in SUBSET Nat /\ T # {}
  <2>1. ASSUME NEW x \in S PROVE n - x \in Nat
    <3>1. x \in Nat /\ x <= n
      OBVIOUS
    <3> QED
      BY <3>1
  <2> QED
    BY <2>1
<1>2. PICK m \in T : \A j \in T : m <= j
  <2> HIDE DEF T
  <2> QED
    BY <1>1, LeastNumber
<1>3. PICK y \in S : m = n - y
  BY <1>2
<1>4. ASSUME NEW x \in S PROVE x <= y
  <2>1. n - x \in T
    OBVIOUS
  <2>2. m <= n - x
    BY <1>2, <2>1
  <2> QED
    BY <1>3, <2>2
<1>5. \E z \in S : \A x \in S : x <= z
  BY <1>4
<1>6. \E z \in S : \A x \in S : z >= x
  BY <1>5
<1> QED
  BY <1>6 DEF CanData!Max

LEMMA LesserIs ==
  ASSUME NEW a \in Nat, NEW b \in Nat
  PROVE  CanData!Min({a, b}) \in Nat /\ CanData!Min({a, b}) <= a /\ CanData!Min({a, b}) <= b
BY DEF CanData!Min

LEMMA FloorIs ==
  ASSUME NEW n \in Nat, n > 0
  PROVE  LET m == CanData!FloorLength(n) IN m \in Nat \ {0} /\ m <= n
<1> DEFINE S == {l \in CanLengths : l <= n}
<1>1. S \in SUBSET Nat /\ 1 \in S /\ (\A x \in S : x <= n) /\ \A x \in S : x # 0
  <2>1. 1 <= n
    OBVIOUS
  <2> QED
    BY <2>1, CanAssumption
<1>2. CanData!Max(S) \in S
  <2> HIDE DEF S
  <2> QED
    BY <1>1, GreatestNumber
<1> QED
  BY <1>1, <1>2 DEF CanData!FloorLength

-----------------------------------------------------------------------------
\* The length of the first n frames of a queue.
LEMMA LengthsExist ==
  ASSUME NEW q, NEW n \in Nat, \A k \in 1..n : q[k].length \in Nat
  PROVE  \E f \in [0..n -> Nat] : f = [k \in 0..n |-> IF k = 0 THEN 0 ELSE f[k - 1] + q[k].length]
<1> DEFINE Sum(m) == {f \in [0..m -> Nat] :
                        f = [k \in 0..m |-> IF k = 0 THEN 0 ELSE f[k - 1] + q[k].length]}
           Have == {m \in Nat : Sum(m) # {}}
<1>1. 0 \in Have
  <2> DEFINE g == [k \in 0..0 |-> 0]
  <2>1. g \in [0..0 -> Nat] /\ g = [k \in 0..0 |-> IF k = 0 THEN 0 ELSE g[k - 1] + q[k].length]
    OBVIOUS
  <2>2. g \in Sum(0)
    BY <2>1
  <2> QED
    BY <2>2
<1>2. ASSUME NEW m \in 1..n, m - 1 \in Have PROVE m \in Have
  <2>1. m \in Nat /\ m - 1 \in Nat /\ m # 0
    BY <1>2
  <2>2. PICK f \in [0..m - 1 -> Nat] :
          f = [k \in 0..m - 1 |-> IF k = 0 THEN 0 ELSE f[k - 1] + q[k].length]
    BY <1>2
  <2> DEFINE g == [k \in 0..m |-> IF k = m THEN f[m - 1] + q[m].length ELSE f[k]]
  <2>3. g \in [0..m -> Nat]
    BY <2>1
  <2>4. ASSUME NEW k \in 0..m PROVE g[k] = IF k = 0 THEN 0 ELSE g[k - 1] + q[k].length
    BY <2>1, <2>2
  <2>5. g = [k \in 0..m |-> IF k = 0 THEN 0 ELSE g[k - 1] + q[k].length]
    BY <2>3, <2>4
  <2>6. g \in Sum(m)
    BY <2>3, <2>5
  <2> QED
    BY <2>1, <2>6
<1>3. n \in Have
  <2>1. \A m \in 1..n : m - 1 \in Have => m \in Have
    BY <1>2
  <2> HIDE DEF Have
  <2>2. 0..n \subseteq Have
    BY <1>1, <2>1, UpTo
  <2>3. n \in 0..n
    OBVIOUS
  <2> QED
    BY <2>2, <2>3
<1> QED
  BY <1>3

\* It is the sum of the lengths.
LEMMA LengthIs ==
  ASSUME NEW q, NEW n \in Nat, \A k \in 1..n : q[k].length \in Nat
  PROVE  /\ CanData!LengthTo(q, n) \in Nat
         /\ n = 0 => CanData!LengthTo(q, n) = 0
         /\ n > 0 => CanData!LengthTo(q, n) = CanData!LengthTo(q, n - 1) + q[n].length
<1> DEFINE F(m) == CHOOSE at : at = [k \in 0..m |-> IF k = 0 THEN 0 ELSE at[k - 1] + q[k].length]
<1>1. ASSUME NEW m \in 0..n
      PROVE  F(m) = [k \in 0..m |-> IF k = 0 THEN 0 ELSE F(m)[k - 1] + q[k].length]
  <2>1. m \in Nat /\ \A k \in 1..m : q[k].length \in Nat
    OBVIOUS
  <2>2. \E f \in [0..m -> Nat] : f = [k \in 0..m |-> IF k = 0 THEN 0 ELSE f[k - 1] + q[k].length]
    BY <2>1, LengthsExist
  <2> QED
    BY <2>2
<1>2. \A m \in 0..n : CanData!LengthTo(q, m) = F(m)[m]
  BY DEF CanData!LengthTo
<1> HIDE DEF F
<1>3. ASSUME NEW m \in 0..n, NEW k \in 0..m
      PROVE  F(m)[k] = IF k = 0 THEN 0 ELSE F(m)[k - 1] + q[k].length
  BY <1>1
<1>4. ASSUME NEW m \in 0..n PROVE \A k \in 0..m : F(m)[k] = F(n)[k] /\ F(n)[k] \in Nat
  <2> DEFINE Same == {k \in 0..m : F(m)[k] = F(n)[k] /\ F(n)[k] \in Nat}
  <2>1. 0 \in Same
    BY <1>3
  <2>2. ASSUME NEW k \in 1..m, k - 1 \in Same PROVE k \in Same
    <3>1. k \in 0..m /\ k \in 0..n /\ k # 0 /\ q[k].length \in Nat /\ n \in 0..n
      OBVIOUS
    <3>2. F(m)[k] = F(m)[k - 1] + q[k].length /\ F(n)[k] = F(n)[k - 1] + q[k].length
      BY <1>3, <3>1
    <3>3. F(m)[k - 1] = F(n)[k - 1] /\ F(n)[k - 1] \in Nat
      BY <2>2
    <3> QED
      BY <3>1, <3>2, <3>3
  <2>3. 0..m \subseteq Same
    <3>1. m \in Nat /\ \A k \in 1..m : k - 1 \in Same => k \in Same
      BY <2>2
    <3> HIDE DEF Same
    <3> QED
      BY <2>1, <3>1, UpTo
  <2> QED
    BY <2>3
<1>5. n \in 0..n /\ CanData!LengthTo(q, n) = F(n)[n]
  BY <1>2
<1>6. CanData!LengthTo(q, n) \in Nat
  BY <1>4, <1>5
<1>7. n = 0 => CanData!LengthTo(q, n) = 0
  BY <1>3, <1>5
<1>8. ASSUME n > 0 PROVE CanData!LengthTo(q, n) = CanData!LengthTo(q, n - 1) + q[n].length
  <2>1. n - 1 \in 0..n /\ n - 1 \in 0..n - 1 /\ n # 0
    BY <1>8
  <2>2. CanData!LengthTo(q, n - 1) = F(n - 1)[n - 1] /\ F(n - 1)[n - 1] = F(n)[n - 1]
    BY <1>2, <1>4, <2>1
  <2>3. F(n)[n] = F(n)[n - 1] + q[n].length
    BY <1>3, <1>5, <2>1
  <2> QED
    BY <1>5, <2>2, <2>3
<1> QED
  BY <1>6, <1>7, <1>8

\* The frames of one queue are as long as those of another behind its first d.
LEMMA LengthBehind ==
  ASSUME NEW p, NEW q, NEW n \in Nat, NEW d \in Nat,
         \A k \in 1..n + d : q[k].length \in Nat, \A k \in 1..n : p[k].length = q[d + k].length
  PROVE  CanData!LengthTo(q, d + n) = CanData!LengthTo(q, d) + CanData!LengthTo(p, n)
<1> DEFINE P(k) == CanData!LengthTo(p, k)
           Q(k) == CanData!LengthTo(q, k)
           Same == {k \in 0..n : Q(d + k) = Q(d) + P(k)}
<1>1. ASSUME NEW k \in 0..n
      PROVE  P(k) \in Nat /\ (k = 0 => P(k) = 0) /\ (k > 0 => P(k) = P(k - 1) + p[k].length)
  <2>1. k \in Nat /\ \A j \in 1..k : p[j].length \in Nat
    <3>1. ASSUME NEW j \in 1..k PROVE p[j].length \in Nat
      <4>1. j \in 1..n /\ d + j \in 1..n + d
        OBVIOUS
      <4> QED
        BY <4>1
    <3> QED
      BY <3>1
  <2> QED
    BY <2>1, LengthIs
<1>2. ASSUME NEW k \in 0..n + d
      PROVE  Q(k) \in Nat /\ (k > 0 => Q(k) = Q(k - 1) + q[k].length)
  <2>1. k \in Nat /\ \A j \in 1..k : q[j].length \in Nat
    OBVIOUS
  <2> QED
    BY <2>1, LengthIs
<1> HIDE DEF P, Q
<1>3. 0 \in Same
  <2>1. d \in 0..n + d /\ 0 \in 0..n /\ d + 0 = d
    OBVIOUS
  <2> QED
    BY <1>1, <1>2, <2>1
<1>4. ASSUME NEW k \in 1..n, k - 1 \in Same PROVE k \in Same
  <2>1. /\ k \in 0..n /\ k - 1 \in 0..n /\ d + k \in 0..n + d /\ d + (k - 1) = (d + k) - 1
        /\ (d + k) - 1 \in 0..n + d /\ d \in 0..n + d /\ k > 0 /\ d + k > 0
        /\ Q(d + (k - 1)) = Q(d) + P(k - 1)
    BY <1>4
  <2>2. Q(d + k) = Q((d + k) - 1) + q[d + k].length /\ P(k) = P(k - 1) + q[d + k].length
    BY <1>1, <1>2, <2>1
  <2>3. Q(d) \in Nat /\ P(k - 1) \in Nat /\ q[d + k].length \in Nat
    <3>1. d + k \in 1..n + d
      BY <2>1
    <3> QED
      BY <1>1, <1>2, <2>1, <3>1
  <2>4. Q(d + k) = (Q(d) + P(k - 1)) + q[d + k].length
    BY <2>1, <2>2
  <2> QED
    BY <2>1, <2>2, <2>3, <2>4
<1>5. 0..n \subseteq Same
  <2>1. \A k \in 1..n : k - 1 \in Same => k \in Same
    BY <1>4
  <2> HIDE DEF Same
  <2> QED
    BY <1>3, <2>1, UpTo
<1> QED
  BY <1>5 DEF P, Q

\* The frames of two queues are as long as each other.
LEMMA SameLength ==
  ASSUME NEW p, NEW q, NEW n \in Nat,
         \A k \in 1..n : q[k].length \in Nat, \A k \in 1..n : p[k].length = q[k].length
  PROVE  CanData!LengthTo(p, n) = CanData!LengthTo(q, n)
<1> DEFINE P(k) == CanData!LengthTo(p, k)
           Q(k) == CanData!LengthTo(q, k)
           Same == {k \in 0..n : P(k) = Q(k)}
<1>1. ASSUME NEW k \in 0..n
      PROVE  /\ k = 0 => P(k) = 0 /\ Q(k) = 0
             /\ k > 0 => P(k) = P(k - 1) + p[k].length /\ Q(k) = Q(k - 1) + q[k].length
  <2>1. k \in Nat /\ \A j \in 1..k : q[j].length \in Nat /\ p[j].length \in Nat
    OBVIOUS
  <2> QED
    BY <2>1, LengthIs
<1> HIDE DEF P, Q
<1>2. 0 \in Same
  BY <1>1
<1>3. ASSUME NEW k \in 1..n, k - 1 \in Same PROVE k \in Same
  <2>1. k \in 0..n /\ k > 0 /\ P(k - 1) = Q(k - 1)
    BY <1>3
  <2> QED
    BY <1>1, <2>1
<1>4. 0..n \subseteq Same
  <2>1. \A k \in 1..n : k - 1 \in Same => k \in Same
    BY <1>3
  <2> HIDE DEF Same
  <2> QED
    BY <1>2, <2>1, UpTo
<1> QED
  BY <1>4 DEF P, Q

Frames == CanData!Frames

LEMMA FramesAre ==
  ASSUME NEW q \in Seq(Frames)
  PROVE  /\ Len(q) \in Nat
         /\ \A k \in 1..Len(q) : /\ q[k] \in Frames /\ q[k].length \in Nat /\ q[k].first \in Nat
                                 /\ q[k].length > 0 /\ q[k].first > 0
                                 /\ CanData!After(q[k]) \in Nat
<1>1. Len(q) \in Nat /\ \A k \in 1..Len(q) : q[k] \in Frames
  OBVIOUS
<1>2. \A f \in Frames : /\ f.length \in Nat /\ f.first \in Nat /\ f.length > 0 /\ f.first > 0
                        /\ CanData!After(f) \in Nat
  BY DEF Frames, CanData!Frames, CanData!After
<1> QED
  BY <1>1, <1>2

LEMMA LengthOfIs == ASSUME NEW q \in Seq(Frames) PROVE CanData!LengthOf(q) \in Nat
<1>1. Len(q) \in Nat /\ \A k \in 1..Len(q) : q[k].length \in Nat
  BY FramesAre
<1> QED
  BY <1>1, LengthIs DEF CanData!LengthOf

LEMMA LengthOfNone == CanData!LengthOf(<<>>) = 0
<1>1. Len(<<>>) = 0 /\ \A k \in 1..0 : <<>>[k].length \in Nat
  OBVIOUS
<1> QED
  BY <1>1, LengthIs DEF CanData!LengthOf

\* A frame more, and a frame less.
LEMMA LengthOfAppend ==
  ASSUME NEW q \in Seq(Frames), NEW f \in Frames
  PROVE  CanData!LengthOf(Append(q, f)) = CanData!LengthOf(q) + f.length
<1> DEFINE p == Append(q, f)
           n == Len(q)
<1>1. n \in Nat /\ p \in Seq(Frames) /\ Len(p) = n + 1 /\ p[n + 1] = f
      /\ \A k \in 1..n : p[k] = q[k]
  OBVIOUS
<1>2. (\A k \in 1..n + 1 : p[k].length \in Nat) /\ \A k \in 1..n : q[k].length \in Nat
  BY <1>1, FramesAre
<1> HIDE DEF p
<1>3. CanData!LengthTo(p, n + 1) = CanData!LengthTo(p, n) + f.length
  <2>1. n + 1 \in Nat /\ n + 1 > 0 /\ (n + 1) - 1 = n
    BY <1>1
  <2>2. CanData!LengthTo(p, n + 1) = CanData!LengthTo(p, (n + 1) - 1) + p[n + 1].length
    BY <1>2, <2>1, LengthIs
  <2> QED
    BY <1>1, <2>1, <2>2
<1>4. CanData!LengthTo(p, n) = CanData!LengthTo(q, n)
  <2>1. n \in Nat /\ \A k \in 1..n : q[k].length \in Nat /\ p[k].length = q[k].length
    BY <1>1, <1>2
  <2> HIDE DEF n
  <2> QED
    BY <2>1, SameLength
<1> QED
  BY <1>1, <1>3, <1>4 DEF CanData!LengthOf, p

LEMMA LengthOfTail ==
  ASSUME NEW q \in Seq(Frames), q # <<>>
  PROVE  /\ CanData!LengthOf(q) = Head(q).length + CanData!LengthOf(Tail(q))
         /\ Head(q) \in Frames /\ Tail(q) \in Seq(Frames)
<1> DEFINE p == Tail(q)
           n == Len(p)
<1>1. /\ n \in Nat /\ p \in Seq(Frames) /\ Len(q) = n + 1 /\ q[1] = Head(q)
      /\ \A k \in 1..n : p[k] = q[1 + k]
  OBVIOUS
<1>2. \A k \in 1..n + 1 : q[k].length \in Nat
  BY <1>1, FramesAre
<1> HIDE DEF p
<1>3. CanData!LengthTo(q, 1 + n) = CanData!LengthTo(q, 1) + CanData!LengthTo(p, n)
  <2>1. \A k \in 1..n : p[k].length = q[1 + k].length
    BY <1>1
  <2>2. n \in Nat /\ 1 \in Nat
    BY <1>1
  <2> HIDE DEF n
  <2> QED
    BY <1>2, <2>1, <2>2, LengthBehind
<1>4. CanData!LengthTo(q, 1) = q[1].length
  <2>1. 1 \in 1..n + 1 /\ (\A k \in 1..1 : q[k].length \in Nat) /\ 1 - 1 = 0 /\ 0 \in Nat
    BY <1>1, <1>2
  <2>2. CanData!LengthTo(q, 1) = CanData!LengthTo(q, 0) + q[1].length
    BY <2>1, LengthIs
  <2>3. CanData!LengthTo(q, 0) = 0
    <3>1. \A k \in 1..0 : q[k].length \in Nat
      OBVIOUS
    <3> QED
      BY <3>1, LengthIs
  <2> QED
    BY <1>2, <2>1, <2>2, <2>3
<1>5. 1 + n = n + 1
  BY <1>1
<1> QED
  BY <1>1, <1>3, <1>4, <1>5 DEF CanData!LengthOf, p

-----------------------------------------------------------------------------
\* Queues that follow each other, as their ends change.
After(f) == CanData!After(f)

LEMMA TailIs ==
  ASSUME NEW q \in Seq(Frames), q # <<>>
  PROVE  /\ Tail(q) \in Seq(Frames) /\ Len(Tail(q)) \in Nat /\ Len(q) = Len(Tail(q)) + 1
         /\ Head(q) = q[1] /\ 1 \in 1..Len(q)
         /\ \A k \in 1..Len(Tail(q)) : Tail(q)[k] = q[k + 1] /\ k + 1 \in 1..Len(q) /\ 1 < k + 1
OBVIOUS

LEMMA AppendIs ==
  ASSUME NEW q \in Seq(Frames), NEW f \in Frames
  PROVE  /\ Append(q, f) \in Seq(Frames) /\ Len(q) \in Nat /\ Len(Append(q, f)) = Len(q) + 1
         /\ \A k \in 1..Len(Append(q, f)) :
              \/ k \in 1..Len(q) /\ Append(q, f)[k] = q[k] /\ k < Len(q) + 1
              \/ k = Len(q) + 1 /\ Append(q, f)[k] = f
OBVIOUS

LEMMA FollowsTail ==
  ASSUME NEW q \in Seq(Frames), q # <<>>, NEW b, NEW l, NEW n, CanData!Follows(q, b, l, n)
  PROVE  CanData!Follows(Tail(q), b, l, n)
<1> DEFINE p == Tail(q)
<1>1. /\ Len(p) \in Nat
      /\ \A k \in 1..Len(p) : p[k] = q[k + 1] /\ k + 1 \in 1..Len(q)
  BY TailIs
<1> HIDE DEF p
<1>2. ASSUME NEW i \in 1..Len(p), NEW j \in 1..Len(p), i < j
      PROVE  CanData!After(p[i]) <= p[j].first
  <2>1. i + 1 < j + 1
    BY <1>1, <1>2
  <2> QED
    BY <1>1, <2>1 DEF CanData!Follows
<1>3. ASSUME NEW i \in 1..Len(p)
      PROVE  /\ l < p[i].first /\ CanData!After(p[i]) <= n + 1
             /\ \A k \in 1..Len(b) : b[k] < p[i].first
  BY <1>1 DEF CanData!Follows
<1>4. CanData!Follows(p, b, l, n)
  BY <1>2, <1>3 DEF CanData!Follows
<1> QED
  BY <1>4 DEF p

LEMMA FollowsAppend ==
  ASSUME NEW q \in Seq(Frames), NEW f \in Frames, NEW b, NEW l, NEW n,
         CanData!Follows(q, b, l, n), \A i \in 1..Len(q) : After(q[i]) <= f.first,
         l < f.first, After(f) <= n + 1, \A k \in 1..Len(b) : b[k] < f.first
  PROVE  CanData!Follows(Append(q, f), b, l, n)
<1> DEFINE p == Append(q, f)
<1>1. /\ Len(q) \in Nat /\ Len(p) = Len(q) + 1
      /\ \A k \in 1..Len(p) : \/ k \in 1..Len(q) /\ p[k] = q[k] /\ k < Len(q) + 1
                              \/ k = Len(q) + 1 /\ p[k] = f
  BY AppendIs
<1> HIDE DEF p
<1>2. ASSUME NEW i \in 1..Len(p), NEW j \in 1..Len(p), i < j
      PROVE  CanData!After(p[i]) <= p[j].first
  <2>1. i \in 1..Len(q) /\ p[i] = q[i]
    BY <1>1, <1>2
  <2> QED
    BY <1>1, <1>2, <2>1 DEF CanData!Follows, After
<1>3. ASSUME NEW i \in 1..Len(p)
      PROVE  /\ l < p[i].first /\ CanData!After(p[i]) <= n + 1
             /\ \A k \in 1..Len(b) : b[k] < p[i].first
  BY <1>1 DEF CanData!Follows, After
<1>4. CanData!Follows(p, b, l, n)
  BY <1>2, <1>3 DEF CanData!Follows
<1> QED
  BY <1>4 DEF p

LEMMA BeforeTail ==
  ASSUME NEW p \in Seq(Frames), NEW q \in Seq(Frames), CanData!Before(p, q)
  PROVE  /\ p # <<>> => CanData!Before(Tail(p), q)
         /\ q # <<>> => CanData!Before(p, Tail(q))
<1>1. ASSUME p # <<>> PROVE CanData!Before(Tail(p), q)
  BY <1>1, TailIs DEF CanData!Before
<1>2. ASSUME q # <<>> PROVE CanData!Before(p, Tail(q))
  BY <1>2, TailIs DEF CanData!Before
<1> QED
  BY <1>1, <1>2

LEMMA BeforeAppend ==
  ASSUME NEW p \in Seq(Frames), NEW q \in Seq(Frames), NEW f \in Frames, CanData!Before(p, q)
  PROVE  /\ (\A j \in 1..Len(q) : After(f) <= q[j].first) => CanData!Before(Append(p, f), q)
         /\ (\A i \in 1..Len(p) : After(p[i]) <= f.first) => CanData!Before(p, Append(q, f))
<1>1. ASSUME \A j \in 1..Len(q) : After(f) <= q[j].first PROVE CanData!Before(Append(p, f), q)
  BY <1>1, AppendIs DEF CanData!Before, After
<1>2. ASSUME \A i \in 1..Len(p) : After(p[i]) <= f.first PROVE CanData!Before(p, Append(q, f))
  BY <1>2, AppendIs DEF CanData!Before, After
<1> QED
  BY <1>1, <1>2

\* The head of a queue comes after what is before the queue and before its rest and what is
\* behind the queue.
LEMMA HeadBetween ==
  ASSUME NEW q \in Seq(Frames), q # <<>>, NEW b, NEW l, NEW n, CanData!Follows(q, b, l, n)
  PROVE  /\ Head(q) \in Frames /\ l < Head(q).first /\ After(Head(q)) <= n + 1
         /\ \A k \in 1..Len(b) : b[k] < Head(q).first
         /\ \A j \in 1..Len(Tail(q)) : After(Head(q)) <= Tail(q)[j].first
         /\ \A p \in Seq(Frames) : CanData!Before(p, q) =>
              \A i \in 1..Len(p) : After(p[i]) <= Head(q).first
         /\ \A p \in Seq(Frames) : CanData!Before(q, p) =>
              \A i \in 1..Len(p) : After(Head(q)) <= p[i].first
<1>1. /\ Head(q) = q[1] /\ 1 \in 1..Len(q) /\ Head(q) \in Frames
      /\ \A k \in 1..Len(Tail(q)) : Tail(q)[k] = q[k + 1] /\ k + 1 \in 1..Len(q) /\ 1 < k + 1
  BY TailIs
<1>2. /\ l < q[1].first /\ After(q[1]) <= n + 1 /\ \A k \in 1..Len(b) : b[k] < q[1].first
  BY <1>1 DEF CanData!Follows, After
<1>3. \A j \in 1..Len(Tail(q)) : After(q[1]) <= Tail(q)[j].first
  BY <1>1 DEF CanData!Follows, After
<1>4. \A p \in Seq(Frames) : CanData!Before(p, q) => \A i \in 1..Len(p) : After(p[i]) <= q[1].first
  BY <1>1 DEF CanData!Before, After
<1>5. \A p \in Seq(Frames) : CanData!Before(q, p) => \A i \in 1..Len(p) : After(q[1]) <= p[i].first
  BY <1>1 DEF CanData!Before, After
<1> QED
  BY <1>1, <1>2, <1>3, <1>4, <1>5

\* A frame goes through the bus, or is lost at its end.
LEMMA LineTransmit ==
  ASSUME NEW l, NEW b, NEW n, NEW r \in Seq(Frames), NEW m \in Seq(Frames), NEW t \in Seq(Frames),
         CanData!Line(l, b, r, m, t, n), m # <<>>
  PROVE  /\ CanData!Line(l, b, Append(r, Head(m)), Tail(m), t, n)
         /\ CanData!Line(l, b, r, Tail(m), t, n)
<1> DEFINE f == Head(m)
           s == Tail(m)
           p == Append(r, f)
<1>1. /\ CanData!Between(b, l, n)
      /\ CanData!Follows(r, b, l, n) /\ CanData!Follows(m, b, l, n) /\ CanData!Follows(t, b, l, n)
      /\ CanData!Before(r, m) /\ CanData!Before(r, t) /\ CanData!Before(m, t)
  BY DEF CanData!Line
<1>2. /\ f \in Frames /\ l < f.first /\ After(f) <= n + 1 /\ \A k \in 1..Len(b) : b[k] < f.first
      /\ \A j \in 1..Len(s) : After(f) <= s[j].first
      /\ \A i \in 1..Len(r) : After(r[i]) <= f.first
      /\ \A i \in 1..Len(t) : After(f) <= t[i].first
  BY <1>1, HeadBetween
<1>3. s \in Seq(Frames) /\ CanData!Follows(s, b, l, n) /\ CanData!Before(r, s)
        /\ CanData!Before(s, t)
  BY <1>1, TailIs, FollowsTail, BeforeTail
<1> HIDE DEF f, s
<1>4. CanData!Follows(p, b, l, n) /\ CanData!Before(p, s) /\ CanData!Before(p, t)
  BY <1>1, <1>2, <1>3, FollowsAppend, BeforeAppend
<1>5. CanData!Line(l, b, p, s, t, n) /\ CanData!Line(l, b, r, s, t, n)
  BY <1>1, <1>3, <1>4 DEF CanData!Line
<1> QED
  BY <1>5 DEF f, s

\* A frame is handed to the controller.
LEMMA LineHand ==
  ASSUME NEW l, NEW b, NEW n, NEW r \in Seq(Frames), NEW m \in Seq(Frames), NEW t \in Seq(Frames),
         CanData!Line(l, b, r, m, t, n), t # <<>>
  PROVE  CanData!Line(l, b, r, Append(m, Head(t)), Tail(t), n)
<1> DEFINE f == Head(t)
           s == Tail(t)
           p == Append(m, f)
<1>1. /\ CanData!Between(b, l, n)
      /\ CanData!Follows(r, b, l, n) /\ CanData!Follows(m, b, l, n) /\ CanData!Follows(t, b, l, n)
      /\ CanData!Before(r, m) /\ CanData!Before(r, t) /\ CanData!Before(m, t)
  BY DEF CanData!Line
<1>2. /\ f \in Frames /\ l < f.first /\ After(f) <= n + 1 /\ \A k \in 1..Len(b) : b[k] < f.first
      /\ \A j \in 1..Len(s) : After(f) <= s[j].first
      /\ \A i \in 1..Len(r) : After(r[i]) <= f.first
      /\ \A i \in 1..Len(m) : After(m[i]) <= f.first
  BY <1>1, HeadBetween
<1>3. s \in Seq(Frames) /\ CanData!Follows(s, b, l, n) /\ CanData!Before(r, s)
        /\ CanData!Before(m, s)
  BY <1>1, TailIs, FollowsTail, BeforeTail
<1> HIDE DEF f, s
<1>4. CanData!Follows(p, b, l, n) /\ CanData!Before(p, s) /\ CanData!Before(r, p)
  BY <1>1, <1>2, <1>3, FollowsAppend, BeforeAppend
<1>5. CanData!Line(l, b, r, p, s, n)
  BY <1>1, <1>3, <1>4 DEF CanData!Line
<1> QED
  BY <1>5 DEF f, s

\* The queues follow each other up to a later byte as well.
LEMMA FollowsUpTo ==
  ASSUME NEW q \in Seq(Frames), NEW b, NEW l, NEW n \in Nat, NEW k \in Nat,
         CanData!Follows(q, b, l, n)
  PROVE  CanData!Follows(q, b, l, n + k)
<1>1. ASSUME NEW i \in 1..Len(q) PROVE CanData!After(q[i]) <= (n + k) + 1
  <2>1. CanData!After(q[i]) \in Nat /\ CanData!After(q[i]) <= n + 1
    BY FramesAre DEF CanData!Follows
  <2> QED
    BY <2>1
<1> QED
  BY <1>1 DEF CanData!Follows

\* The next k bytes are put in a frame.
LEMMA LineQueue ==
  ASSUME NEW l \in Nat, NEW b \in Seq(Nat), NEW n \in Nat, NEW k \in Nat \ {0},
         NEW r \in Seq(Frames), NEW m \in Seq(Frames), NEW t \in Seq(Frames),
         CanData!Line(l, b, r, m, t, n)
  PROVE  LET f == CanData!Frame(n + 1, k)
         IN f \in Frames /\ CanData!Line(l, b, r, m, Append(t, f), n + k)
<1> DEFINE f == CanData!Frame(n + 1, k)
           p == Append(t, f)
<1>1. /\ CanData!Between(b, l, n)
      /\ CanData!Follows(r, b, l, n) /\ CanData!Follows(m, b, l, n) /\ CanData!Follows(t, b, l, n)
      /\ CanData!Before(r, m) /\ CanData!Before(r, t) /\ CanData!Before(m, t)
  BY DEF CanData!Line
<1>2. f \in Frames /\ f.first = n + 1 /\ After(f) <= (n + k) + 1
  BY DEF CanData!Frame, Frames, CanData!Frames, After, CanData!After
<1> HIDE DEF f
<1>3. CanData!Between(b, l, n + k) /\ l < f.first /\ \A j \in 1..Len(b) : b[j] < f.first
  <2>1. \A j \in 1..Len(b) : b[j] \in Nat /\ l < b[j] /\ b[j] <= n
    BY <1>1 DEF CanData!Between
  <2>2. l <= n
    BY <1>1 DEF CanData!Between
  <2>3. \A j \in 1..Len(b) : b[j] <= n + k /\ b[j] < n + 1
    BY <2>1
  <2> QED
    BY <1>1, <1>2, <2>1, <2>2, <2>3 DEF CanData!Between
<1>4. ASSUME NEW q \in Seq(Frames), CanData!Follows(q, b, l, n)
      PROVE  CanData!Follows(q, b, l, n + k) /\ \A i \in 1..Len(q) : After(q[i]) <= f.first
  BY <1>2, <1>4, FollowsUpTo DEF CanData!Follows, After
<1>5. /\ CanData!Follows(r, b, l, n + k) /\ CanData!Follows(m, b, l, n + k)
      /\ CanData!Follows(p, b, l, n + k) /\ CanData!Before(r, p) /\ CanData!Before(m, p)
  <2>1. n + k \in Nat /\ CanData!Follows(t, b, l, n + k)
    BY <1>1, <1>4
  <2>2. CanData!Follows(p, b, l, n + k)
    BY <1>1, <1>2, <1>3, <1>4, <2>1, FollowsAppend
  <2> QED
    BY <1>1, <1>2, <1>4, <2>2, BeforeAppend
<1>6. CanData!Line(l, b, r, m, p, n + k)
  BY <1>1, <1>3, <1>5 DEF CanData!Line
<1> QED
  BY <1>2, <1>6 DEF f

\* The buffer is emptied.
LEMMA LineClear ==
  ASSUME NEW l, NEW b, NEW n, NEW r, NEW m, NEW t, CanData!Line(l, b, r, m, t, n)
  PROVE  CanData!Line(l, <<>>, r, m, t, n)
BY DEF CanData!Line, CanData!Between, CanData!Follows

\* The client reads the first k bytes.
LEMMA LineRead ==
  ASSUME NEW l \in Nat, NEW b \in Seq(Nat), NEW n \in Nat, NEW k \in 0..Len(b),
         NEW r, NEW m, NEW t, CanData!Line(l, b, r, m, t, n)
  PROVE  LET e == IF k = 0 THEN l ELSE b[k]
             c == SubSeq(b, k + 1, Len(b))
         IN /\ e \in Nat /\ c \in Seq(Nat) /\ Len(c) = Len(b) - k
            /\ CanData!Line(e, c, r, m, t, n)
<1> DEFINE e == IF k = 0 THEN l ELSE b[k]
           c == SubSeq(b, k + 1, Len(b))
<1>1. /\ CanData!Between(b, l, n)
      /\ CanData!Follows(r, b, l, n) /\ CanData!Follows(m, b, l, n) /\ CanData!Follows(t, b, l, n)
      /\ CanData!Before(r, m) /\ CanData!Before(r, t) /\ CanData!Before(m, t)
  BY DEF CanData!Line
<1>2. /\ e \in Nat /\ c \in Seq(Nat) /\ Len(c) = Len(b) - k /\ Len(c) \in Nat /\ Len(b) \in Nat
      /\ \A j \in 1..Len(c) : c[j] = b[k + j] /\ k + j \in 1..Len(b) /\ k < k + j
      /\ k # 0 => k \in 1..Len(b)
  OBVIOUS
<1>3. e = (IF k = 0 THEN l ELSE b[k])
  OBVIOUS
<1> HIDE DEF c, e
<1>4. CanData!Between(c, e, n)
  <2>1. l <= n /\ (\A j \in 1..Len(b) : l < b[j] /\ b[j] <= n)
        /\ \A i, j \in 1..Len(b) : i < j => b[i] < b[j]
    BY <1>1 DEF CanData!Between
  <2>2. e <= n
    BY <1>2, <1>3, <2>1
  <2>3. ASSUME NEW j \in 1..Len(c) PROVE e < c[j] /\ c[j] <= n
    <3>1. c[j] = b[k + j] /\ k + j \in 1..Len(b) /\ k < k + j
      BY <1>2
    <3> QED
      BY <1>2, <1>3, <2>1, <3>1
  <2>4. ASSUME NEW i \in 1..Len(c), NEW j \in 1..Len(c), i < j PROVE c[i] < c[j]
    <3>1. c[i] = b[k + i] /\ c[j] = b[k + j] /\ k + i \in 1..Len(b) /\ k + j \in 1..Len(b)
      BY <1>2
    <3>2. k \in Nat /\ i \in Nat /\ j \in Nat
      <4>1. Len(b) \in Nat /\ Len(c) \in Nat
        BY <1>2
      <4> QED
        BY <4>1
    <3>3. k + i < k + j
      BY <2>4, <3>2
    <3> QED
      BY <2>1, <3>1, <3>3
  <2> QED
    BY <2>2, <2>3, <2>4 DEF CanData!Between
<1>5. ASSUME NEW q, CanData!Follows(q, b, l, n) PROVE CanData!Follows(q, c, e, n)
  <2>1. \A i \in 1..Len(q) : l < q[i].first /\ \A j \in 1..Len(b) : b[j] < q[i].first
    BY <1>5 DEF CanData!Follows
  <2>2. ASSUME NEW i \in 1..Len(q) PROVE e < q[i].first /\ \A j \in 1..Len(c) : c[j] < q[i].first
    BY <1>2, <1>3, <2>1
  <2> QED
    BY <1>5, <2>2 DEF CanData!Follows
<1>6. CanData!Line(e, c, r, m, t, n)
  BY <1>1, <1>4, <1>5 DEF CanData!Line
<1> QED
  BY <1>2, <1>6 DEF c, e

LEMMA RunIs == ASSUME NEW n \in Nat, NEW d \in [1..n -> Nat] PROVE d \in Seq(Nat) /\ Len(d) = n
OBVIOUS

LEMMA JoinIs ==
  ASSUME NEW b \in Seq(Nat), NEW d \in Seq(Nat)
  PROVE  /\ b \o d \in Seq(Nat) /\ Len(b \o d) = Len(b) + Len(d) /\ Len(b) \in Nat
         /\ \A k \in 1..Len(b \o d) : (b \o d)[k] = IF k <= Len(b) THEN b[k] ELSE d[k - Len(b)]
OBVIOUS

\* The first frame that came is taken into the buffer, or is not.
LEMMA LineTake ==
  ASSUME NEW l \in Nat, NEW b \in Seq(Nat), NEW n \in Nat, NEW r \in Seq(Frames),
         NEW m \in Seq(Frames), NEW t \in Seq(Frames), CanData!Line(l, b, r, m, t, n), r # <<>>
  PROVE  /\ CanData!Line(l, b, Tail(r), m, t, n)
         /\ LET c == b \o CanData!BytesOf(Head(r))
            IN /\ c \in Seq(Nat) /\ Len(c) = Len(b) + Head(r).length
               /\ CanData!Line(l, c, Tail(r), m, t, n)
<1> DEFINE f == Head(r)
           s == Tail(r)
           d == CanData!BytesOf(f)
           c == b \o d
<1>1. /\ CanData!Between(b, l, n)
      /\ CanData!Follows(r, b, l, n) /\ CanData!Follows(m, b, l, n) /\ CanData!Follows(t, b, l, n)
      /\ CanData!Before(r, m) /\ CanData!Before(r, t) /\ CanData!Before(m, t)
  BY DEF CanData!Line
<1>2. /\ f \in Frames /\ l < f.first /\ After(f) <= n + 1 /\ \A k \in 1..Len(b) : b[k] < f.first
      /\ \A j \in 1..Len(s) : After(f) <= s[j].first
      /\ \A i \in 1..Len(m) : After(f) <= m[i].first
      /\ \A i \in 1..Len(t) : After(f) <= t[i].first
  BY <1>1, HeadBetween
<1>3. s \in Seq(Frames) /\ CanData!Follows(s, b, l, n) /\ CanData!Before(s, m)
        /\ CanData!Before(s, t)
  BY <1>1, TailIs, FollowsTail, BeforeTail
<1>4. CanData!Line(l, b, s, m, t, n)
  BY <1>1, <1>3 DEF CanData!Line
<1> HIDE DEF f, s
<1>5. f.first \in Nat /\ f.length \in Nat /\ f.first > 0 /\ After(f) = f.first + f.length
  BY <1>2 DEF Frames, CanData!Frames, After, CanData!After
<1>6. /\ d \in Seq(Nat) /\ Len(d) = f.length
      /\ \A k \in 1..f.length : d[k] = f.first + k - 1
  <2>1. d = [k \in 1..f.length |-> f.first + k - 1]
    BY DEF CanData!BytesOf
  <2>2. ASSUME NEW k \in 1..f.length PROVE f.first + k - 1 \in Nat
    BY <1>5
  <2> HIDE DEF d
  <2>3. d \in [1..f.length -> Nat]
    BY <2>1, <2>2
  <2>4. \A k \in 1..f.length : d[k] = f.first + k - 1
    BY <2>1
  <2>5. f.length \in Nat
    BY <1>5
  <2> HIDE DEF f
  <2>6. d \in Seq(Nat) /\ Len(d) = f.length
    BY <2>3, <2>5, RunIs
  <2> QED
    BY <2>4, <2>6
<1> HIDE DEF d
<1>7. /\ c \in Seq(Nat) /\ Len(c) = Len(b) + f.length /\ Len(b) \in Nat
      /\ \A k \in 1..Len(c) :
           \/ k \in 1..Len(b) /\ c[k] = b[k] /\ c[k] < f.first
           \/ k \notin 1..Len(b) /\ k - Len(b) \in 1..f.length
                /\ c[k] = f.first + (k - Len(b)) - 1 /\ c[k] >= f.first /\ c[k] < After(f)
  <2>1. c \in Seq(Nat) /\ Len(c) = Len(b) + f.length /\ Len(b) \in Nat
    <3>1. d \in Seq(Nat) /\ Len(d) = f.length
      BY <1>6
    <3>2. b \o d \in Seq(Nat) /\ Len(b \o d) = Len(b) + Len(d) /\ Len(b) \in Nat
      BY <3>1, JoinIs
    <3> QED
      BY <3>1, <3>2
  <2>2. ASSUME NEW k \in 1..Len(c)
        PROVE  \/ k \in 1..Len(b) /\ c[k] = b[k] /\ c[k] < f.first
               \/ k \notin 1..Len(b) /\ k - Len(b) \in 1..f.length
                    /\ c[k] = f.first + (k - Len(b)) - 1 /\ c[k] >= f.first /\ c[k] < After(f)
    <3>1. CASE k \in 1..Len(b)
      <4>1. c[k] = b[k]
        BY <1>6, <3>1
      <4> QED
        BY <1>2, <3>1, <4>1
    <3>2. CASE k \notin 1..Len(b)
      <4>1. k - Len(b) \in 1..f.length
        BY <1>5, <2>1, <3>2
      <4>2. c[k] = d[k - Len(b)]
        BY <1>6, <2>1, <3>2
      <4>3. c[k] = f.first + (k - Len(b)) - 1
        BY <1>6, <4>1, <4>2
      <4> QED
        BY <1>5, <3>2, <4>1, <4>3
    <3> QED
      BY <3>1, <3>2
  <2> QED
    BY <2>1, <2>2
<1> HIDE DEF c
<1>8. ASSUME NEW k \in 1..Len(c)
      PROVE  c[k] \in Nat /\ c[k] < After(f) /\ (k \in 1..Len(b) \/ c[k] >= f.first)
  <2>1. c[k] \in Nat
    BY <1>7
  <2>2. c[k] < f.first \/ c[k] < After(f)
    BY <1>7
  <2>3. k \in 1..Len(b) \/ c[k] >= f.first
    BY <1>7
  <2> QED
    BY <1>5, <2>1, <2>2, <2>3
<1>9. CanData!Between(c, l, n)
  <2>1. l <= n /\ (\A j \in 1..Len(b) : l < b[j] /\ b[j] <= n)
        /\ \A i, j \in 1..Len(b) : i < j => b[i] < b[j]
    BY <1>1 DEF CanData!Between
  <2>2. ASSUME NEW k \in 1..Len(c) PROVE l < c[k] /\ c[k] <= n
    <3>1. CASE k \in 1..Len(b)
      BY <1>7, <2>1, <3>1
    <3>2. CASE k \notin 1..Len(b)
      <4>1. c[k] \in Nat /\ c[k] < After(f) /\ c[k] >= f.first
        BY <1>8, <3>2
      <4>2. l < f.first /\ After(f) <= n + 1 /\ After(f) \in Nat
        BY <1>2, <1>5
      <4> QED
        BY <1>5, <4>1, <4>2
    <3> QED
      BY <3>1, <3>2
  <2>3. ASSUME NEW i \in 1..Len(c), NEW j \in 1..Len(c), i < j PROVE c[i] < c[j]
    <3>1. c[i] \in Nat /\ c[j] \in Nat /\ i \in Nat /\ j \in Nat
      BY <1>8
    <3>2. CASE j \in 1..Len(b)
      <4>1. i \in 1..Len(b)
        BY <1>7, <2>3, <3>1, <3>2
      <4> QED
        BY <1>7, <2>1, <2>3, <3>2, <4>1
    <3>3. CASE j \notin 1..Len(b) /\ i \in 1..Len(b)
      <4>1. c[i] < f.first /\ c[j] >= f.first
        BY <1>7, <3>3
      <4>2. c[i] \in Nat /\ c[j] \in Nat /\ f.first \in Nat
        BY <1>5, <3>1
      <4> QED
        BY <4>1, <4>2
    <3>4. CASE j \notin 1..Len(b) /\ i \notin 1..Len(b)
      <4>1. c[i] = f.first + (i - Len(b)) - 1 /\ c[j] = f.first + (j - Len(b)) - 1
        BY <1>7, <3>4
      <4>2. Len(b) \in Nat /\ f.first \in Nat /\ i \in Nat /\ j \in Nat
        BY <1>5, <1>7, <3>1
      <4>3. f.first + (i - Len(b)) - 1 < f.first + (j - Len(b)) - 1
        BY <2>3, <4>2
      <4> QED
        BY <4>1, <4>3
    <3> QED
      BY <3>2, <3>3, <3>4
  <2> QED
    BY <2>1, <2>2, <2>3 DEF CanData!Between
<1>10. ASSUME NEW q \in Seq(Frames), CanData!Follows(q, b, l, n),
              \A i \in 1..Len(q) : After(f) <= q[i].first
       PROVE  CanData!Follows(q, c, l, n)
  <2>1. ASSUME NEW i \in 1..Len(q), NEW k \in 1..Len(c) PROVE c[k] < q[i].first
    <3>1. c[k] \in Nat /\ c[k] < After(f) /\ After(f) <= q[i].first
      BY <1>8, <1>10
    <3>2. After(f) \in Nat
      BY <1>5
    <3>3. q[i].first \in Nat
      BY FramesAre
    <3> QED
      BY <3>1, <3>2, <3>3
  <2> QED
    BY <1>10, <2>1 DEF CanData!Follows
<1>11. CanData!Line(l, c, s, m, t, n)
  BY <1>1, <1>2, <1>3, <1>9, <1>10 DEF CanData!Line
<1> QED
  BY <1>4, <1>7, <1>11 DEF c, d, f, s

-----------------------------------------------------------------------------
\* What the invariant says, as the proofs use it.
Counted(w, g, l, d, b, p, t, m, r) == w = g + l + d + b + p + t + m + r

\* Bytes that were in the mailboxes or that had come are somewhere else.
LEMMA CountedElse ==
  ASSUME NEW w \in Nat, NEW g \in Nat, NEW l \in Nat, NEW d \in Nat, NEW b \in Nat, NEW p \in Nat,
         NEW t \in Nat, NEW m \in Nat, NEW r \in Nat, NEW x \in Nat, NEW y \in Nat,
         Counted(w, g, l, d, b, p, t, m, r)
  PROVE  /\ m = x + y => Counted(w, g, l + x, d, b, p, t, y, r)
         /\ r = x + y => /\ Counted(w, g, l, d + x, b, p, t, m, y)
                         /\ Counted(w, g, l + x, d, b, p, t, m, y)
                         /\ Counted(w, g, l, d, b + x, p, t, m, y)
BY DEF Counted

LEMMA CanFacts ==
  ASSUME CanData!Inv
  PROVE  /\ canReady \in Nat /\ canWritten \in Nat /\ canWritten <= canReady /\ canPend \in Nat
              /\ canPend <= CanFrameSize
         /\ canPend <= canWritten /\ canWritten - canPend \in Nat
         /\ canTxq \in Seq(Frames) /\ canMail \in Seq(Frames) /\ canRxq \in Seq(Frames)
         /\ CanData!Arrived \in Seq(Frames) /\ canBuf \in Seq(Nat) /\ Len(canBuf) \in Nat
         /\ canLost \in Nat /\ canDropped \in Nat /\ canGot \in Nat /\ canLast \in Nat
         /\ CanData!LengthOf(canTxq) \in Nat /\ CanData!LengthOf(canMail) \in Nat
         /\ CanData!LengthOf(CanData!Arrived) \in Nat
         /\ CanData!Line(canLast, canBuf, CanData!Arrived, canMail, canTxq, canWritten - canPend)
         /\ Counted(canWritten, canGot, canLost, canDropped, Len(canBuf), canPend,
                    CanData!LengthOf(canTxq), CanData!LengthOf(canMail),
                    CanData!LengthOf(CanData!Arrived))
<1>1. /\ canReady \in Nat /\ canWritten \in 0..canReady
      /\ canPend \in 0..CanFrameSize /\ canPend <= canWritten
      /\ canTxq \in Seq(Frames) /\ canMail \in Seq(Frames) /\ canRxq \in Seq(Frames)
      /\ canBuf \in Seq(Nat)
      /\ canLost \in Nat /\ canDropped \in Nat /\ canGot \in Nat /\ canLast \in Nat
      /\ canRpc = "remove" => canRxq # <<>>
  BY DEF CanData!Inv, CanData!TypeOK, Frames
<1>2. CanFrameSize \in Nat
  BY CanAssumption
<1>3. /\ canReady \in Nat /\ canWritten \in Nat /\ canWritten <= canReady
      /\ canPend \in Nat /\ canPend <= CanFrameSize
      /\ canWritten - canPend \in Nat
  BY <1>1, <1>2
<1>4. CanData!Arrived \in Seq(Frames)
  BY <1>1 DEF CanData!Arrived
<1>5. /\ CanData!LengthOf(canTxq) \in Nat /\ CanData!LengthOf(canMail) \in Nat
      /\ CanData!LengthOf(CanData!Arrived) \in Nat
  BY <1>1, <1>4, LengthOfIs
<1>6. CanData!Line(canLast, canBuf, CanData!Arrived, canMail, canTxq, canWritten - canPend)
  BY DEF CanData!Inv, CanData!InLine
<1>7. Counted(canWritten, canGot, canLost, canDropped, Len(canBuf), canPend,
              CanData!LengthOf(canTxq), CanData!LengthOf(canMail),
              CanData!LengthOf(CanData!Arrived))
  BY DEF CanData!Inv, CanData!LossIsCounted, CanData!Arrived, Counted
<1> QED
  BY <1>1, <1>3, <1>4, <1>5, <1>6, <1>7

LEMMA CanFrom ==
  ASSUME CanData!TypeOK',
         CanData!Line(canLast', canBuf', CanData!Arrived', canMail', canTxq',
                      canWritten' - canPend'),
         Counted(canWritten', canGot', canLost', canDropped', Len(canBuf'), canPend',
                 CanData!LengthOf(canTxq'), CanData!LengthOf(canMail'),
                 CanData!LengthOf(CanData!Arrived'))
  PROVE  CanData!Inv'
<1>1. CanData!InLine'
  BY DEF CanData!InLine
<1>2. CanData!LossIsCounted'
  BY DEF CanData!LossIsCounted, CanData!Arrived, Counted
<1> QED
  BY <1>1, <1>2 DEF CanData!Inv

LEMMA CanInit == CanData!Init => CanData!Inv
<1> SUFFICES ASSUME CanData!Init PROVE CanData!Inv
  OBVIOUS
<1>1. CanFrameSize \in Nat /\ CanRxCount \in Nat
  BY CanAssumption
<1>2. <<>> \in Seq(Frames) /\ <<>> \in Seq(Nat) /\ Len(<<>>) = 0
  OBVIOUS
<1>3. CanData!TypeOK
  <2>1. /\ canReady \in Nat /\ canWritten \in 0..canReady
        /\ canPend \in 0..CanFrameSize /\ canPend <= canWritten
        /\ canLost \in Nat /\ canDropped \in Nat /\ canGot \in Nat /\ canLast \in Nat
        /\ canCount \in 0..CanRxCount
    BY <1>1 DEF CanData!Init
  <2>2. /\ canTxq \in Seq(Frames) /\ canMail \in Seq(Frames) /\ canRxq \in Seq(Frames)
        /\ canBuf \in Seq(Nat)
    BY <1>2 DEF CanData!Init
  <2>3. /\ canBus \in BOOLEAN /\ canTdue \in BOOLEAN /\ canRdue \in BOOLEAN /\ canClient \in BOOLEAN
        /\ canTpc = "off" /\ canRpc = "off"
    BY DEF CanData!Init
  <2> QED
    BY <2>1, <2>2, <2>3 DEF CanData!TypeOK, Frames
<1>4. CanData!Arrived = <<>> /\ canTxq = <<>> /\ canMail = <<>> /\ canBuf = <<>>
      /\ canLast = 0 /\ canWritten = 0 /\ canPend = 0
  BY DEF CanData!Init, CanData!Arrived
<1>5. CanData!InLine
  BY <1>2, <1>4 DEF CanData!InLine, CanData!Line, CanData!Between, CanData!Follows, CanData!Before
<1>6. CanData!LossIsCounted
  <2>1. (IF canRpc = "remove" THEN Tail(canRxq) ELSE canRxq) = <<>>
    BY DEF CanData!Init
  <2> QED
    BY <1>2, <1>4, <2>1, LengthOfNone DEF CanData!Init, CanData!LossIsCounted
<1> QED
  BY <1>3, <1>5, <1>6 DEF CanData!Inv

\* A step that moves no byte.
LEMMA CanSame ==
  ASSUME CanData!Inv, CanData!TypeOK',
         UNCHANGED <<canWritten, canPend, canTxq, canMail, canBuf, canLost, canGot, canLast,
                     canDropped>>,
         CanData!Arrived' = CanData!Arrived
  PROVE  CanData!Inv'
BY CanFacts, CanFrom

\* Bytes that wait for a frame are put in one.
LEMMA QueueKeeps ==
  ASSUME CanData!Inv, NEW k \in Nat \ {0}, k <= canPend, CanData!QueueFrame(k),
         UNCHANGED <<canWritten, canMail, canBuf, canLost, canGot, canLast, canDropped, canRxq,
                     canRpc>>
  PROVE  /\ canPend' \in 0..CanFrameSize /\ canPend' <= canWritten /\ canTxq' \in Seq(Frames)
         /\ CanData!Line(canLast', canBuf', CanData!Arrived', canMail', canTxq',
                         canWritten' - canPend')
         /\ Counted(canWritten', canGot', canLost', canDropped', Len(canBuf'), canPend',
                    CanData!LengthOf(canTxq'), CanData!LengthOf(canMail'),
                    CanData!LengthOf(CanData!Arrived'))
<1> DEFINE n == canWritten - canPend
           f == CanData!Frame(n + 1, k)
<1>1. /\ canWritten \in Nat /\ canPend \in Nat /\ canPend <= CanFrameSize /\ canPend <= canWritten
      /\ n \in Nat /\ canTxq \in Seq(Frames) /\ canMail \in Seq(Frames)
      /\ CanData!Arrived \in Seq(Frames) /\ canBuf \in Seq(Nat) /\ canLast \in Nat
      /\ CanData!Line(canLast, canBuf, CanData!Arrived, canMail, canTxq, n)
  BY CanFacts
<1>2. canTxq' = Append(canTxq, f) /\ canPend' = canPend - k
  BY DEF CanData!QueueFrame
<1>3. CanData!Arrived' = CanData!Arrived
  BY DEF CanData!Arrived
<1> HIDE DEF n
<1>4. f \in Frames
        /\ CanData!Line(canLast, canBuf, CanData!Arrived, canMail, Append(canTxq, f), n + k)
  BY <1>1, LineQueue
<1>5. f.length = k
  BY DEF CanData!Frame
<1> HIDE DEF f
<1>6. canWritten' - canPend' = n + k
  <2>1. canWritten - (canPend - k) = (canWritten - canPend) + k
    BY <1>1
  <2> QED
    BY <1>2, <2>1 DEF n
<1>7. CanData!LengthOf(Append(canTxq, f)) = CanData!LengthOf(canTxq) + k
  BY <1>1, <1>4, <1>5, LengthOfAppend
<1>8. Counted(canWritten, canGot, canLost, canDropped, Len(canBuf), canPend - k,
              CanData!LengthOf(canTxq) + k, CanData!LengthOf(canMail),
              CanData!LengthOf(CanData!Arrived))
  <2>1. /\ canWritten \in Nat /\ canPend \in Nat /\ canGot \in Nat /\ canLost \in Nat
        /\ canDropped \in Nat /\ Len(canBuf) \in Nat
        /\ CanData!LengthOf(canTxq) \in Nat /\ CanData!LengthOf(canMail) \in Nat
        /\ CanData!LengthOf(CanData!Arrived) \in Nat
        /\ Counted(canWritten, canGot, canLost, canDropped, Len(canBuf), canPend,
                   CanData!LengthOf(canTxq), CanData!LengthOf(canMail),
                   CanData!LengthOf(CanData!Arrived))
    BY CanFacts
  <2> QED
    BY <2>1 DEF Counted
<1>9. canPend - k \in 0..CanFrameSize /\ canPend - k <= canWritten
  <2>1. CanFrameSize \in Nat
    BY CanAssumption
  <2> QED
    BY <1>1, <2>1
<1>10. canTxq' \in Seq(Frames)
  BY <1>1, <1>2, <1>4, AppendIs
<1> QED
  BY <1>2, <1>3, <1>4, <1>6, <1>7, <1>8, <1>9, <1>10

LEMMA CanTypes ==
  ASSUME CanData!Inv
  PROVE  /\ canReady \in Nat /\ canWritten \in 0..canReady
         /\ canPend \in 0..CanFrameSize /\ canPend <= canWritten
         /\ canTxq \in Seq(Frames) /\ canMail \in Seq(Frames) /\ canRxq \in Seq(Frames)
         /\ canBuf \in Seq(Nat) /\ canLost \in Nat /\ canDropped \in Nat /\ canGot \in Nat
         /\ canLast \in Nat /\ canCount \in 0..CanRxCount
         /\ canBus \in BOOLEAN /\ canTdue \in BOOLEAN /\ canRdue \in BOOLEAN
              /\ canClient \in BOOLEAN
         /\ canTpc \in {"off", "flush", "ask", "flush again", "hand"}
         /\ canRpc \in {"off", "take", "remove"} /\ (canRpc = "remove" => canRxq # <<>>)
BY DEF CanData!Inv, CanData!TypeOK, Frames

LEMMA TypesFrom ==
  ASSUME canReady' \in Nat, canWritten' \in 0..canReady',
         canPend' \in 0..CanFrameSize, canPend' <= canWritten',
         canTxq' \in Seq(Frames), canMail' \in Seq(Frames), canRxq' \in Seq(Frames),
         canBuf' \in Seq(Nat), canLost' \in Nat, canDropped' \in Nat, canGot' \in Nat,
         canLast' \in Nat, canCount' \in 0..CanRxCount,
         canBus' \in BOOLEAN, canTdue' \in BOOLEAN, canRdue' \in BOOLEAN, canClient' \in BOOLEAN,
         canTpc' \in {"off", "flush", "ask", "flush again", "hand"},
         canRpc' \in {"off", "take", "remove"}, canRpc' = "remove" => canRxq' # <<>>
  PROVE  CanData!TypeOK'
BY DEF CanData!TypeOK, Frames

LEMMA TriggerSendKeeps == ASSUME CanData!Inv, CanData!TriggerSend PROVE CanData!Inv'
<1>1. /\ UNCHANGED <<canWritten, canPend, canTxq, canTpc, canMail, canBus, canRxq, canLost, canRdue,
                     canRpc, canCount, canClient, canGot, canLast, canBuf, canDropped>>
      /\ canTdue' = TRUE
  BY DEF CanData!TriggerSend, CanData!receiving
<1>2. PICK b \in CanBlocks : canReady' = canReady + b
  BY DEF CanData!TriggerSend
<1>3. canReady + b \in Nat /\ canWritten \in 0..(canReady + b)
  <2>1. b \in Nat /\ canReady \in Nat /\ canWritten \in 0..canReady
    BY CanTypes, CanAssumption
  <2> QED
    BY <2>1
<1>4. CanData!TypeOK'
  BY <1>1, <1>2, <1>3, CanTypes, TypesFrom
<1>5. CanData!Arrived' = CanData!Arrived
  BY <1>1 DEF CanData!Arrived
<1> QED
  BY <1>1, <1>4, <1>5, CanSame

LEMMA RunTxKeeps == ASSUME CanData!Inv, CanData!RunTx PROVE CanData!Inv'
<1> USE DEF CanData!RunTx, CanData!receiving
<1>1. canTdue' \in BOOLEAN
  OBVIOUS
<1>2. canTpc' \in {"off", "flush", "ask", "flush again", "hand"}
  OBVIOUS
<1>3. CanData!TypeOK'
  BY <1>1, <1>2, CanTypes, TypesFrom
<1>4. CanData!Arrived' = CanData!Arrived
  BY DEF CanData!Arrived
<1> QED
  BY <1>3, <1>4, CanSame

LEMMA FlushKeeps == ASSUME CanData!Inv, CanData!Flush PROVE CanData!Inv'
<1>1. /\ UNCHANGED <<canReady, canWritten, canMail, canBus, canRxq, canLost, canRdue, canRpc,
                     canCount, canClient, canGot, canLast, canBuf, canDropped>>
      /\ canTpc' \in {"off", "flush", "ask", "flush again", "hand"}
      /\ canTdue' \in BOOLEAN
  BY CanTypes DEF CanData!Flush, CanData!QueueFrame, CanData!receiving
<1>2. CASE canPend > 0 /\ CanData!Room
  <2> DEFINE k == CanData!FloorLength(canPend)
  <2>1. CanData!QueueFrame(k)
    BY <1>2 DEF CanData!Flush
  <2>2. k \in Nat \ {0} /\ k <= canPend
    BY <1>2, CanFacts, FloorIs
  <2> HIDE DEF k
  <2>3. /\ canPend' \in 0..CanFrameSize /\ canPend' <= canWritten /\ canTxq' \in Seq(Frames)
        /\ CanData!Line(canLast', canBuf', CanData!Arrived', canMail', canTxq',
                        canWritten' - canPend')
        /\ Counted(canWritten', canGot', canLost', canDropped', Len(canBuf'), canPend',
                   CanData!LengthOf(canTxq'), CanData!LengthOf(canMail'),
                   CanData!LengthOf(CanData!Arrived'))
    BY <1>1, <2>1, <2>2, QueueKeeps
  <2>4. CanData!TypeOK'
    BY <1>1, <2>3, CanTypes, TypesFrom
  <2> QED
    BY <2>3, <2>4, CanFrom
<1>3. CASE ~(canPend > 0 /\ CanData!Room)
  <2>1. UNCHANGED <<canTxq, canPend>>
    BY <1>3 DEF CanData!Flush
  <2>2. CanData!TypeOK'
    BY <1>1, <2>1, CanTypes, TypesFrom
  <2>3. CanData!Arrived' = CanData!Arrived
    BY <1>1 DEF CanData!Arrived
  <2> QED
    BY <1>1, <2>1, <2>2, <2>3, CanSame
<1> QED
  BY <1>2, <1>3

LEMMA WriteKeeps == ASSUME CanData!Inv, CanData!Write PROVE CanData!Inv'
<1>1. UNCHANGED <<canReady, canMail, canBus, canRxq, canLost, canRdue, canRpc, canCount, canClient,
                  canGot, canLast, canBuf, canDropped>>
  BY DEF CanData!Write, CanData!receiving
<1>2. CanData!Arrived' = CanData!Arrived
  BY <1>1 DEF CanData!Arrived
<1>3. CASE /\ canWritten < canReady /\ canPend < CanFrameSize
           /\ LET n == CanData!Min({CanFrameSize - canPend, canReady - canWritten})
              IN canWritten' = canWritten + n /\ canPend' = canPend + n
           /\ canTdue' = TRUE /\ UNCHANGED <<canTpc, canTxq>>
  <2> DEFINE n == CanData!Min({CanFrameSize - canPend, canReady - canWritten})
  <2>1. /\ canReady \in Nat /\ canWritten \in Nat /\ canWritten <= canReady /\ canPend \in Nat
             /\ canPend <= CanFrameSize
        /\ canPend <= canWritten
    BY CanFacts
  <2>2. n \in Nat /\ n <= CanFrameSize - canPend /\ n <= canReady - canWritten
    <3>1. CanFrameSize - canPend \in Nat /\ canReady - canWritten \in Nat
      BY <2>1, CanAssumption
    <3> QED
      BY <3>1, LesserIs
  <2>3. canWritten' = canWritten + n /\ canPend' = canPend + n
    BY <1>3
  <2> HIDE DEF n
  <2>4. /\ canWritten + n \in 0..canReady /\ canPend + n \in 0..CanFrameSize
        /\ canPend + n <= canWritten + n
        /\ (canWritten + n) - (canPend + n) = canWritten - canPend
    BY <2>1, <2>2, CanAssumption
  <2>5. CanData!TypeOK'
    BY <1>1, <1>3, <2>3, <2>4, CanTypes, TypesFrom
  <2>6. CanData!Line(canLast, canBuf, CanData!Arrived, canMail, canTxq, canWritten' - canPend')
    BY <2>3, <2>4, CanFacts
  <2>7. Counted(canWritten + n, canGot, canLost, canDropped, Len(canBuf), canPend + n,
                CanData!LengthOf(canTxq), CanData!LengthOf(canMail),
                CanData!LengthOf(CanData!Arrived))
    <3>1. /\ canWritten \in Nat /\ canPend \in Nat /\ canGot \in Nat /\ canLost \in Nat
          /\ canDropped \in Nat /\ Len(canBuf) \in Nat
          /\ CanData!LengthOf(canTxq) \in Nat /\ CanData!LengthOf(canMail) \in Nat
          /\ CanData!LengthOf(CanData!Arrived) \in Nat
          /\ Counted(canWritten, canGot, canLost, canDropped, Len(canBuf), canPend,
                     CanData!LengthOf(canTxq), CanData!LengthOf(canMail),
                     CanData!LengthOf(CanData!Arrived))
      BY CanFacts
    <3> QED
      BY <2>2, <3>1 DEF Counted
  <2> QED
    BY <1>1, <1>2, <1>3, <2>3, <2>5, <2>6, <2>7, CanFrom
<1>4. CASE /\ canWritten < canReady /\ canPend = CanFrameSize /\ CanData!Room
           /\ CanData!QueueFrame(CanFrameSize) /\ UNCHANGED <<canWritten, canTpc>>
  <2>1. CanFrameSize \in Nat \ {0} /\ CanFrameSize <= canPend
    BY <1>4, CanAssumption
  <2>2. /\ canPend' \in 0..CanFrameSize /\ canPend' <= canWritten /\ canTxq' \in Seq(Frames)
        /\ CanData!Line(canLast', canBuf', CanData!Arrived', canMail', canTxq',
                        canWritten' - canPend')
        /\ Counted(canWritten', canGot', canLost', canDropped', Len(canBuf'), canPend',
                   CanData!LengthOf(canTxq'), CanData!LengthOf(canMail'),
                   CanData!LengthOf(CanData!Arrived'))
    BY <1>1, <1>4, <2>1, QueueKeeps
  <2>3. canTdue' \in BOOLEAN
    BY <1>4 DEF CanData!QueueFrame
  <2>4. CanData!TypeOK'
    BY <1>1, <1>4, <2>2, <2>3, CanTypes, TypesFrom
  <2> QED
    BY <2>2, <2>4, CanFrom
<1>5. CASE canTpc' = "flush again" /\ UNCHANGED <<canWritten, canPend, canTxq, canTdue>>
  <2>1. CanData!TypeOK'
    BY <1>1, <1>5, CanTypes, TypesFrom
  <2> QED
    BY <1>1, <1>2, <1>5, <2>1, CanSame
<1> QED
  BY <1>3, <1>4, <1>5 DEF CanData!Write

LEMMA HandKeeps == ASSUME CanData!Inv, CanData!Hand PROVE CanData!Inv'
<1>1. UNCHANGED <<canReady, canWritten, canPend, canBus, canRxq, canLost, canRdue, canRpc, canCount,
                  canClient,
                  canGot, canLast, canBuf, canDropped>>
  BY DEF CanData!Hand, CanData!receiving
<1>2. CanData!Arrived' = CanData!Arrived
  BY <1>1 DEF CanData!Arrived
<1>3. CASE canTxq = <<>> \/ Len(canMail) = CanMailboxes
  <2>1. canTpc' = "off" /\ canTdue' = (canTdue \/ canTxq # <<>>) /\ UNCHANGED <<canMail, canTxq>>
    BY <1>3 DEF CanData!Hand
  <2>2. canTdue' \in BOOLEAN
    BY <2>1
  <2>3. CanData!TypeOK'
    BY <1>1, <2>1, <2>2, CanTypes, TypesFrom
  <2> QED
    BY <1>1, <1>2, <2>1, <2>3, CanSame
<1>4. CASE ~(canTxq = <<>> \/ Len(canMail) = CanMailboxes)
  <2>1. /\ canTxq # <<>> /\ canMail' = Append(canMail, Head(canTxq)) /\ canTxq' = Tail(canTxq)
        /\ UNCHANGED <<canTdue, canTpc>>
    BY <1>4 DEF CanData!Hand
  <2>2. /\ canTxq \in Seq(Frames) /\ canMail \in Seq(Frames) /\ CanData!Arrived \in Seq(Frames)
        /\ CanData!Line(canLast, canBuf, CanData!Arrived, canMail, canTxq, canWritten - canPend)
    BY CanFacts
  <2>3. /\ Head(canTxq) \in Frames /\ Tail(canTxq) \in Seq(Frames)
        /\ CanData!LengthOf(canTxq) = Head(canTxq).length + CanData!LengthOf(Tail(canTxq))
    BY <2>1, <2>2, LengthOfTail
  <2>4. /\ Append(canMail, Head(canTxq)) \in Seq(Frames)
        /\ CanData!LengthOf(Append(canMail, Head(canTxq)))
             = CanData!LengthOf(canMail) + Head(canTxq).length
    BY <2>2, <2>3, AppendIs, LengthOfAppend
  <2>5. CanData!Line(canLast, canBuf, CanData!Arrived, canMail', canTxq', canWritten - canPend)
    BY <2>1, <2>2, LineHand
  <2>6. Counted(canWritten, canGot, canLost, canDropped, Len(canBuf), canPend,
                CanData!LengthOf(canTxq'), CanData!LengthOf(canMail'),
                CanData!LengthOf(CanData!Arrived))
    <3> DEFINE f == Head(canTxq).length
               t == CanData!LengthOf(Tail(canTxq))
    <3>1. /\ canWritten \in Nat /\ canPend \in Nat /\ canGot \in Nat /\ canLost \in Nat
          /\ canDropped \in Nat /\ Len(canBuf) \in Nat
          /\ CanData!LengthOf(canTxq) \in Nat /\ CanData!LengthOf(canMail) \in Nat
          /\ CanData!LengthOf(CanData!Arrived) \in Nat
          /\ Counted(canWritten, canGot, canLost, canDropped, Len(canBuf), canPend,
                     CanData!LengthOf(canTxq), CanData!LengthOf(canMail),
                     CanData!LengthOf(CanData!Arrived))
      BY CanFacts
    <3>2. f \in Nat /\ t \in Nat /\ CanData!LengthOf(canTxq) = f + t
      BY <2>3, LengthOfIs DEF Frames, CanData!Frames
    <3>3. CanData!LengthOf(canMail') = CanData!LengthOf(canMail) + f
            /\ CanData!LengthOf(canTxq') = t
      BY <2>1, <2>4
    <3> HIDE DEF f, t
    <3>4. Counted(canWritten, canGot, canLost, canDropped, Len(canBuf), canPend,
                  t, CanData!LengthOf(canMail) + f, CanData!LengthOf(CanData!Arrived))
      BY <3>1, <3>2 DEF Counted
    <3> QED
      BY <3>3, <3>4
  <2>7. CanData!TypeOK'
    BY <1>1, <2>1, <2>3, <2>4, CanTypes, TypesFrom
  <2> QED
    BY <1>1, <1>2, <2>5, <2>6, <2>7, CanFrom
<1> QED
  BY <1>3, <1>4

LEMMA TransmitKeeps == ASSUME CanData!Inv, CanData!Transmit PROVE CanData!Inv'
<1> DEFINE f == Head(canMail)
           s == Tail(canMail)
<1>1. /\ canMail # <<>> /\ canMail' = s
      /\ UNCHANGED <<canReady, canWritten, canPend, canTxq, canTpc, canBus, canRpc, canCount,
                     canClient,
                     canGot,
                     canLast, canBuf, canDropped>>
  BY DEF CanData!Transmit
<1>2. canTdue' \in BOOLEAN
  BY DEF CanData!Transmit
<1>3. /\ canTxq \in Seq(Frames) /\ canMail \in Seq(Frames) /\ CanData!Arrived \in Seq(Frames)
      /\ canRxq \in Seq(Frames)
      /\ CanData!Line(canLast, canBuf, CanData!Arrived, canMail, canTxq, canWritten - canPend)
  BY CanFacts
<1>4. f \in Frames /\ s \in Seq(Frames)
      /\ CanData!LengthOf(canMail) = f.length + CanData!LengthOf(s)
  BY <1>1, <1>3, LengthOfTail
<1>5. f.length \in Nat /\ CanData!LengthOf(s) \in Nat
  BY <1>4, LengthOfIs DEF Frames, CanData!Frames
<1>6. /\ CanData!Line(canLast, canBuf, Append(CanData!Arrived, f), s, canTxq, canWritten - canPend)
      /\ CanData!Line(canLast, canBuf, CanData!Arrived, s, canTxq, canWritten - canPend)
  BY <1>1, <1>3, LineTransmit
<1> HIDE DEF f, s
<1>7. /\ canWritten \in Nat /\ canPend \in Nat /\ canGot \in Nat /\ canLost \in Nat
      /\ canDropped \in Nat /\ Len(canBuf) \in Nat
      /\ CanData!LengthOf(canTxq) \in Nat /\ CanData!LengthOf(canMail) \in Nat
      /\ CanData!LengthOf(CanData!Arrived) \in Nat
      /\ Counted(canWritten, canGot, canLost, canDropped, Len(canBuf), canPend,
                 CanData!LengthOf(canTxq), CanData!LengthOf(canMail),
                 CanData!LengthOf(CanData!Arrived))
  BY CanFacts
<1>8. CASE Len(canRxq) < CanRxCount
  <2>1. canRxq' = Append(canRxq, f) /\ canRdue' = TRUE /\ canLost' = canLost
    BY <1>8 DEF CanData!Transmit, f
  <2>2. CanData!Arrived' = Append(CanData!Arrived, f)
    <3>1. canRxq # <<>> => Tail(Append(canRxq, f)) = Append(Tail(canRxq), f)
      BY <1>3, <1>4
    <3>2. canRpc = "remove" => canRxq # <<>>
      BY CanTypes
    <3> QED
      BY <1>1, <2>1, <3>1, <3>2 DEF CanData!Arrived
  <2>3. canRxq' \in Seq(Frames) /\ canRxq' # <<>>
    <3>1. /\ Append(canRxq, f) \in Seq(Frames) /\ Len(canRxq) \in Nat
          /\ Len(Append(canRxq, f)) = Len(canRxq) + 1
      BY <1>3, <1>4, AppendIs
    <3>2. Append(canRxq, f) # <<>>
      BY <3>1
    <3> QED
      BY <2>1, <3>1, <3>2
  <2>4. CanData!TypeOK'
    BY <1>1, <1>2, <1>4, <2>1, <2>3, CanTypes, TypesFrom
  <2>5. CanData!LengthOf(Append(CanData!Arrived, f)) = CanData!LengthOf(CanData!Arrived) + f.length
    BY <1>3, <1>4, LengthOfAppend
  <2>6. Counted(canWritten, canGot, canLost, canDropped, Len(canBuf), canPend,
                CanData!LengthOf(canTxq), CanData!LengthOf(s),
                CanData!LengthOf(CanData!Arrived) + f.length)
    BY <1>4, <1>5, <1>7 DEF Counted
  <2> QED
    BY <1>1, <1>6, <2>1, <2>2, <2>4, <2>5, <2>6, CanFrom
<1>9. CASE ~(Len(canRxq) < CanRxCount)
  <2>1. UNCHANGED <<canRxq, canRdue>> /\ canLost' = canLost + f.length
    BY <1>9 DEF CanData!Transmit, f
  <2>2. CanData!Arrived' = CanData!Arrived
    BY <1>1, <2>1 DEF CanData!Arrived
  <2>3. canLost + f.length \in Nat
    BY <1>5, <1>7
  <2>4. CanData!TypeOK'
    BY <1>1, <1>2, <1>4, <2>1, <2>3, CanTypes, TypesFrom
  <2>5. Counted(canWritten, canGot, canLost + f.length, canDropped, Len(canBuf), canPend,
                CanData!LengthOf(canTxq), CanData!LengthOf(s),
                CanData!LengthOf(CanData!Arrived))
    BY <1>4, <1>5, <1>7, CountedElse
  <2> QED
    BY <1>1, <1>6, <2>1, <2>2, <2>4, <2>5, CanFrom
<1> QED
  BY <1>8, <1>9

LEMMA BusKeeps == ASSUME CanData!Inv, CanData!BusOff \/ CanData!BusRecovers PROVE CanData!Inv'
<1>1. /\ UNCHANGED <<canReady, canWritten, canPend, canTxq, canTpc, canMail, canRxq, canLost,
                     canRdue, canRpc,
                     canCount, canClient, canGot, canLast, canBuf, canDropped>>
  BY DEF CanData!BusOff, CanData!BusRecovers, CanData!sending, CanData!receiving
<1>2. canBus' \in BOOLEAN
  BY DEF CanData!BusOff, CanData!BusRecovers
<1>3. canTdue' = canTdue \/ canTdue' = TRUE
  BY DEF CanData!BusOff, CanData!BusRecovers, CanData!sending
<1>4. canTdue' \in BOOLEAN
  BY <1>3, CanTypes
<1>5. CanData!TypeOK'
  BY <1>1, <1>2, <1>4, CanTypes, TypesFrom
<1>6. CanData!Arrived' = CanData!Arrived
  BY <1>1 DEF CanData!Arrived
<1> QED
  BY <1>1, <1>5, <1>6, CanSame

LEMMA RunRxKeeps == ASSUME CanData!Inv, CanData!RunRx PROVE CanData!Inv'
<1>1. /\ UNCHANGED <<canReady, canWritten, canPend, canTxq, canTdue, canTpc, canMail, canBus,
                     canRxq, canLost,
                     canClient, canGot, canLast, canBuf, canDropped>>
      /\ canRdue' = FALSE /\ canRpc = "off" /\ canRpc' = "take" /\ canCount' = CanRxCount
  BY DEF CanData!RunRx, CanData!sending
<1>2. CanRxCount \in 0..CanRxCount
  BY CanAssumption
<1>3. CanData!TypeOK'
  BY <1>1, <1>2, CanTypes, TypesFrom
<1>4. CanData!Arrived' = CanData!Arrived
  BY <1>1 DEF CanData!Arrived
<1> QED
  BY <1>1, <1>3, <1>4, CanSame

LEMMA TakeOffKeeps == ASSUME CanData!Inv, CanData!TakeOff PROVE CanData!Inv'
<1>1. /\ UNCHANGED <<canReady, canWritten, canPend, canTxq, canTdue, canTpc, canMail, canBus,
                     canLost,
                     canRdue,
                     canCount, canClient, canGot, canLast, canBuf, canDropped>>
      /\ canRpc = "remove" /\ canRpc' = "take" /\ canRxq' = Tail(canRxq)
  BY DEF CanData!TakeOff, CanData!sending
<1>2. canRxq' \in Seq(Frames)
  <2>1. canRxq \in Seq(Frames) /\ canRxq # <<>>
    BY <1>1, CanTypes
  <2> QED
    BY <1>1, <2>1, TailIs
<1>3. CanData!TypeOK'
  BY <1>1, <1>2, CanTypes, TypesFrom
<1>4. CanData!Arrived' = CanData!Arrived
  BY <1>1 DEF CanData!Arrived
<1> QED
  BY <1>1, <1>3, <1>4, CanSame

LEMMA ClientKeeps == ASSUME CanData!Inv, CanData!Client PROVE CanData!Inv'
<1>1. /\ UNCHANGED <<canReady, canWritten, canPend, canTxq, canTdue, canTpc, canMail, canBus,
                     canRxq, canLost,
                     canRdue, canRpc, canCount, canGot, canLast>>
      /\ canDropped' = canDropped + Len(canBuf) /\ canBuf' = <<>>
  BY DEF CanData!Client, CanData!sending
<1>2. canClient' \in BOOLEAN
  BY DEF CanData!Client
<1>3. /\ canWritten \in Nat /\ canPend \in Nat /\ canGot \in Nat /\ canLost \in Nat
      /\ canDropped \in Nat /\ Len(canBuf) \in Nat
      /\ CanData!LengthOf(canTxq) \in Nat /\ CanData!LengthOf(canMail) \in Nat
      /\ CanData!LengthOf(CanData!Arrived) \in Nat
      /\ Counted(canWritten, canGot, canLost, canDropped, Len(canBuf), canPend,
                 CanData!LengthOf(canTxq), CanData!LengthOf(canMail),
                 CanData!LengthOf(CanData!Arrived))
  BY CanFacts
<1>4. canDropped + Len(canBuf) \in Nat /\ <<>> \in Seq(Nat) /\ Len(<<>>) = 0
  BY <1>3
<1>5. CanData!TypeOK'
  BY <1>1, <1>2, <1>4, CanTypes, TypesFrom
<1>6. CanData!Arrived' = CanData!Arrived
  BY <1>1 DEF CanData!Arrived
<1>7. CanData!Line(canLast, <<>>, CanData!Arrived, canMail, canTxq, canWritten - canPend)
  BY CanFacts, LineClear
<1>8. Counted(canWritten, canGot, canLost, canDropped + Len(canBuf), 0, canPend,
              CanData!LengthOf(canTxq), CanData!LengthOf(canMail),
              CanData!LengthOf(CanData!Arrived))
  BY <1>3 DEF Counted
<1> QED
  BY <1>1, <1>4, <1>5, <1>6, <1>7, <1>8, CanFrom

\* The client has read k bytes of the buffer.
LEMMA ReadIs ==
  ASSUME CanData!Inv, NEW k \in 0..Len(canBuf)
  PROVE  LET e == IF k = 0 THEN canLast ELSE canBuf[k]
             c == SubSeq(canBuf, k + 1, Len(canBuf))
         IN /\ e \in Nat /\ c \in Seq(Nat) /\ Len(c) = Len(canBuf) - k /\ Len(c) \in Nat
            /\ canGot + k \in Nat
            /\ CanData!Line(e, c, CanData!Arrived, canMail, canTxq, canWritten - canPend)
            /\ Counted(canWritten, canGot + k, canLost, canDropped, Len(c), canPend,
                       CanData!LengthOf(canTxq), CanData!LengthOf(canMail),
                       CanData!LengthOf(CanData!Arrived))
<1> DEFINE e == IF k = 0 THEN canLast ELSE canBuf[k]
           c == SubSeq(canBuf, k + 1, Len(canBuf))
<1>1. /\ canWritten \in Nat /\ canPend \in Nat /\ canGot \in Nat /\ canLost \in Nat
      /\ canDropped \in Nat /\ Len(canBuf) \in Nat /\ canBuf \in Seq(Nat) /\ canLast \in Nat
      /\ canWritten - canPend \in Nat
      /\ CanData!LengthOf(canTxq) \in Nat /\ CanData!LengthOf(canMail) \in Nat
      /\ CanData!LengthOf(CanData!Arrived) \in Nat
      /\ CanData!Line(canLast, canBuf, CanData!Arrived, canMail, canTxq, canWritten - canPend)
      /\ Counted(canWritten, canGot, canLost, canDropped, Len(canBuf), canPend,
                 CanData!LengthOf(canTxq), CanData!LengthOf(canMail),
                 CanData!LengthOf(CanData!Arrived))
  BY CanFacts
<1>2. /\ e \in Nat /\ c \in Seq(Nat) /\ Len(c) = Len(canBuf) - k
      /\ CanData!Line(e, c, CanData!Arrived, canMail, canTxq, canWritten - canPend)
  BY <1>1, LineRead
<1> HIDE DEF e, c
<1>3. k \in Nat /\ Len(c) \in Nat /\ canGot + k \in Nat
  BY <1>1, <1>2
<1>4. Counted(canWritten, canGot + k, canLost, canDropped, Len(c), canPend,
              CanData!LengthOf(canTxq), CanData!LengthOf(canMail),
              CanData!LengthOf(CanData!Arrived))
  BY <1>1, <1>2, <1>3 DEF Counted
<1> QED
  BY <1>2, <1>3, <1>4 DEF e, c

LEMMA RxDoneKeeps == ASSUME CanData!Inv, CanData!RxDone PROVE CanData!Inv'
<1>1. /\ UNCHANGED <<canReady, canWritten, canPend, canTxq, canTdue, canTpc, canMail, canBus,
                     canRxq, canLost,
                     canCount, canClient, canDropped>>
      /\ canRpc = "take" /\ canRpc' = "off"
  BY DEF CanData!RxDone, CanData!sending
<1>2. canRdue' \in BOOLEAN
  BY DEF CanData!RxDone
<1>3. CanData!Arrived' = CanData!Arrived
  BY <1>1 DEF CanData!Arrived
<1>4. CASE canClient
  <2>1. PICK k \in 0..Len(canBuf) : CanData!Reads(k)
    BY <1>4 DEF CanData!RxDone
  <2> DEFINE e == IF k = 0 THEN canLast ELSE canBuf[k]
             c == SubSeq(canBuf, k + 1, Len(canBuf))
  <2>2. canGot' = canGot + k /\ canLast' = e /\ canBuf' = c
    BY <2>1 DEF CanData!Reads
  <2>3. /\ e \in Nat /\ c \in Seq(Nat) /\ canGot + k \in Nat
        /\ CanData!Line(e, c, CanData!Arrived, canMail, canTxq, canWritten - canPend)
        /\ Counted(canWritten, canGot + k, canLost, canDropped, Len(c), canPend,
                   CanData!LengthOf(canTxq), CanData!LengthOf(canMail),
                   CanData!LengthOf(CanData!Arrived))
    BY ReadIs
  <2> HIDE DEF e, c
  <2>4. CanData!TypeOK'
    BY <1>1, <1>2, <2>2, <2>3, CanTypes, TypesFrom
  <2> QED
    BY <1>1, <1>3, <2>2, <2>3, <2>4, CanFrom
<1>5. CASE ~canClient
  <2>1. UNCHANGED <<canGot, canLast, canBuf>>
    BY <1>5 DEF CanData!RxDone
  <2>2. CanData!TypeOK'
    BY <1>1, <1>2, <2>1, CanTypes, TypesFrom
  <2> QED
    BY <1>1, <1>3, <2>1, <2>2, CanSame
<1> QED
  BY <1>4, <1>5

LEMMA TakeKeeps == ASSUME CanData!Inv, CanData!Take PROVE CanData!Inv'
<1> DEFINE f == Head(canRxq)
           s == Tail(canRxq)
<1>1. /\ UNCHANGED <<canReady, canWritten, canPend, canTxq, canTdue, canTpc, canMail, canBus,
                     canRxq, canRdue,
                     canClient>>
      /\ canRpc = "take" /\ canRpc' = "remove" /\ canRxq # <<>> /\ canCount > 0
      /\ canCount' = canCount - 1
  BY DEF CanData!Take, CanData!sending
<1>2. canCount - 1 \in 0..CanRxCount
  <2>1. canCount \in 0..CanRxCount /\ CanRxCount \in Nat /\ canCount > 0
    BY <1>1, CanTypes, CanAssumption
  <2> QED
    BY <2>1
<1>3. CanData!Arrived = canRxq /\ CanData!Arrived' = s
  BY <1>1 DEF CanData!Arrived
<1>4. canRxq \in Seq(Frames) /\ canMail \in Seq(Frames) /\ canTxq \in Seq(Frames)
  BY CanTypes
<1>5. f \in Frames /\ s \in Seq(Frames)
      /\ CanData!LengthOf(canRxq) = f.length + CanData!LengthOf(s)
  BY <1>1, <1>4, LengthOfTail
<1>6. f.length \in Nat /\ CanData!LengthOf(s) \in Nat
  BY <1>5, LengthOfIs DEF Frames, CanData!Frames
<1>7. /\ canWritten \in Nat /\ canPend \in Nat /\ canGot \in Nat /\ canLost \in Nat
      /\ canDropped \in Nat /\ Len(canBuf) \in Nat /\ canBuf \in Seq(Nat) /\ canLast \in Nat
      /\ canWritten - canPend \in Nat
      /\ CanData!LengthOf(canTxq) \in Nat /\ CanData!LengthOf(canMail) \in Nat
      /\ CanData!Line(canLast, canBuf, canRxq, canMail, canTxq, canWritten - canPend)
      /\ Counted(canWritten, canGot, canLost, canDropped, Len(canBuf), canPend,
                 CanData!LengthOf(canTxq), CanData!LengthOf(canMail),
                 CanData!LengthOf(canRxq))
  BY <1>3, CanFacts
<1>8. CanData!LengthOf(canRxq) \in Nat
  BY <1>4, LengthOfIs
<1>9. CASE ~canClient
  <2>1. canDropped' = canDropped + f.length /\ UNCHANGED <<canLost, canGot, canLast, canBuf>>
    BY <1>9 DEF CanData!Take
  <2>2. CanData!Line(canLast, canBuf, s, canMail, canTxq, canWritten - canPend)
    BY <1>1, <1>4, <1>7, LineTake
  <2> HIDE DEF f, s
  <2>3. canDropped + f.length \in Nat
    BY <1>6, <1>7
  <2>4. Counted(canWritten, canGot, canLost, canDropped + f.length, Len(canBuf), canPend,
                CanData!LengthOf(canTxq), CanData!LengthOf(canMail), CanData!LengthOf(s))
    BY <1>5, <1>6, <1>7, <1>8, CountedElse
  <2>5. CanData!TypeOK'
    BY <1>1, <1>2, <2>1, <2>3, CanTypes, TypesFrom
  <2> QED
    BY <1>1, <1>3, <2>1, <2>2, <2>4, <2>5, CanFrom
<1>10. CASE canClient
  <2>1. PICK k \in 0..Len(canBuf) :
          /\ canGot' = canGot + k /\ canLast' = IF k = 0 THEN canLast ELSE canBuf[k]
          /\ LET rest == SubSeq(canBuf, k + 1, Len(canBuf))
             IN IF CanRxSize - Len(rest) < f.length
                  THEN canBuf' = rest /\ canLost' = canLost + f.length
                  ELSE canBuf' = rest \o CanData!BytesOf(f) /\ UNCHANGED canLost
          /\ UNCHANGED canDropped
    BY <1>10 DEF CanData!Take
  <2> DEFINE e == IF k = 0 THEN canLast ELSE canBuf[k]
             c == SubSeq(canBuf, k + 1, Len(canBuf))
             d == c \o CanData!BytesOf(f)
  <2>2. /\ e \in Nat /\ c \in Seq(Nat) /\ Len(c) \in Nat /\ canGot + k \in Nat
        /\ CanData!Line(e, c, canRxq, canMail, canTxq, canWritten - canPend)
        /\ Counted(canWritten, canGot + k, canLost, canDropped, Len(c), canPend,
                   CanData!LengthOf(canTxq), CanData!LengthOf(canMail),
                   CanData!LengthOf(canRxq))
    BY <1>3, ReadIs
  <2>3. canGot' = canGot + k /\ canLast' = e /\ UNCHANGED canDropped
    BY <2>1
  <2>4. \/ canBuf' = c /\ canLost' = canLost + f.length
        \/ canBuf' = d /\ UNCHANGED canLost
    BY <2>1
  <2> HIDE DEF e, c
  <2>5. /\ CanData!Line(e, c, s, canMail, canTxq, canWritten - canPend)
        /\ d \in Seq(Nat) /\ Len(d) = Len(c) + f.length
        /\ CanData!Line(e, d, s, canMail, canTxq, canWritten - canPend)
    BY <1>1, <1>4, <1>7, <2>2, LineTake
  <2> HIDE DEF f, s, d
  <2>6. CASE canBuf' = c /\ canLost' = canLost + f.length
    <3>1. canLost + f.length \in Nat
      BY <1>6, <1>7
    <3>2. Counted(canWritten, canGot + k, canLost + f.length, canDropped, Len(c), canPend,
                  CanData!LengthOf(canTxq), CanData!LengthOf(canMail), CanData!LengthOf(s))
      BY <1>5, <1>6, <1>7, <1>8, <2>2, CountedElse
    <3>3. CanData!TypeOK'
      BY <1>1, <1>2, <2>2, <2>3, <2>6, <3>1, CanTypes, TypesFrom
    <3> QED
      BY <1>1, <1>3, <2>3, <2>5, <2>6, <3>2, <3>3, CanFrom
  <2>7. CASE canBuf' = d /\ UNCHANGED canLost
    <3>1. Counted(canWritten, canGot + k, canLost, canDropped, Len(c) + f.length, canPend,
                  CanData!LengthOf(canTxq), CanData!LengthOf(canMail), CanData!LengthOf(s))
      BY <1>5, <1>6, <1>7, <1>8, <2>2, CountedElse
    <3>2. CanData!TypeOK'
      BY <1>1, <1>2, <2>2, <2>3, <2>5, <2>7, CanTypes, TypesFrom
    <3> QED
      BY <1>1, <1>3, <2>3, <2>5, <2>7, <3>1, <3>2, CanFrom
  <2> QED
    BY <2>4, <2>6, <2>7
<1> QED
  BY <1>9, <1>10

LEMMA CanStep == CanData!Inv /\ [CanData!Next]_CanData!vars => CanData!Inv'
<1> SUFFICES ASSUME CanData!Inv, [CanData!Next]_CanData!vars PROVE CanData!Inv'
  OBVIOUS
<1>1. CASE UNCHANGED CanData!vars
  <2>1. UNCHANGED <<canReady, canWritten, canPend, canTxq, canTdue, canTpc, canMail, canBus,
                    canRxq, canLost,
                    canRdue, canRpc, canCount, canClient, canGot, canLast, canBuf, canDropped>>
    BY <1>1 DEF CanData!vars, CanData!sending, CanData!receiving
  <2>2. CanData!TypeOK'
    BY <2>1, CanTypes, TypesFrom
  <2>3. CanData!Arrived' = CanData!Arrived
    BY <2>1 DEF CanData!Arrived
  <2> QED
    BY <2>1, <2>2, <2>3, CanSame
<1>2. CASE CanData!TxWorks
  BY <1>2, RunTxKeeps, FlushKeeps, WriteKeeps, HandKeeps DEF CanData!TxWorks
<1>3. CASE CanData!RxWorks
  BY <1>3, RunRxKeeps, TakeKeeps, TakeOffKeeps, RxDoneKeeps DEF CanData!RxWorks
<1>4. CASE CanData!TriggerSend \/ CanData!Transmit \/ CanData!BusOff \/ CanData!BusRecovers
             \/ CanData!Client
  BY <1>4, TriggerSendKeeps, TransmitKeeps, BusKeeps, ClientKeeps
<1> QED
  BY <1>1, <1>2, <1>3, <1>4 DEF CanData!Next

LEMMA CanPromise == CanData!Inv => CanData!BytesInOrder /\ CanData!LossIsCounted
<1> SUFFICES ASSUME CanData!Inv PROVE CanData!BytesInOrder
  BY DEF CanData!Inv
<1>1. CanData!Between(canBuf, canLast, canWritten - canPend) /\ Len(canBuf) \in Nat
  BY CanFacts DEF CanData!Line
<1>2. ASSUME NEW k \in 1..Len(canBuf)
      PROVE  canBuf[k] > (IF k = 1 THEN canLast ELSE canBuf[k - 1])
  <2>1. CASE k = 1
    BY <1>1, <2>1 DEF CanData!Between
  <2>2. CASE k # 1
    <3>1. k - 1 \in 1..Len(canBuf) /\ k - 1 < k
      BY <1>1, <2>2
    <3> QED
      BY <1>1, <2>2, <3>1 DEF CanData!Between
  <2> QED
    BY <2>1, <2>2
<1> QED
  BY <1>2 DEF CanData!BytesInOrder

THEOREM BytesArriveInOrder == CanData!Spec => [](CanData!BytesInOrder /\ CanData!LossIsCounted)
<1>1. CanData!Spec => []CanData!Inv
  BY CanInit, CanStep, PTL DEF CanData!Spec
<1> QED
  BY <1>1, CanPromise, PTL

-----------------------------------------------------------------------------
(* Both of them.                                                             *)

\* A behaviour of both is one of each.
LEMMA StreamsAreEach == StreamsSpec => BusData!Spec /\ FdData!Spec /\ CanData!Spec
<1>1. StreamsInit => BusData!Init /\ FdData!Init /\ CanData!Init
  BY DEF StreamsInit
<1>2. [StreamsNext]_streamVars =>
        [BusData!Next]_BusData!vars /\ [FdData!Next]_FdData!vars /\ [CanData!Next]_CanData!vars
  <2>1. UNCHANGED busVars => UNCHANGED BusData!vars
    BY DEF busVars, BusData!vars, BusData!port, BusData!receiver, BusData!stream,
           BusData!reading, BusData!task
  <2>2. UNCHANGED fdVars => UNCHANGED FdData!vars
    BY DEF fdVars, FdData!vars, FdData!port, FdData!device, FdData!stream, FdData!reading,
           FdData!writing, FdData!task
  <2>3. UNCHANGED canVars => UNCHANGED CanData!vars
    BY DEF canVars, CanData!vars, CanData!sending, CanData!receiving
  <2> QED
    BY <2>1, <2>2, <2>3 DEF StreamsNext, streamVars
<1> QED
  BY <1>1, <1>2, PTL DEF StreamsSpec, BusData!Spec, FdData!Spec, CanData!Spec

\* What a client reads is what was sent, in order: over I2C and SPI it is told of every gap first,
\* over CAN what is missing is counted or on its way; and over SPI what it wrote is not dropped
\* before the device has it.
THEOREM StreamsHold == StreamsSpec => []StreamsTrue
<1>1. (BusData!PortFollowed /\ BusData!BufferIsBus /\ BusData!NoFiller /\ BusData!GapsAreTold)
        /\ (FdData!TakenWasSent /\ FdData!GapsAreTold /\ FdData!PortFollowed)
        /\ (CanData!BytesInOrder /\ CanData!LossIsCounted) => StreamsTrue
  BY DEF StreamsTrue
<1> QED
  BY <1>1, StreamsAreEach, PortIsFollowed, BothWaysTrue, BytesArriveInOrder, PTL

-----------------------------------------------------------------------------
(* XMODEM.                                                                   *)

Message == [no : Nat, how : Transfer!Hows \cup {"EOT", "CAN"}]
NoPacket(q) == \A k \in 1..Len(q) : ~Transfer!IsPacket(q[k])
InTurn(q, over) ==
  \A j \in 1..Len(q) :
    /\ Transfer!IsPacket(q[j]) => q[j].no \in 1..XmodemPackets
    /\ q[j].how = "EOT" => over /\ \A k \in 1..Len(q) : k > j => ~Transfer!IsPacket(q[k])

\* The first message is read or lost.
LEMMA InTurnTail ==
  ASSUME NEW q \in Seq(Message), NEW over \in BOOLEAN, q # <<>>, InTurn(q, over)
  PROVE  /\ Tail(q) \in Seq(Message) /\ InTurn(Tail(q), over)
         /\ NoPacket(q) => NoPacket(Tail(q))
         /\ Head(q) = q[1] /\ 1 \in 1..Len(q) /\ Head(q) \in Message
         /\ Head(q).how = "EOT" => over /\ NoPacket(Tail(q))
         /\ Transfer!IsPacket(Head(q)) => Head(q).no \in 1..XmodemPackets
<1> DEFINE r == Tail(q)
<1>1. /\ r \in Seq(Message) /\ Len(r) = Len(q) - 1 /\ Len(q) \in Nat /\ Len(q) > 0
      /\ \A k \in 1..Len(r) : r[k] = q[k + 1]
  OBVIOUS
<1>2. Head(q) = q[1] /\ 1 \in 1..Len(q) /\ Head(q) \in Message
  OBVIOUS
<1> HIDE DEF r
<1>3. \A k \in 1..Len(r) : k + 1 \in 1..Len(q) /\ k + 1 > 1
  BY <1>1
<1>4. NoPacket(q) => NoPacket(r)
  BY <1>1, <1>3 DEF NoPacket
<1>5. InTurn(r, over)
  <2> SUFFICES ASSUME NEW j \in 1..Len(r)
               PROVE  /\ Transfer!IsPacket(r[j]) => r[j].no \in 1..XmodemPackets
                      /\ r[j].how = "EOT" =>
                           over /\ \A k \in 1..Len(r) : k > j => ~Transfer!IsPacket(r[k])
    BY DEF InTurn
  <2>1. r[j] = q[j + 1] /\ j + 1 \in 1..Len(q)
    BY <1>1, <1>3
  <2>2. \A k \in 1..Len(r) : k > j => k + 1 > j + 1
    BY <1>1
  <2> QED
    BY <1>1, <1>3, <2>1, <2>2 DEF InTurn
<1>6. q[1].how = "EOT" => over /\ NoPacket(r)
  BY <1>1, <1>2, <1>3 DEF InTurn, NoPacket
<1>7. Transfer!IsPacket(q[1]) => q[1].no \in 1..XmodemPackets
  BY <1>2 DEF InTurn
<1> QED
  BY <1>1, <1>2, <1>4, <1>5, <1>6, <1>7 DEF r

\* A message is sent.
LEMMA InTurnAppend ==
  ASSUME NEW q \in Seq(Message), NEW over \in BOOLEAN, InTurn(q, over), NEW m \in Message,
         Transfer!IsPacket(m) => m.no \in 1..XmodemPackets /\ ~over,
         m.how = "EOT" => over
  PROVE  /\ Append(q, m) \in Seq(Message) /\ InTurn(Append(q, m), over)
         /\ NoPacket(q) /\ ~Transfer!IsPacket(m) => NoPacket(Append(q, m))
<1> DEFINE r == Append(q, m)
<1>1. /\ r \in Seq(Message) /\ Len(r) = Len(q) + 1 /\ Len(q) \in Nat /\ r[Len(q) + 1] = m
      /\ \A k \in 1..Len(q) : r[k] = q[k]
  OBVIOUS
<1> HIDE DEF r
<1>2. \A k \in 1..Len(r) : k \in 1..Len(q) \/ k = Len(q) + 1
  BY <1>1
<1>3. NoPacket(q) /\ ~Transfer!IsPacket(m) => NoPacket(r)
  BY <1>1, <1>2 DEF NoPacket
<1>4. InTurn(r, over)
  <2> SUFFICES ASSUME NEW j \in 1..Len(r)
               PROVE  /\ Transfer!IsPacket(r[j]) => r[j].no \in 1..XmodemPackets
                      /\ r[j].how = "EOT" =>
                           over /\ \A k \in 1..Len(r) : k > j => ~Transfer!IsPacket(r[k])
    BY DEF InTurn
  <2>1. CASE j \in 1..Len(q)
    BY <1>1, <1>2, <2>1 DEF InTurn
  <2>2. CASE j = Len(q) + 1
    <3>1. \A k \in 1..Len(r) : ~(k > j)
      BY <1>1, <2>2
    <3> QED
      BY <1>1, <2>2, <3>1
  <2> QED
    BY <1>2, <2>1, <2>2
<1> QED
  BY <1>1, <1>3, <1>4 DEF r

\* The first message, a packet, is spoilt.
LEMMA InTurnSpoilt ==
  ASSUME NEW q \in Seq(Message), NEW over \in BOOLEAN, q # <<>>, InTurn(q, over),
         NEW m \in Message, Transfer!IsPacket(q[1]), Transfer!IsPacket(m), m.no = q[1].no
  PROVE  /\ <<m>> \o Tail(q) \in Seq(Message) /\ InTurn(<<m>> \o Tail(q), over)
         /\ ~NoPacket(q)
<1> DEFINE r == <<m>> \o Tail(q)
<1>1. /\ r \in Seq(Message) /\ Len(r) = Len(q) /\ Len(q) \in Nat /\ r[1] = m /\ 1 \in 1..Len(q)
      /\ \A k \in 1..Len(q) : k = 1 \/ r[k] = q[k]
  OBVIOUS
<1> HIDE DEF r
<1>2. m.how # "EOT"
  BY DEF Transfer!IsPacket, Transfer!Hows
<1>3. q[1].no \in 1..XmodemPackets
  BY <1>1 DEF InTurn
<1>4. InTurn(r, over)
  <2> SUFFICES ASSUME NEW j \in 1..Len(r)
               PROVE  /\ Transfer!IsPacket(r[j]) => r[j].no \in 1..XmodemPackets
                      /\ r[j].how = "EOT" =>
                           over /\ \A k \in 1..Len(r) : k > j => ~Transfer!IsPacket(r[k])
    BY DEF InTurn
  <2>1. CASE j = 1
    BY <1>1, <1>2, <1>3, <2>1
  <2>2. CASE j # 1
    <3>1. r[j] = q[j] /\ j \in 1..Len(q)
      BY <1>1, <2>2
    <3>2. \A k \in 1..Len(r) : k > j => r[k] = q[k] /\ k \in 1..Len(q)
      BY <1>1
    <3> QED
      BY <3>1, <3>2 DEF InTurn
  <2> QED
    BY <2>1, <2>2
<1> QED
  BY <1>1, <1>4 DEF r, NoPacket

\* The parts of the invariant.
SenderInv ==
  /\ xmNo \in 0..XmodemPackets /\ xmSfin \in BOOLEAN
  /\ xmStx \in {"idle", "sending", "wait", "EOT", "CAN"}
  /\ xmStx \in {"sending", "wait", "EOT"} => xmNo > 0
  /\ xmSfin => xmStx \in {"EOT", "wait"}
  /\ xmSend # "going" => xmStx \in {"idle", "CAN"}
LineInv == xmToR \in Seq(Message) /\ InTurn(xmToR, Transfer!NoMore)
Passed(q) ==
  q \in Seq(1..XmodemPackets) /\ Len(q) <= XmodemPackets /\ \A k \in 1..Len(q) : q[k] = k
ReceiverInv ==
  /\ xmLast \in Nat /\ Passed(xmGot)
  /\ \/ xmRecv = "cancel" \/ xmLast = Len(xmGot)
     \/ xmLast = 0 /\ Transfer!NoMore /\ NoPacket(xmToR)

LEMMA TransferParts == Transfer!Inv <=> SenderInv /\ LineInv /\ ReceiverInv
BY Zenon DEF Transfer!Inv, SenderInv, LineInv, ReceiverInv, Passed, Message, NoPacket, InTurn,
             Transfer!LineInOrder

LEMMA PartsTransfer == Transfer!Inv' <=> SenderInv' /\ LineInv' /\ ReceiverInv'
BY Zenon DEF Transfer!Inv, SenderInv, LineInv, ReceiverInv, Passed, Message, NoPacket, InTurn,
             Transfer!LineInOrder

LEMMA NoMoreIs == SenderInv => Transfer!NoMore \in BOOLEAN
BY DEF SenderInv, Transfer!NoMore

LEMMA TransferInit == Transfer!Init => Transfer!Inv
<1> SUFFICES ASSUME Transfer!Init PROVE SenderInv /\ LineInv /\ ReceiverInv
  BY TransferParts
<1>1. /\ xmNo = 0 /\ xmSfin = FALSE /\ xmStx = "idle" /\ xmSend = "going" /\ xmLast = 0
      /\ xmToR = <<>> /\ xmGot = <<>>
  BY DEF Transfer!Init
<1>2. 0 \in 0..XmodemPackets
  BY XmodemAssumption
<1>3. SenderInv
  BY <1>1, <1>2 DEF SenderInv
<1>4. \A S : <<>> \in Seq(S)
  OBVIOUS
<1>5. Len(<<>>) = 0 /\ 1..0 = {}
  OBVIOUS
<1>6. LineInv
  BY <1>1, <1>4, <1>5, Zenon DEF LineInv, InTurn
<1>7. 0 \in Nat /\ 0 <= XmodemPackets
  BY XmodemAssumption
<1>8. ReceiverInv
  BY <1>1, <1>4, <1>5, <1>7, Zenon DEF ReceiverInv, Passed
<1> QED
  BY <1>3, <1>6, <1>8

\* What the application of the sender answers leaves the sender right.
Through == SenderInv' /\ (Transfer!NoMore => Transfer!NoMore')

LEMMA PacketBegun ==
  ASSUME SenderInv, NEW n \in 1..XmodemPackets, xmStx' = "sending", xmNo' = n,
         xmSend = "going", xmSend' = xmSend, xmStx # "EOT", ~xmSfin, xmSfin' = FALSE
  PROVE  Through
<1>1. n \in 0..XmodemPackets /\ n > 0
  BY XmodemAssumption
<1> QED
  BY <1>1 DEF Through, SenderInv, Transfer!NoMore

LEMMA PacketNumbers ==
  ASSUME SenderInv
  PROVE  /\ 1 \in 1..XmodemPackets
         /\ xmNo < XmodemPackets => xmNo + 1 \in 1..XmodemPackets
         /\ xmNo > 0 => xmNo \in 1..XmodemPackets
BY XmodemAssumption DEF SenderInv

LEMMA ToldRight ==
  ASSUME SenderInv, NEW code, Transfer!Told(code), ~xmSfin, xmSfin' = FALSE,
         xmStx \in {"wait", "idle"}, xmStx = "idle" => code = "C"
  PROVE  Through
<1>1. CASE code = "C" /\ xmSend = "going" /\ Transfer!SendData(1)
  BY <1>1, PacketBegun, PacketNumbers DEF Transfer!SendData
<1>2. CASE UNCHANGED <<xmStx, xmNo, xmRetry, xmSend>>
  BY <1>2 DEF SenderInv, Through, Transfer!NoMore
<1> USE DEF SenderInv
<1>3. CASE code = "ACK" /\ xmNo < XmodemPackets /\ Transfer!SendData(xmNo + 1)
  <2>1. xmNo + 1 \in 1..XmodemPackets /\ xmSend = "going"
    BY <1>3, PacketNumbers
  <2> QED
    BY <1>3, <2>1, PacketBegun DEF Transfer!SendData
<1>4. CASE code = "ACK" /\ Transfer!SendEot
  BY <1>4 DEF Transfer!SendEot, Through, Transfer!NoMore
<1>5. CASE code = "NAK" /\ Transfer!SendData(xmNo)
  <2>1. xmNo \in 1..XmodemPackets /\ xmSend = "going"
    BY <1>5, PacketNumbers
  <2> QED
    BY <1>5, <2>1, PacketBegun DEF Transfer!SendData
<1>6. CASE xmStx' = "idle" /\ xmSend' = "cancel" /\ UNCHANGED <<xmNo, xmRetry>>
  BY <1>6 DEF Through, Transfer!NoMore
<1> QED
  BY <1>1, <1>2, <1>3, <1>4, <1>5, <1>6 DEF Transfer!Told

LEMMA RetryRight == ASSUME SenderInv, Transfer!RetryEot, xmStx = "wait" PROVE Through
BY DEF Transfer!RetryEot, Transfer!Told, SenderInv, Through, Transfer!NoMore

LEMMA AnswerRight ==
  ASSUME SenderInv, NEW code, Transfer!Answer(code), xmStx = "wait" PROVE Through
<1>1. CASE Transfer!RetryEot
  BY <1>1, RetryRight
<1>2. CASE xmStx' = "idle" /\ xmSfin' = FALSE /\ xmSend' = "finish" /\ UNCHANGED <<xmNo, xmRetry>>
  BY <1>2 DEF SenderInv, Through, Transfer!NoMore
<1>3. CASE ~xmSfin /\ Transfer!Told(code) /\ UNCHANGED xmSfin
  BY <1>3, ToldRight DEF SenderInv
<1>4. CASE Transfer!Told("CAN") /\ xmSfin' = FALSE
  BY <1>4 DEF Transfer!Told, SenderInv, Through, Transfer!NoMore
<1>5. CASE UNCHANGED Transfer!sender
  BY <1>5 DEF Transfer!sender, SenderInv, Through, Transfer!NoMore
<1> QED
  BY <1>1, <1>2, <1>3, <1>4, <1>5 DEF Transfer!Answer

LEMMA SenderRight ==
  ASSUME SenderInv,
         Transfer!SenderReads \/ Transfer!SenderSends \/ Transfer!SenderCancels
           \/ Transfer!SenderTimeout
  PROVE  Through
<1>1. CASE Transfer!SenderReads
  <2> DEFINE code == Head(xmToS).how
  <2> HIDE DEF code
  <2>1. \/ xmStx = "wait" /\ Transfer!Answer(code)
        \/ xmStx = "idle" /\ Transfer!Told("C") /\ xmSfin' = FALSE
        \/ UNCHANGED Transfer!sender
    BY <1>1 DEF code, Transfer!SenderReads
  <2>2. CASE xmStx = "wait" /\ Transfer!Answer(code)
    BY <2>2, AnswerRight
  <2>3. CASE xmStx = "idle" /\ Transfer!Told("C") /\ xmSfin' = FALSE
    <3>1. ~xmSfin
      BY <2>3 DEF SenderInv
    <3> QED
      BY <2>3, <3>1, ToldRight
  <2>4. CASE UNCHANGED Transfer!sender
    BY <2>4 DEF Transfer!sender, SenderInv, Through, Transfer!NoMore
  <2> QED
    BY <2>1, <2>2, <2>3, <2>4
<1>2. CASE Transfer!SenderSends
  <2>1. /\ xmStx \in {"sending", "EOT", "CAN"} /\ UNCHANGED <<xmNo, xmSend>>
        /\ xmStx' = IF xmStx = "CAN" THEN "idle" ELSE "wait"
        /\ xmSfin' = (xmSfin \/ xmStx = "EOT")
    BY <1>2 DEF Transfer!SenderSends
  <2>2. xmStx = "EOT" => xmNo > 0
    BY DEF SenderInv
  <2> QED
    BY <2>1, <2>2 DEF SenderInv, Through, Transfer!NoMore
<1>3. CASE Transfer!SenderCancels
  BY <1>3 DEF Transfer!SenderCancels, SenderInv, Through, Transfer!NoMore
<1>4. CASE Transfer!SenderTimeout
  <2>1. CASE xmSfin
    BY <1>4, <2>1, RetryRight DEF Transfer!SenderTimeout
  <2>2. CASE ~xmSfin
    <3>1. Transfer!Told("NAK") /\ xmSfin' = FALSE /\ xmStx = "wait"
      BY <1>4, <2>2 DEF Transfer!SenderTimeout, SenderInv
    <3> QED
      BY <2>2, <3>1, ToldRight
  <2> QED
    BY <2>1, <2>2
<1> QED
  BY <1>1, <1>2, <1>3, <1>4

\* What the sender puts on the line is in turn.
LEMMA SenderLine ==
  ASSUME SenderInv, LineInv,
         Transfer!SenderReads \/ Transfer!SenderSends \/ Transfer!SenderCancels
           \/ Transfer!SenderTimeout
  PROVE  /\ LineInv'
         /\ Transfer!NoMore /\ NoPacket(xmToR) => NoPacket(xmToR')
<1> DEFINE over == Transfer!NoMore
           after == Transfer!NoMore'
<1>1. over \in BOOLEAN /\ after \in BOOLEAN /\ (over => after)
  BY SenderRight, NoMoreIs DEF Through, SenderInv, Transfer!NoMore
<1>2. xmToR \in Seq(Message) /\ \A q : InTurn(q, over) => InTurn(q, after)
  BY <1>1 DEF LineInv, InTurn
<1>3. CASE xmToR' = xmToR
  BY <1>2, <1>3 DEF LineInv
<1> DEFINE Fits(m) == /\ Transfer!IsPacket(m) => m.no \in 1..XmodemPackets /\ ~over
                      /\ m.how = "EOT" => over
           Kept == LineInv' /\ (over /\ NoPacket(xmToR) => NoPacket(xmToR'))
<1>4. ASSUME NEW m \in Message, xmToR' = Append(xmToR, m), Fits(m)
      PROVE  Kept
  <2>1. InTurn(xmToR, over)
    BY DEF LineInv
  <2> HIDE DEF over, after
  <2>2. /\ Append(xmToR, m) \in Seq(Message) /\ InTurn(Append(xmToR, m), over)
        /\ NoPacket(xmToR) /\ ~Transfer!IsPacket(m) => NoPacket(Append(xmToR, m))
    BY <1>1, <1>2, <1>4, <2>1, InTurnAppend
  <2>3. InTurn(Append(xmToR, m), after)
    BY <1>2, <2>2
  <2> QED
    BY <1>4, <2>2, <2>3 DEF LineInv, after
<1>5. CASE Transfer!SenderSends
  <2> DEFINE m == IF xmStx = "sending" THEN Transfer!Packet(xmNo, "whole") ELSE Transfer!Byte(xmStx)
  <2>1. xmToR' = Append(xmToR, m) /\ xmStx \in {"sending", "EOT", "CAN"}
    BY <1>5 DEF Transfer!SenderSends
  <2>2. m \in Message /\ (m.how = "EOT" => xmStx = "EOT")
        /\ (Transfer!IsPacket(m) => xmStx = "sending" /\ m.no = xmNo)
    BY <2>1 DEF Message, Transfer!Packet, Transfer!Byte, Transfer!IsPacket, Transfer!Hows, SenderInv
  <2>3. xmStx = "sending" => ~over /\ xmNo \in 1..XmodemPackets
    BY PacketNumbers DEF SenderInv, Transfer!NoMore
  <2>4. xmStx = "EOT" => over
    BY DEF Transfer!NoMore
  <2>5. Fits(m)
    BY <2>2, <2>3, <2>4
  <2> HIDE DEF m, Fits, Kept
  <2>6. Kept
    BY <1>4, <2>1, <2>2, <2>5
  <2> QED
    BY <2>6 DEF Kept
<1>6. CASE Transfer!SenderCancels
  <2> DEFINE m == Transfer!Packet(xmNo, "cut")
  <2>1. xmToR' = xmToR \/ (xmStx = "sending" /\ xmToR' = Append(xmToR, m))
    BY <1>6 DEF Transfer!SenderCancels
  <2>2. m \in Message /\ m.how = "cut" /\ m.no = xmNo
    BY DEF Message, Transfer!Packet, Transfer!Hows, SenderInv
  <2>3. xmStx = "sending" => ~over /\ xmNo \in 1..XmodemPackets
    BY PacketNumbers DEF SenderInv, Transfer!NoMore
  <2>4. xmStx = "sending" => Fits(m)
    BY <2>2, <2>3 DEF Transfer!IsPacket, Transfer!Hows
  <2>5. xmToR' = xmToR => Kept
    BY <1>3
  <2> HIDE DEF m, Fits, Kept
  <2>6. Kept
    BY <1>4, <2>1, <2>2, <2>4, <2>5
  <2> QED
    BY <2>6 DEF Kept
<1>7. CASE Transfer!SenderReads \/ Transfer!SenderTimeout
  BY <1>3, <1>7 DEF Transfer!SenderReads, Transfer!SenderTimeout
<1> QED
  BY <1>5, <1>6, <1>7

\* No step but a receiver's touches what the receiver has.
LEMMA ReceiverKept ==
  ASSUME ReceiverInv, UNCHANGED <<xmLast, xmGot, xmRecv>>, Transfer!NoMore => Transfer!NoMore',
         Transfer!NoMore /\ NoPacket(xmToR) => NoPacket(xmToR')
  PROVE  ReceiverInv'
<1>1. Passed(xmGot') /\ xmLast' \in Nat
  BY DEF ReceiverInv
<1>2. \/ xmRecv' = "cancel" \/ xmLast' = Len(xmGot')
      \/ xmLast' = 0 /\ Transfer!NoMore' /\ NoPacket(xmToR')
  BY DEF ReceiverInv
<1> QED
  BY <1>1, <1>2 DEF ReceiverInv, Passed, NoPacket

\* A step that leaves the sender alone leaves its word alone.
LEMMA SenderKept ==
  ASSUME SenderInv, UNCHANGED Transfer!sender
  PROVE  Through
BY DEF SenderInv, Through, Transfer!NoMore, Transfer!sender

\* The packet behind those the application has.
LEMMA PassedOn ==
  ASSUME NEW q, Passed(q), NEW n \in 1..XmodemPackets, n = Len(q) + 1
  PROVE  Passed(Append(q, n)) /\ Len(Append(q, n)) = n
<1> DEFINE S == 1..XmodemPackets
           r == Append(q, n)
<1>1. q \in Seq(S) /\ n \in S /\ Len(q) \in Nat /\ (\A k \in 1..Len(q) : q[k] = k)
  BY DEF Passed
<1>2. n <= XmodemPackets /\ n \in Nat
  BY XmodemAssumption
<1> HIDE DEF S
<1>3. /\ r \in Seq(S) /\ Len(r) = Len(q) + 1 /\ r[Len(q) + 1] = n
      /\ \A k \in 1..Len(q) : r[k] = q[k]
  BY <1>1
<1> HIDE DEF r
<1>4. \A k \in 1..Len(r) : k \in 1..Len(q) \/ k = Len(q) + 1
  BY <1>1, <1>3
<1>5. \A k \in 1..Len(r) : r[k] = k
  BY <1>1, <1>3, <1>4
<1> QED
  BY <1>2, <1>3, <1>5 DEF Passed, r, S

\* A whole packet is taken.
LEMMA TakeRight ==
  ASSUME ReceiverInv, NEW n \in 1..XmodemPackets, Transfer!Take(n),
         ~(Transfer!NoMore /\ NoPacket(xmToR)),
         Transfer!NoMore /\ NoPacket(xmToR) => NoPacket(xmToR'), UNCHANGED Transfer!NoMore
  PROVE  ReceiverInv'
<1>1. xmRecv = "cancel" \/ xmLast = Len(xmGot)
  BY DEF ReceiverInv
<1>2. CASE UNCHANGED <<xmLast, xmGot, xmRecv>>
  BY <1>2, ReceiverKept
<1>3. CASE /\ n = xmLast + 1 /\ xmLast' = n /\ UNCHANGED xmRecv
           /\ xmGot' = IF xmRecv = "cancel" THEN xmGot ELSE Append(xmGot, n)
  <2>1. n \in Nat
    OBVIOUS
  <2>2. CASE xmRecv = "cancel"
    BY <1>3, <2>1, <2>2 DEF ReceiverInv, Passed
  <2>3. CASE xmRecv # "cancel"
    <3>1. n = Len(xmGot) + 1 /\ Passed(xmGot)
      BY <1>1, <1>3, <2>3 DEF ReceiverInv
    <3>2. Passed(Append(xmGot, n)) /\ Len(Append(xmGot, n)) = n
      BY <3>1, PassedOn
    <3>3. xmGot' = Append(xmGot, n) /\ xmLast' = n
      BY <1>3, <2>3
    <3> QED
      BY <2>1, <3>2, <3>3 DEF ReceiverInv, Passed
  <2> QED
    BY <2>2, <2>3
<1>4. CASE xmLast' = 0 /\ xmRecv' = "cancel" /\ UNCHANGED xmGot
  BY <1>4 DEF ReceiverInv, Passed
<1> QED
  BY <1>2, <1>3, <1>4 DEF Transfer!Take, Transfer!PassOn

\* What the receiver takes from the line leaves it right.
LEMMA ReceiverReadsRight ==
  ASSUME SenderInv, LineInv, ReceiverInv, Transfer!ReceiverReads
  PROVE  LineInv' /\ ReceiverInv'
<1> DEFINE over == Transfer!NoMore
           m == Head(xmToR)
           t == Tail(xmToR)
<1>1. over \in BOOLEAN /\ xmToR \in Seq(Message) /\ InTurn(xmToR, over)
  BY NoMoreIs DEF LineInv
<1>2. xmToR # <<>> /\ xmToR' = Tail(xmToR) /\ UNCHANGED Transfer!sender
  BY DEF Transfer!ReceiverReads
<1>3. over' = over
  BY <1>2 DEF Transfer!sender, Transfer!NoMore
<1> HIDE DEF over, m, t
<1>4. /\ t \in Seq(Message) /\ InTurn(t, over) /\ (NoPacket(xmToR) => NoPacket(t))
      /\ m = xmToR[1] /\ 1 \in 1..Len(xmToR) /\ m \in Message
      /\ m.how = "EOT" => over /\ NoPacket(t)
      /\ Transfer!IsPacket(m) => m.no \in 1..XmodemPackets
  BY <1>1, <1>2, InTurnTail DEF m, t
<1>5. xmToR' = t
  BY <1>2 DEF t
<1>6. LineInv'
  BY <1>3, <1>4, <1>5 DEF LineInv, over
<1>7. CASE UNCHANGED <<xmLast, xmGot, xmRecv>>
  BY <1>3, <1>4, <1>5, <1>6, <1>7, ReceiverKept DEF over
<1>8. CASE m.how = "whole" /\ Transfer!Take(m.no)
  <2> DEFINE n == m.no
  <2>1. Transfer!IsPacket(m)
    BY <1>8 DEF Transfer!IsPacket, Transfer!Hows
  <2>2. n \in 1..XmodemPackets /\ Transfer!Take(n)
    BY <1>4, <1>8, <2>1
  <2>3. ~NoPacket(xmToR)
    BY <1>4, <2>1 DEF NoPacket
  <2> HIDE DEF n
  <2> QED
    BY <1>3, <1>4, <1>5, <1>6, <2>2, <2>3, TakeRight DEF over
<1>9. CASE m.how = "EOT" /\ xmLast' = 0 /\ UNCHANGED <<xmRecv, xmGot>>
  <2>1. Transfer!NoMore' /\ NoPacket(xmToR')
    BY <1>3, <1>4, <1>5, <1>9 DEF over
  <2> QED
    BY <1>6, <1>9, <2>1 DEF ReceiverInv, Passed
<1>10. CASE xmLast' = 0 /\ xmRecv' = "cancel" /\ UNCHANGED xmGot
  BY <1>6, <1>10 DEF ReceiverInv, Passed
<1>11. \/ UNCHANGED <<xmLast, xmGot, xmRecv>>
       \/ m.how = "whole" /\ Transfer!Take(m.no)
       \/ m.how = "EOT" /\ xmLast' = 0 /\ UNCHANGED <<xmRecv, xmGot>>
       \/ xmLast' = 0 /\ xmRecv' = "cancel" /\ UNCHANGED xmGot
  BY DEF Transfer!ReceiverReads, Transfer!Begin, Transfer!receiver, m
<1> QED
  BY <1>6, <1>7, <1>8, <1>9, <1>10, <1>11

\* The other steps of the receiver.
LEMMA ReceiverRight ==
  ASSUME SenderInv, LineInv, ReceiverInv,
         Transfer!RxTimeout \/ Transfer!StartTimeout \/ Transfer!ReceiverSends
           \/ Transfer!ReceiverCancels
  PROVE  Through /\ LineInv' /\ ReceiverInv'
<1>1. UNCHANGED Transfer!sender /\ UNCHANGED xmToR
  BY DEF Transfer!RxTimeout, Transfer!StartTimeout, Transfer!ReceiverSends,
         Transfer!ReceiverCancels
<1>2. Through /\ UNCHANGED Transfer!NoMore
  BY <1>1, SenderKept DEF Transfer!NoMore, Transfer!sender
<1>3. LineInv'
  BY <1>1, <1>2 DEF LineInv
<1>4. CASE UNCHANGED <<xmLast, xmGot, xmRecv>>
  BY <1>1, <1>2, <1>3, <1>4, ReceiverKept
<1>5. CASE Transfer!ReceiverSends /\ xmRecv' # xmRecv
  <2>1. xmRecv # "cancel" /\ UNCHANGED <<xmLast, xmGot>>
    BY <1>5 DEF Transfer!ReceiverSends
  <2>2. Passed(xmGot') /\ xmLast' \in Nat
    BY <2>1 DEF ReceiverInv
  <2>3. \/ xmLast' = Len(xmGot')
        \/ xmLast' = 0 /\ Transfer!NoMore' /\ NoPacket(xmToR')
    BY <1>1, <1>2, <2>1 DEF ReceiverInv
  <2> QED
    BY <1>2, <1>3, <2>2, <2>3 DEF ReceiverInv, Passed
<1>6. CASE Transfer!ReceiverCancels
  <2>1. xmLast' = 0 /\ xmRecv' = "cancel" /\ UNCHANGED xmGot
    BY <1>6 DEF Transfer!ReceiverCancels
  <2> QED
    BY <1>2, <1>3, <2>1 DEF ReceiverInv, Passed
<1> QED
  BY <1>2, <1>3, <1>4, <1>5, <1>6
     DEF Transfer!RxTimeout, Transfer!StartTimeout, Transfer!ReceiverSends

\* What the line does.
LEMMA LineRight ==
  ASSUME SenderInv, LineInv, ReceiverInv, Transfer!Lose \/ Transfer!Spoil
  PROVE  Through /\ LineInv' /\ ReceiverInv'
<1> DEFINE over == Transfer!NoMore
<1>1. over \in BOOLEAN /\ xmToR \in Seq(Message) /\ InTurn(xmToR, over)
  BY NoMoreIs DEF LineInv
<1>2. UNCHANGED Transfer!sender /\ UNCHANGED Transfer!receiver
  BY DEF Transfer!Lose, Transfer!Spoil
<1>3. Through /\ over' = over /\ UNCHANGED <<xmLast, xmGot, xmRecv>>
  BY <1>2, SenderKept DEF Transfer!sender, Transfer!NoMore, Transfer!receiver
<1> HIDE DEF over
<1>4. ASSUME NEW q, xmToR' = q, q \in Seq(Message), InTurn(q, over),
             over /\ NoPacket(xmToR) => NoPacket(q)
      PROVE  LineInv' /\ ReceiverInv'
  <2>1. LineInv'
    BY <1>3, <1>4 DEF LineInv, over
  <2> QED
    BY <1>3, <1>4, <2>1, ReceiverKept DEF over
<1>5. CASE xmToR' = xmToR
  BY <1>1, <1>3, <1>4, <1>5
<1>6. CASE xmToR # <<>> /\ xmToR' = Tail(xmToR)
  <2> DEFINE t == Tail(xmToR)
  <2>1. t \in Seq(Message) /\ InTurn(t, over) /\ (NoPacket(xmToR) => NoPacket(t))
    BY <1>1, <1>6, InTurnTail
  <2>2. xmToR' = t
    BY <1>6
  <2> HIDE DEF t
  <2> QED
    BY <1>3, <1>4, <2>1, <2>2
<1>7. CASE Transfer!Spoil
  <2> PICK how \in {"wrong", "cut"} :
             /\ xmToR # <<>> /\ Head(xmToR).how = "whole"
             /\ xmToR' = <<Transfer!Packet(Head(xmToR).no, how)>> \o Tail(xmToR)
    BY <1>7 DEF Transfer!Spoil
  <2> DEFINE p == Transfer!Packet(Head(xmToR).no, how)
             q == <<p>> \o Tail(xmToR)
  <2>1. xmToR' = q
    OBVIOUS
  <2>2. xmToR # <<>> /\ Head(xmToR) = xmToR[1] /\ xmToR[1] \in Message /\ xmToR[1].how = "whole"
    BY <1>1, InTurnTail
  <2>3. p \in Message /\ p.no = xmToR[1].no /\ p.how = how
    BY <2>2 DEF Transfer!Packet, Message, Transfer!Hows
  <2>4. Transfer!IsPacket(p) /\ Transfer!IsPacket(xmToR[1])
    BY <2>2, <2>3 DEF Transfer!IsPacket, Transfer!Hows
  <2> HIDE DEF p
  <2>5. q \in Seq(Message) /\ InTurn(q, over) /\ ~NoPacket(xmToR)
    BY <1>1, <2>2, <2>3, <2>4, InTurnSpoilt
  <2> HIDE DEF q
  <2> QED
    BY <1>3, <1>4, <2>1, <2>5
<1> QED
  BY <1>3, <1>5, <1>6, <1>7 DEF Transfer!Lose

LEMMA TransferStep ==
  ASSUME Transfer!Inv, Transfer!Next \/ UNCHANGED Transfer!vars PROVE Transfer!Inv'
<1>1. SenderInv /\ LineInv /\ ReceiverInv
  BY TransferParts
<1>2. CASE Transfer!SenderReads \/ Transfer!SenderSends \/ Transfer!SenderCancels
             \/ Transfer!SenderTimeout
  <2>1. Through /\ LineInv' /\ (Transfer!NoMore /\ NoPacket(xmToR) => NoPacket(xmToR'))
    BY <1>1, <1>2, SenderRight, SenderLine
  <2>2. UNCHANGED <<xmLast, xmGot, xmRecv>>
    BY <1>2 DEF Transfer!SenderReads, Transfer!SenderSends, Transfer!SenderCancels,
                Transfer!SenderTimeout, Transfer!receiver
  <2>3. ReceiverInv'
    BY <1>1, <2>1, <2>2, ReceiverKept DEF Through
  <2> QED
    BY <2>1, <2>3, PartsTransfer DEF Through
<1>3. CASE Transfer!ReceiverReads
  <2>1. LineInv' /\ ReceiverInv'
    BY <1>1, <1>3, ReceiverReadsRight
  <2>2. Through
    BY <1>1, <1>3, SenderKept DEF Transfer!ReceiverReads
  <2> QED
    BY <2>1, <2>2, PartsTransfer DEF Through
<1>4. CASE Transfer!RxTimeout \/ Transfer!StartTimeout \/ Transfer!ReceiverSends
             \/ Transfer!ReceiverCancels
  BY <1>1, <1>4, ReceiverRight, PartsTransfer DEF Through
<1>5. CASE Transfer!Lose \/ Transfer!Spoil
  BY <1>1, <1>5, LineRight, PartsTransfer DEF Through
<1>6. CASE UNCHANGED Transfer!vars
  BY <1>6 DEF Transfer!Inv, Transfer!vars, Transfer!sender, Transfer!receiver, Transfer!NoMore,
              Transfer!LineInOrder
<1> QED
  BY <1>2, <1>3, <1>4, <1>5, <1>6
     DEF Transfer!Next, Transfer!SenderWorks, Transfer!ReceiverWorks

LEMMA TransferRight == Transfer!Inv => Transfer!InOrder
<1> SUFFICES ASSUME Transfer!Inv PROVE Transfer!InOrder
  OBVIOUS
<1> DEFINE s == SubSeq(Transfer!All, 1, Len(xmGot))
<1>1. /\ xmGot \in Seq(1..XmodemPackets) /\ Len(xmGot) <= XmodemPackets
      /\ \A k \in 1..Len(xmGot) : xmGot[k] = k
  BY DEF Transfer!Inv
<1>2. Transfer!All \in Seq(1..XmodemPackets) /\ Len(Transfer!All) = XmodemPackets
  BY XmodemAssumption DEF Transfer!All
<1>3. Len(xmGot) \in 0..XmodemPackets
  BY <1>1, XmodemAssumption
<1>4. Len(s) = Len(xmGot) /\ \A k \in 1..Len(xmGot) : s[k] = k
  BY <1>2, <1>3, XmodemAssumption DEF Transfer!All
<1>5. s \in Seq(1..XmodemPackets)
  BY <1>2, <1>3, XmodemAssumption
<1> HIDE DEF s
<1>6. s = xmGot
  BY <1>1, <1>4, <1>5
<1> QED
  BY <1>1, <1>6 DEF Transfer!InOrder, s

-----------------------------------------------------------------------------
(* The end of an XMODEM transfer whose answers come before their timeouts.    *)

\* The receiver's application has every packet, as many as were sent, the last that was sent.
AllPassed == Len(xmGot) = XmodemPackets
InStep == xmLast = Len(xmGot) /\ (xmNo = xmLast \/ xmNo = xmLast + 1)
Caught == xmLast = xmNo

\* The transfer is at its end for one of both, or for the line.
EotUnderWay == \E k \in 1..Len(xmToR) : xmToR[k].how = "EOT"
AtEnd ==
  xmRecv = "finish" \/ xmRfin \/ xmSfin \/ xmStx = "EOT" \/ xmSend = "finish" \/ EotUnderWay

\* Who has the turn: the sender, a message, a packet that is purged, the receiver, an answer or,
\* until a timeout, nobody.
LinesEmpty == xmToR = <<>> /\ xmToS = <<>> /\ xmRrx = "idle"
Resting == xmRtx \in {"idle", "wait start"}
Awaits == xmStx \in {"wait", "idle"}
SenderHas == xmStx \in {"sending", "EOT"} /\ LinesEmpty /\ Resting
InTime(m) == IF xmSfin THEN m.how = "EOT" ELSE Transfer!IsPacket(m) /\ m.no = xmNo
MessageHas ==
  /\ xmStx = "wait" /\ xmToS = <<>> /\ xmRrx = "idle" /\ Resting
  /\ \E m \in Message : xmToR = <<m>> /\ InTime(m)
PurgeHas ==
  /\ xmStx = "wait" /\ xmSfin = FALSE /\ xmToR = <<>> /\ xmToS = <<>>
  /\ xmRrx \in {"get", "purge"} /\ xmRtx = "idle"
AskHas == Awaits /\ LinesEmpty /\ xmRtx \in {"send C", "NAK"}
AckHas ==
  xmStx = "wait" /\ LinesEmpty /\ xmRtx = "ACK" /\ (IF xmSfin THEN xmRfin ELSE Caught)
Says(c) == c = "ACK" => xmStx = "wait" /\ (IF xmSfin THEN xmRecv = "finish" ELSE Caught)
AnswerHas ==
  /\ Awaits /\ xmToR = <<>> /\ xmRrx = "idle" /\ Resting
  /\ \E c \in {XmodemStart, "ACK", "NAK"} : xmToS = <<Transfer!Byte(c)>> /\ Says(c)
NobodyHas == Awaits /\ LinesEmpty /\ Resting
OneTurn ==
  SenderHas \/ MessageHas \/ PurgeHas \/ AskHas \/ AckHas \/ AnswerHas \/ NobodyHas

\* The receiver is one packet behind the sender at most, and has none before the start.
UpToDate ==
  /\ xmStx \in {"sending", "wait"} /\ xmSfin = FALSE => InStep
  /\ xmStx = "idle" /\ xmSend = "going" => xmLast = 0 /\ xmGot = <<>>

\* What every step keeps: until one of both cancels.
NoneCancelled == xmSend # "cancel" /\ xmRecv # "cancel"
EndInv ==
  /\ xmRecv # "cancel" /\ AtEnd => AllPassed
  /\ xmSend = "finish" => xmRecv \in {"finish", "cancel"}
  /\ NoneCancelled => OneTurn /\ UpToDate

LEMMA OfOne ==
  ASSUME NEW m PROVE Len(<<m>>) = 1 /\ Head(<<m>>) = m /\ Tail(<<m>>) = <<>> /\ <<m>> # <<>>
                      /\ <<m>>[1] = m /\ 1 \in 1..1 /\ Append(<<>>, m) = <<m>>
OBVIOUS

LEMMA OfNone == Len(<<>>) = 0 /\ 1..0 = {}
OBVIOUS

LEMMA NoEot == xmToR = <<>> => ~EotUnderWay
BY OfNone DEF EotUnderWay

LEMMA NoEotAfter == xmToR' = <<>> => ~EotUnderWay'
BY OfNone DEF EotUnderWay

\* When the receiver has cancelled, nothing is claimed any more.
LEMMA ReceiverGone == xmRecv' = "cancel" => EndInv'
BY DEF EndInv, NoneCancelled

\* What the sender may decide on an answer or on its timeout.
Decision ==
  \/ xmStx' = "sending" /\ xmSfin' = FALSE /\ xmSend' = "going" /\ InStep'
  \/ xmStx' = "EOT" /\ AllPassed /\ xmSend' = "going"
  \/ xmStx' = "idle" /\ xmSfin' = FALSE /\ xmSend' = "finish" /\ xmRecv = "finish"
  \/ xmStx' = "idle" /\ xmSfin' = FALSE /\ xmSend' = "cancel"
  \/ UNCHANGED Transfer!sender

LEMMA DecidedEnds ==
  ASSUME EndInv, NoneCancelled, Awaits, LinesEmpty', Resting', UNCHANGED Transfer!receiver,
         Decision
  PROVE  EndInv'
<1>1. xmToR' = <<>> /\ xmToS' = <<>> /\ xmRrx' = "idle" /\ ~EotUnderWay'
  BY NoEotAfter DEF LinesEmpty
<1>2. UNCHANGED <<xmLast, xmGot, xmRecv, xmRfin>> /\ xmRecv # "cancel" /\ xmSend # "cancel"
  BY DEF Transfer!receiver, NoneCancelled
<1>3. AllPassed' = AllPassed
  BY <1>2 DEF AllPassed
<1>4. (xmRecv = "finish" \/ xmRfin \/ xmSfin \/ xmStx = "EOT" \/ xmSend = "finish") => AllPassed
  BY <1>2 DEF EndInv, AtEnd
<1>5. xmSend = "finish" => xmRecv = "finish"
  BY <1>2 DEF EndInv
<1>6. UpToDate
  BY DEF EndInv
<1>7. CASE xmStx' = "sending" /\ xmSfin' = FALSE /\ xmSend' = "going" /\ InStep'
  <2>1. AtEnd' => AllPassed'
    BY <1>1, <1>2, <1>3, <1>4, <1>7 DEF AtEnd
  <2>2. OneTurn' /\ UpToDate'
    BY <1>7 DEF OneTurn, SenderHas, UpToDate
  <2> QED
    BY <1>7, <2>1, <2>2 DEF EndInv
<1>8. CASE xmStx' = "EOT" /\ AllPassed /\ xmSend' = "going"
  <2>1. OneTurn' /\ UpToDate'
    BY <1>8 DEF OneTurn, SenderHas, UpToDate
  <2> QED
    BY <1>3, <1>8, <2>1 DEF EndInv
<1>9. CASE xmStx' = "idle" /\ xmSfin' = FALSE /\ xmSend' = "finish" /\ xmRecv = "finish"
  <2>1. OneTurn' /\ UpToDate'
    BY <1>9 DEF OneTurn, NobodyHas, Awaits, UpToDate
  <2> QED
    BY <1>2, <1>3, <1>4, <1>9, <2>1 DEF EndInv
<1>10. CASE xmStx' = "idle" /\ xmSfin' = FALSE /\ xmSend' = "cancel"
  <2>1. AtEnd' => AllPassed'
    BY <1>1, <1>2, <1>3, <1>4, <1>10 DEF AtEnd
  <2> QED
    BY <1>10, <2>1 DEF EndInv, NoneCancelled
<1>11. CASE UNCHANGED Transfer!sender
  <2>1. UNCHANGED <<xmStx, xmNo, xmSfin, xmSend>>
    BY <1>11 DEF Transfer!sender
  <2>2. InStep' = InStep
    BY <1>2, <2>1 DEF InStep
  <2>3. AtEnd' => AllPassed'
    BY <1>1, <1>2, <1>3, <1>4, <2>1 DEF AtEnd
  <2>4. UpToDate'
    BY <1>2, <1>6, <2>1, <2>2 DEF UpToDate
  <2>5. OneTurn'
    BY <2>1 DEF OneTurn, NobodyHas, Awaits
  <2> QED
    BY <1>2, <1>5, <2>1, <2>3, <2>4, <2>5 DEF EndInv
<1> QED
  BY <1>7, <1>8, <1>9, <1>10, <1>11 DEF Decision

\* The numbers of a packet that is sent again, of the next one and of the first.
LEMMA StepsAlong ==
  ASSUME SenderInv, UNCHANGED <<xmLast, xmGot>>, xmLast = Len(xmGot), xmLast \in Nat
  PROVE  /\ InStep /\ xmNo' = xmNo => InStep'
         /\ Caught /\ xmNo' = xmNo + 1 => InStep'
         /\ xmLast = 0 /\ xmNo' = 1 => InStep'
         /\ Caught /\ xmNo >= XmodemPackets => AllPassed
<1>1. xmNo \in 0..XmodemPackets
  BY DEF SenderInv
<1>2. InStep /\ xmNo' = xmNo => InStep'
  BY DEF InStep
<1>3. Caught /\ xmNo' = xmNo + 1 => InStep'
  BY <1>1 DEF InStep, Caught
<1>4. xmLast = 0 /\ xmNo' = 1 => InStep'
  BY DEF InStep
<1>5. Caught /\ xmNo >= XmodemPackets => AllPassed
  BY <1>1, XmodemAssumption DEF Caught, AllPassed
<1> QED
  BY <1>2, <1>3, <1>4, <1>5

\* What the application of the sender says to an answer that means what it says, or to a timeout.
LEMMA RetryDecides ==
  ASSUME EndInv, NoneCancelled, SenderInv, xmStx = "wait", xmSfin, Transfer!RetryEot
  PROVE  Decision
<1>1. AllPassed /\ xmSend = "going"
  BY DEF EndInv, NoneCancelled, AtEnd, SenderInv
<1>2. CASE xmStx' = "EOT" /\ UNCHANGED xmSend
  BY <1>1, <1>2 DEF Decision
<1>3. CASE Transfer!Told("CAN") /\ xmSfin' = FALSE
  BY <1>3 DEF Transfer!Told, Decision
<1> QED
  BY <1>2, <1>3 DEF Transfer!RetryEot

LEMMA AgainDecides ==
  ASSUME EndInv, NoneCancelled, SenderInv, xmStx = "wait", ~xmSfin, Transfer!Told("NAK"),
         UNCHANGED xmSfin, UNCHANGED <<xmLast, xmGot>>, xmLast \in Nat
  PROVE  Decision
<1>1. xmSfin = FALSE /\ xmSend = "going"
  BY DEF SenderInv
<1>2. xmStx' = "sending" /\ xmNo' = xmNo /\ xmSend' = xmSend
  BY DEF Transfer!Told, Transfer!SendData
<1>3. InStep
  BY <1>1 DEF EndInv, UpToDate
<1>4. xmLast = Len(xmGot)
  BY <1>3 DEF InStep
<1>5. InStep'
  BY <1>2, <1>3, <1>4, StepsAlong
<1> QED
  BY <1>1, <1>2, <1>5 DEF Decision

LEMMA AckDecides ==
  ASSUME EndInv, NoneCancelled, SenderInv, xmStx = "wait", ~xmSfin, Caught, Transfer!Told("ACK"),
         UNCHANGED xmSfin, UNCHANGED <<xmLast, xmGot>>, xmLast \in Nat
  PROVE  Decision
<1>1. xmSfin = FALSE /\ xmSend = "going"
  BY DEF SenderInv
<1>2. InStep
  BY <1>1 DEF EndInv, UpToDate
<1>3. xmLast = Len(xmGot)
  BY <1>2 DEF InStep
<1>4. CASE xmNo < XmodemPackets /\ Transfer!SendData(xmNo + 1)
  <2>1. xmStx' = "sending" /\ xmNo' = xmNo + 1 /\ xmSend' = xmSend
    BY <1>4 DEF Transfer!SendData
  <2>2. InStep'
    BY <1>3, <2>1, StepsAlong
  <2> QED
    BY <1>1, <2>1, <2>2 DEF Decision
<1>5. CASE xmNo >= XmodemPackets /\ Transfer!SendEot
  <2>1. AllPassed
    BY <1>3, <1>5, StepsAlong
  <2> QED
    BY <1>1, <1>5, <2>1 DEF Transfer!SendEot, Decision
<1> QED
  BY <1>4, <1>5 DEF Transfer!Told

LEMMA StartDecides ==
  ASSUME EndInv, NoneCancelled, SenderInv, xmStx = "idle", Transfer!Told("C"), xmSfin' = FALSE,
         UNCHANGED <<xmLast, xmGot>>, xmLast \in Nat
  PROVE  Decision
<1>1. xmSfin = FALSE
  BY DEF SenderInv
<1>2. CASE xmSend = "going" /\ Transfer!SendData(1)
  <2>1. xmStx' = "sending" /\ xmNo' = 1 /\ xmSend' = "going"
    BY <1>2 DEF Transfer!SendData
  <2>2. xmLast = 0 /\ xmGot = <<>>
    BY <1>2 DEF EndInv, UpToDate
  <2>3. xmLast = Len(xmGot)
    BY <2>2, OfNone
  <2>4. InStep'
    BY <2>1, <2>2, <2>3, StepsAlong
  <2> QED
    BY <2>1, <2>4 DEF Decision
<1>3. CASE UNCHANGED <<xmStx, xmNo, xmRetry, xmSend>>
  BY <1>1, <1>3 DEF Decision, Transfer!sender
<1> QED
  BY <1>2, <1>3 DEF Transfer!Told

LEMMA AnswerDecides ==
  ASSUME EndInv, NoneCancelled, SenderInv, xmStx = "wait", NEW c, c \in {"C", "NAK", "ACK"},
         Says(c), Transfer!Answer(c), UNCHANGED <<xmLast, xmGot>>, xmLast \in Nat
  PROVE  Decision
<1>1. CASE c = "ACK" /\ xmSfin /\ xmStx' = "idle" /\ xmSfin' = FALSE /\ xmSend' = "finish"
  BY <1>1 DEF Says, Decision
<1>2. CASE c = "ACK" /\ ~xmSfin /\ Transfer!Told("ACK") /\ UNCHANGED xmSfin
  BY <1>2, AckDecides DEF Says
<1>3. CASE xmSfin /\ Transfer!RetryEot
  BY <1>3, RetryDecides
<1>4. CASE ~xmSfin /\ Transfer!Told("NAK") /\ UNCHANGED xmSfin
  BY <1>4, AgainDecides
<1>5. CASE UNCHANGED Transfer!sender
  BY <1>5 DEF Decision
<1> QED
  BY <1>1, <1>2, <1>3, <1>4, <1>5 DEF Transfer!Answer

\* A step that leaves the receiver alone, takes nothing to the line that ends the transfer, and
\* after which the sender has cancelled.
LEMMA SenderGone ==
  ASSUME EndInv, UNCHANGED <<xmGot, xmRecv, xmRfin>>, xmSend' = "cancel", xmSfin' => xmSfin,
         xmStx' # "EOT", EotUnderWay' => EotUnderWay
  PROVE  EndInv'
<1>1. AllPassed' = AllPassed
  BY DEF AllPassed
<1>2. AtEnd' => AtEnd
  BY DEF AtEnd
<1> QED
  BY <1>1, <1>2 DEF EndInv, NoneCancelled

LEMMA SenderReadsEnds ==
  ASSUME EndInv, SenderInv, xmLast \in Nat, XmodemStart \in {"C", "NAK"}, Transfer!SenderReads
  PROVE  EndInv'
<1>1. xmToS # <<>> /\ xmToS' = Tail(xmToS) /\ UNCHANGED <<Transfer!receiver, xmToR>>
  BY DEF Transfer!SenderReads
<1>2. UNCHANGED <<xmLast, xmGot, xmRecv, xmRfin, xmRrx, xmRtx>>
  BY <1>1 DEF Transfer!receiver
<1> DEFINE code == Head(xmToS).how
<1> HIDE DEF code
<1>3. \/ xmStx = "wait" /\ Transfer!Answer(code)
      \/ xmStx = "idle" /\ Transfer!Told("C") /\ xmSfin' = FALSE
      \/ UNCHANGED Transfer!sender
  BY DEF code, Transfer!SenderReads
<1>4. CASE xmRecv = "cancel"
  BY <1>2, <1>4, ReceiverGone
<1>5. CASE xmSend = "cancel"
  <2>1. xmStx # "wait" /\ xmStx # "EOT"
    BY <1>5 DEF SenderInv
  <2>2. xmSend' = "cancel" /\ xmStx' = xmStx /\ (xmSfin' => xmSfin)
    <3>1. CASE Transfer!Told("C") /\ xmSfin' = FALSE
      BY <1>5, <3>1 DEF Transfer!Told
    <3>2. CASE UNCHANGED Transfer!sender
      BY <1>5, <3>2 DEF Transfer!sender
    <3> QED
      BY <1>3, <2>1, <3>1, <3>2
  <2>3. EotUnderWay' = EotUnderWay
    BY <1>1 DEF EotUnderWay
  <2> QED
    BY <1>2, <2>1, <2>2, <2>3, SenderGone
<1>6. CASE NoneCancelled
  <2>1. AnswerHas
    BY <1>1, <1>6 DEF EndInv, OneTurn, SenderHas, LinesEmpty, MessageHas, PurgeHas, AskHas, AckHas,
                      NobodyHas
  <2>2. PICK c \in {XmodemStart, "ACK", "NAK"} : xmToS = <<Transfer!Byte(c)>> /\ Says(c)
    BY <2>1 DEF AnswerHas
  <2>3. code = c /\ xmToS' = <<>>
    BY <1>1, <2>2, OfOne DEF code, Transfer!Byte
  <2>4. Decision
    <3>1. c \in {"C", "NAK", "ACK"}
      OBVIOUS
    <3> QED
      BY <1>2, <1>3, <1>6, <2>2, <2>3, <3>1, AnswerDecides, StartDecides DEF Decision
  <2>5. LinesEmpty' /\ Resting' /\ Awaits
    BY <1>1, <1>2, <2>1, <2>3 DEF AnswerHas, LinesEmpty, Resting
  <2> QED
    BY <1>1, <1>6, <2>4, <2>5, DecidedEnds
<1> QED
  BY <1>4, <1>5, <1>6 DEF NoneCancelled

LEMMA SenderTimeoutEnds ==
  ASSUME EndInv, SenderInv, xmLast \in Nat, XmodemLate = FALSE, Transfer!SenderTimeout
  PROVE  EndInv'
<1>1. xmStx = "wait" /\ UNCHANGED <<Transfer!receiver, xmToR, xmToS>>
      /\ LinesEmpty /\ Resting
  BY DEF Transfer!SenderTimeout, LinesEmpty, Resting
<1>2. UNCHANGED <<xmLast, xmGot, xmRecv, xmRfin, xmRrx, xmRtx>>
  BY <1>1 DEF Transfer!receiver
<1>3. CASE xmRecv = "cancel"
  BY <1>2, <1>3, ReceiverGone
<1>4. CASE xmRecv # "cancel"
  <2>1. NoneCancelled
    BY <1>1, <1>4 DEF NoneCancelled, SenderInv
  <2>2. LinesEmpty' /\ Resting' /\ Awaits
    BY <1>1, <1>2 DEF LinesEmpty, Resting, Awaits
  <2>3. Decision
    BY <1>1, <1>2, <2>1, RetryDecides, AgainDecides DEF Transfer!SenderTimeout
  <2> QED
    BY <1>1, <2>1, <2>2, <2>3, DecidedEnds
<1> QED
  BY <1>3, <1>4

LEMMA SenderSendsEnds ==
  ASSUME EndInv, SenderInv, LineInv, Transfer!SenderSends
  PROVE  EndInv'
<1> DEFINE m == IF xmStx = "sending" THEN Transfer!Packet(xmNo, "whole") ELSE Transfer!Byte(xmStx)
<1>1. /\ xmStx \in {"sending", "EOT", "CAN"} /\ xmToR' = Append(xmToR, m)
      /\ xmStx' = IF xmStx = "CAN" THEN "idle" ELSE "wait"
      /\ xmSfin' = (xmSfin \/ xmStx = "EOT")
      /\ UNCHANGED <<xmNo, xmSend, Transfer!receiver, xmToS>>
  BY DEF Transfer!SenderSends
<1>2. UNCHANGED <<xmLast, xmGot, xmRecv, xmRfin, xmRrx, xmRtx, xmNo, xmSend, xmToS>>
  BY <1>1 DEF Transfer!receiver
<1>3. m \in Message /\ (m.how = "EOT" <=> xmStx = "EOT")
      /\ (xmStx = "sending" => Transfer!IsPacket(m) /\ m.no = xmNo)
  BY <1>1 DEF Message, Transfer!Packet, Transfer!Byte, Transfer!IsPacket, Transfer!Hows, SenderInv
<1> HIDE DEF m
<1>4. CASE xmRecv = "cancel"
  BY <1>2, <1>4, ReceiverGone
<1>5. AllPassed' = AllPassed
  BY <1>2 DEF AllPassed
<1>6. EotUnderWay' => EotUnderWay \/ xmStx = "EOT"
  <2>1. xmToR \in Seq(Message)
    BY DEF LineInv
  <2>2. ASSUME NEW k \in 1..Len(xmToR'), xmToR'[k].how = "EOT", xmStx # "EOT"
        PROVE  EotUnderWay
    <3>1. xmToR'[k] # m
      BY <1>3, <2>2
    <3>2. k \in 1..Len(xmToR) /\ xmToR'[k] = xmToR[k]
      BY <1>1, <1>3, <2>1, <3>1
    <3> QED
      BY <2>2, <3>2 DEF EotUnderWay
  <2> QED
    BY <2>2 DEF EotUnderWay
<1>7. AtEnd' => AtEnd
  BY <1>1, <1>2, <1>6 DEF AtEnd
<1>8. CASE xmSend = "cancel" /\ xmRecv # "cancel"
  BY <1>2, <1>5, <1>7, <1>8 DEF EndInv, NoneCancelled
<1>9. CASE NoneCancelled
  <2>1. SenderHas
    <3>1. xmStx # "CAN"
      BY <1>9 DEF EndInv, OneTurn, SenderHas, MessageHas, PurgeHas, AskHas, AckHas, AnswerHas,
                  NobodyHas, Awaits
    <3> QED
      BY <1>1, <1>9, <3>1 DEF EndInv, OneTurn, MessageHas, PurgeHas, AskHas, AckHas, AnswerHas,
                  NobodyHas, Awaits
  <2>2. PICK p \in Message : p = m
    BY <1>3
  <2>3. xmToR' = <<p>> /\ xmStx' = "wait"
    BY <1>1, <2>1, <2>2, OfOne DEF SenderHas, LinesEmpty
  <2>4. InTime(p)'
    BY <1>1, <1>2, <1>3, <2>1, <2>2 DEF InTime, SenderHas, SenderInv
  <2>5. MessageHas'
    BY <1>2, <2>1, <2>3, <2>4 DEF MessageHas, SenderHas, LinesEmpty, Resting
  <2>6. InStep' = InStep
    BY <1>2 DEF InStep
  <2>7. UpToDate'
    <3>1. xmSfin \in BOOLEAN
      BY DEF SenderInv
    <3>2. xmSfin' = FALSE => xmStx = "sending" /\ xmSfin = FALSE
      BY <1>1, <2>1, <3>1 DEF SenderHas
    <3> QED
      BY <1>9, <2>3, <2>6, <3>2 DEF UpToDate, EndInv
  <2>8. xmSend' # "finish"
    BY <1>2, <2>1 DEF SenderHas, SenderInv
  <2> QED
    BY <1>5, <1>7, <1>9, <1>2, <2>5, <2>7, <2>8 DEF EndInv, OneTurn, NoneCancelled
<1> QED
  BY <1>4, <1>8, <1>9 DEF NoneCancelled

LEMMA SenderCancelsEnds ==
  ASSUME EndInv, LineInv, SenderInv, Transfer!SenderCancels
  PROVE  EndInv'
<1> DEFINE m == Transfer!Packet(xmNo, "cut")
<1>1. /\ xmStx' = "CAN" /\ xmSfin' = FALSE /\ xmSend' = "cancel"
      /\ xmToR' = xmToR \/ xmToR' = Append(xmToR, m)
      /\ UNCHANGED Transfer!receiver
  BY DEF Transfer!SenderCancels
<1>2. m.how # "EOT" /\ m \in Message
  BY DEF Transfer!Packet, Message, Transfer!Hows, SenderInv
<1> HIDE DEF m
<1>3. EotUnderWay' => EotUnderWay
  <2>1. xmToR \in Seq(Message)
    BY DEF LineInv
  <2>2. ASSUME NEW k \in 1..Len(xmToR'), xmToR'[k].how = "EOT"
        PROVE  EotUnderWay
    <3>1. k \in 1..Len(xmToR) /\ xmToR'[k] = xmToR[k]
      BY <1>1, <1>2, <2>1, <2>2
    <3> QED
      BY <2>2, <3>1 DEF EotUnderWay
  <2> QED
    BY <2>2 DEF EotUnderWay
<1> QED
  BY <1>1, <1>3, SenderGone DEF Transfer!receiver

\* The packets passed on stay: when the receiver had all of them it has all of them.
LEMMA AllStay ==
  ASSUME Passed(xmGot), Passed(xmGot'), AllPassed, \/ UNCHANGED xmGot
                                                   \/ \E n : xmGot' = Append(xmGot, n)
  PROVE  AllPassed'
<1>1. CASE UNCHANGED xmGot
  BY <1>1 DEF AllPassed
<1>2. CASE \E n : xmGot' = Append(xmGot, n)
  <2>1. PICK n : xmGot' = Append(xmGot, n)
    BY <1>2
  <2>2. Len(xmGot') = Len(xmGot) + 1 /\ Len(xmGot') <= XmodemPackets
    BY <2>1 DEF Passed
  <2> QED
    BY <2>2, XmodemAssumption DEF AllPassed
<1> QED
  BY <1>1, <1>2

\* A whole packet that comes in time is the one sent, and is the next one or the last one again.
LEMMA TakeCatchesUp ==
  ASSUME InStep, SenderInv, xmLast \in Nat, UNCHANGED xmNo, Transfer!Take(xmNo),
         xmRecv # "cancel", Passed(xmGot)
  PROVE  InStep' /\ Caught' /\ xmRtx' = "ACK" /\ UNCHANGED <<xmRfin, xmRecv>>
<1>1. xmNo \in Nat /\ Len(xmGot) \in Nat
  BY XmodemAssumption DEF SenderInv, Passed
<1>2. CASE xmNo = xmLast /\ xmRtx' = "ACK" /\ UNCHANGED <<xmLast, xmRfin, xmRecv, xmGot>>
  <2>1. Caught' /\ InStep'
    BY <1>2 DEF Caught, InStep
  <2> QED
    BY <1>2, <2>1
<1>3. CASE /\ xmNo = xmLast + 1 /\ xmLast' = xmNo /\ xmRtx' = "ACK" /\ UNCHANGED <<xmRfin, xmRecv>>
           /\ Transfer!PassOn(xmNo)
  <2>1. xmGot' = Append(xmGot, xmNo)
    BY <1>3 DEF Transfer!PassOn
  <2>2. Len(xmGot') = Len(xmGot) + 1
    BY <2>1 DEF Passed
  <2>3. xmNo' = xmNo /\ xmLast' = xmNo /\ xmLast = Len(xmGot) /\ xmNo = xmLast + 1
    BY <1>3 DEF InStep
  <2>4. Caught' /\ InStep'
    BY <1>1, <2>2, <2>3 DEF Caught, InStep
  <2> QED
    BY <1>3, <2>4
<1>4. CASE xmNo \notin {xmLast, xmLast + 1}
  BY <1>4 DEF InStep
<1> QED
  BY <1>2, <1>3, <1>4 DEF Transfer!Take

\* What the receiver reads: an EOT was sent when it had everything.
LEMMA ReceiverReadsEnds ==
  ASSUME EndInv, SenderInv, LineInv, ReceiverInv, ReceiverInv', Transfer!ReceiverReads
  PROVE  EndInv'
<1>1. xmToR # <<>> /\ xmToR' = Tail(xmToR) /\ UNCHANGED <<Transfer!sender, xmToS>>
  BY DEF Transfer!ReceiverReads
<1>2. UNCHANGED <<xmStx, xmNo, xmSfin, xmSend, xmToS>>
  BY <1>1 DEF Transfer!sender
<1> DEFINE m == Head(xmToR)
<1>3. /\ xmToR \in Seq(Message) /\ m = xmToR[1] /\ 1 \in 1..Len(xmToR) /\ m \in Message
      /\ \A k \in 1..Len(xmToR') : k + 1 \in 1..Len(xmToR) /\ xmToR'[k] = xmToR[k + 1]
  BY <1>1 DEF LineInv
<1>4. m.how = "EOT" => EotUnderWay
  BY <1>3 DEF EotUnderWay
<1>5. EotUnderWay' => EotUnderWay
  BY <1>3 DEF EotUnderWay
<1>6. \/ xmRrx = "idle" /\ Transfer!Begin(m)
      \/ /\ xmRrx = "get" /\ xmRrx' \in {"get", "purge"}
         /\ UNCHANGED <<xmRtx, xmLast, xmRfin, xmRecv, xmGot>>
      \/ xmRrx = "purge" /\ UNCHANGED Transfer!receiver
  BY DEF Transfer!ReceiverReads
<1> HIDE DEF m
<1>7. xmRecv' = xmRecv \/ xmRecv' = "cancel"
  BY <1>6 DEF Transfer!Begin, Transfer!Take, Transfer!receiver
<1>8. \/ UNCHANGED xmGot
      \/ \E n : xmGot' = Append(xmGot, n)
  BY <1>6 DEF Transfer!Begin, Transfer!Take, Transfer!PassOn, Transfer!receiver
<1>9. xmRfin' = xmRfin \/ m.how = "EOT"
  BY <1>6 DEF Transfer!Begin, Transfer!Take, Transfer!receiver
<1>10. CASE xmRecv' = "cancel"
  BY <1>10, ReceiverGone
<1>11. CASE xmRecv' # "cancel"
  <2>1. xmRecv' = xmRecv /\ xmRecv # "cancel"
    BY <1>7, <1>11
  <2>2. AtEnd' => AtEnd
    BY <1>2, <1>4, <1>5, <1>9, <2>1 DEF AtEnd
  <2>3. AtEnd' => AllPassed'
    BY <1>8, <2>1, <2>2, AllStay DEF EndInv, ReceiverInv
  <2>4. CASE xmSend = "cancel"
    BY <1>2, <2>1, <2>3, <2>4 DEF EndInv, NoneCancelled
  <2>5. CASE xmSend # "cancel"
    <3>1. NoneCancelled
      BY <2>1, <2>5 DEF NoneCancelled
    <3>2. MessageHas
      BY <1>1, <3>1 DEF EndInv, OneTurn, SenderHas, LinesEmpty, PurgeHas, AskHas, AckHas,
                        AnswerHas, NobodyHas
    <3>3. m.how = "EOT" \/ m.how \in {"whole", "wrong", "cut"}
      BY <3>2, <1>3, OfOne DEF MessageHas, InTime, Transfer!IsPacket, Transfer!Hows, m
    <3>4. xmToR' = <<>> /\ InTime(m) /\ xmStx = "wait" /\ xmRrx = "idle" /\ xmToS = <<>> /\ Resting
      BY <1>1, <3>2, OfOne DEF MessageHas, m
    <3>5. Transfer!Begin(m)
      BY <1>6, <3>4
    <3>6. xmSend' # "finish"
      BY <1>2, <3>4 DEF SenderInv
    <3>7. xmSfin = FALSE => InStep
      BY <3>1, <3>4 DEF EndInv, UpToDate
    <3>8. UpToDate' /\ OneTurn' => EndInv'
      BY <2>3, <3>6 DEF EndInv
    <3>9. CASE m.how = "EOT"
      <4>1. xmRfin' = TRUE /\ xmRtx' = "ACK" /\ xmRrx' = xmRrx
        BY <3>5, <3>9 DEF Transfer!Begin
      <4>2. xmSfin
        BY <3>4, <3>9 DEF InTime, Transfer!IsPacket, Transfer!Hows
      <4>3. xmSfin' # FALSE
        BY <1>2, <4>2
      <4>4. UpToDate'
        BY <1>2, <3>4, <4>3 DEF UpToDate
      <4>5. AckHas'
        BY <1>2, <3>4, <4>1, <4>2 DEF AckHas, LinesEmpty
      <4> QED
        BY <3>8, <4>4, <4>5 DEF OneTurn
    <3>10. CASE m.how # "EOT"
      <4>1. xmSfin = FALSE /\ m.no = xmNo
        BY <3>4, <3>10 DEF InTime, SenderInv
      <4>2. InStep
        BY <3>7, <4>1
      <4>3. CASE m.how = "whole" /\ Transfer!Take(m.no)
        <5>1. xmLast \in Nat /\ Passed(xmGot)
          BY DEF ReceiverInv
        <5>2. InStep' /\ Caught' /\ xmRtx' = "ACK"
          BY <1>2, <2>1, <4>1, <4>2, <4>3, <5>1, TakeCatchesUp
        <5>3. xmRrx' = "idle"
          BY <4>3 DEF Transfer!Take
        <5>4. UpToDate'
          BY <1>2, <3>4, <5>2 DEF UpToDate
        <5>5. AckHas'
          BY <1>2, <3>4, <4>1, <5>2, <5>3 DEF AckHas, LinesEmpty
        <5> QED
          BY <3>8, <5>4, <5>5 DEF OneTurn
      <4>4. CASE /\ m.how \in {"wrong", "cut"} /\ xmRrx' \in {"get", "purge"}
                 /\ xmRtx' = Transfer!Started /\ UNCHANGED <<xmLast, xmGot>>
        <5>1. xmRtx' = "idle"
          BY <3>4, <4>4 DEF Transfer!Started, Resting
        <5>2. InStep' = InStep
          BY <1>2, <4>4 DEF InStep
        <5>3. UpToDate'
          BY <1>2, <3>4, <4>2, <5>2 DEF UpToDate
        <5>4. PurgeHas'
          BY <1>2, <3>4, <4>1, <4>4, <5>1 DEF PurgeHas
        <5> QED
          BY <3>8, <5>3, <5>4 DEF OneTurn
      <4> QED
        BY <3>3, <3>5, <3>10, <4>3, <4>4 DEF Transfer!Begin
    <3> QED
      BY <3>9, <3>10
  <2> QED
    BY <2>4, <2>5
<1> QED
  BY <1>10, <1>11

\* A step that leaves the sender and the numbers alone, and after which somebody has the turn.
LEMMA TurnEnds ==
  ASSUME EndInv, UNCHANGED <<xmStx, xmNo, xmSfin, xmSend, xmLast, xmGot>>,
         \/ xmRecv' = xmRecv
         \/ xmRecv' = "cancel"
         \/ xmRecv' = "finish" /\ xmRfin /\ xmRecv # "cancel",
         xmRfin' => xmRfin, EotUnderWay' => EotUnderWay,
         NoneCancelled /\ xmRecv' # "cancel" => OneTurn'
  PROVE  EndInv'
<1>1. CASE xmRecv' = "cancel"
  BY <1>1, ReceiverGone
<1>2. CASE xmRecv' # "cancel"
  <2>1. xmRecv # "cancel" /\ (AtEnd' => AtEnd)
    BY <1>2 DEF AtEnd
  <2>2. AllPassed' = AllPassed /\ InStep' = InStep
    BY DEF AllPassed, InStep
  <2>3. NoneCancelled' => UpToDate'
    BY <2>1, <2>2 DEF EndInv, NoneCancelled, UpToDate
  <2>4. xmSend' = "finish" => xmRecv' \in {"finish", "cancel"}
    BY DEF EndInv
  <2>5. NoneCancelled' => OneTurn'
    BY <1>2, <2>1 DEF NoneCancelled
  <2> QED
    BY <2>1, <2>2, <2>3, <2>4, <2>5 DEF EndInv
<1> QED
  BY <1>1, <1>2

\* The packet that was purged is asked for again, or the start is.
LEMMA ReceiverTimeoutEnds ==
  ASSUME EndInv, XmodemLate = FALSE, Transfer!RxTimeout \/ Transfer!StartTimeout
  PROVE  EndInv'
<1>1. UNCHANGED <<xmStx, xmNo, xmSfin, xmSend, xmLast, xmGot, xmRecv, xmRfin, xmToR, xmToS>>
  BY DEF Transfer!RxTimeout, Transfer!StartTimeout, Transfer!sender
<1>2. EotUnderWay' = EotUnderWay
  BY <1>1 DEF EotUnderWay
<1>3. ASSUME NoneCancelled PROVE OneTurn'
  <2>1. OneTurn
    BY <1>3 DEF EndInv
  <2>2. CASE Transfer!RxTimeout
    <3>1. xmRrx \in {"get", "purge"} /\ xmRrx' = "idle" /\ xmRtx' = "NAK"
      BY <2>2 DEF Transfer!RxTimeout
    <3>2. PurgeHas
      BY <2>1, <3>1 DEF OneTurn, SenderHas, MessageHas, AskHas, AckHas, AnswerHas, NobodyHas,
                        LinesEmpty
    <3>3. AskHas'
      BY <1>1, <3>1, <3>2 DEF PurgeHas, AskHas, LinesEmpty, Awaits
    <3> QED
      BY <3>3 DEF OneTurn
  <2>3. CASE Transfer!StartTimeout
    <3>1. /\ xmRtx = "wait start" /\ xmRtx' = "send C" /\ xmRrx' = xmRrx
          /\ xmToR = <<>> /\ xmToS = <<>> /\ xmStx \in {"idle", "wait"}
      BY <2>3 DEF Transfer!StartTimeout
    <3>2. xmRrx = "idle"
      BY <2>1, <3>1 DEF OneTurn, SenderHas, MessageHas, AskHas, AckHas, AnswerHas, NobodyHas,
                        PurgeHas, LinesEmpty
    <3>3. AskHas'
      BY <1>1, <3>1, <3>2 DEF AskHas, LinesEmpty, Awaits
    <3> QED
      BY <3>3 DEF OneTurn
  <2> QED
    BY <2>2, <2>3
<1> QED
  BY <1>1, <1>2, <1>3, TurnEnds

\* The receiver answers, and is done once it has answered the EOT.
LEMMA ReceiverSendsEnds ==
  ASSUME EndInv, XmodemStart \in {"C", "NAK"}, Transfer!ReceiverSends
  PROVE  EndInv'
<1>1. /\ UNCHANGED <<xmStx, xmNo, xmSfin, xmSend, xmLast, xmGot, xmToR, xmRrx>>
      /\ xmRtx \in {"send C", "ACK", "NAK", "CAN"}
      /\ xmToS' = Append(xmToS, Transfer!Byte(IF xmRtx = "send C" THEN XmodemStart ELSE xmRtx))
      /\ xmRtx' = IF xmRtx = "send C" THEN "wait start" ELSE "idle"
      /\ xmRfin' = (xmRfin /\ xmRtx \in {"NAK", "CAN"})
      /\ xmRecv' = IF xmRtx = "ACK" /\ xmRfin /\ xmRecv # "cancel" THEN "finish" ELSE xmRecv
  BY DEF Transfer!ReceiverSends, Transfer!sender
<1>2. EotUnderWay' = EotUnderWay
  BY <1>1 DEF EotUnderWay
<1>3. ASSUME NoneCancelled PROVE OneTurn'
  <2>1. OneTurn /\ xmRecv # "cancel"
    BY <1>3 DEF EndInv, NoneCancelled
  <2>2. AskHas \/ AckHas
    BY <1>1, <2>1 DEF OneTurn, SenderHas, MessageHas, PurgeHas, AnswerHas, NobodyHas, Resting
  <2>3. PICK c \in {XmodemStart, "ACK", "NAK"} : c = IF xmRtx = "send C" THEN XmodemStart ELSE xmRtx
    BY <2>2 DEF AskHas, AckHas
  <2>4. xmToS' = <<Transfer!Byte(c)>>
    BY <1>1, <2>2, <2>3, OfOne DEF AskHas, AckHas, LinesEmpty
  <2>5. Caught' = Caught
    BY <1>1 DEF Caught
  <2>6. Says(c)'
    <3>1. c = "ACK" => AckHas /\ xmRtx = "ACK"
      BY <2>2, <2>3 DEF AskHas, AckHas
    <3> QED
      BY <1>1, <2>1, <2>5, <3>1 DEF Says, AckHas
  <2>7. AnswerHas'
    BY <1>1, <2>2, <2>4, <2>6 DEF AnswerHas, AskHas, AckHas, Awaits, LinesEmpty, Resting
  <2> QED
    BY <2>7 DEF OneTurn
<1> QED
  BY <1>1, <1>2, <1>3, TurnEnds

\* A message that is lost leaves the turn with nobody; one that is spoilt is a packet still.
LEMMA LineEnds ==
  ASSUME EndInv, LineInv, Transfer!Lose \/ Transfer!Spoil
  PROVE  EndInv'
<1>1. /\ UNCHANGED <<xmStx, xmNo, xmSfin, xmSend, xmLast, xmGot, xmRecv, xmRfin, xmRtx, xmRrx>>
  BY DEF Transfer!Lose, Transfer!Spoil, Transfer!sender, Transfer!receiver
<1>2. CASE Transfer!Lose
  <2>1. \/ xmToR # <<>> /\ xmToR' = Tail(xmToR) /\ xmToS' = xmToS
        \/ xmToS # <<>> /\ xmToS' = Tail(xmToS) /\ xmToR' = xmToR
    BY <1>2 DEF Transfer!Lose
  <2>2. EotUnderWay' => EotUnderWay
    <3>1. CASE xmToR' = xmToR
      BY <3>1 DEF EotUnderWay
    <3>2. CASE xmToR # <<>> /\ xmToR' = Tail(xmToR)
      <4>1. \A k \in 1..Len(xmToR') : k + 1 \in 1..Len(xmToR) /\ xmToR'[k] = xmToR[k + 1]
        BY <3>2 DEF LineInv
      <4> QED
        BY <4>1 DEF EotUnderWay
    <3> QED
      BY <2>1, <3>1, <3>2
  <2>3. ASSUME NoneCancelled PROVE OneTurn'
    <3>1. MessageHas \/ AnswerHas
      BY <2>1, <2>3 DEF EndInv, OneTurn, SenderHas, LinesEmpty, PurgeHas, AskHas, AckHas, NobodyHas
    <3>2. xmToR' = <<>> /\ xmToS' = <<>>
      BY <2>1, <3>1, OfOne DEF MessageHas, AnswerHas
    <3>3. NobodyHas'
      BY <1>1, <3>1, <3>2 DEF MessageHas, AnswerHas, NobodyHas, Awaits, LinesEmpty, Resting
    <3> QED
      BY <3>3 DEF OneTurn
  <2> QED
    BY <1>1, <2>2, <2>3, TurnEnds
<1>3. CASE Transfer!Spoil
  <2>1. PICK how \in {"wrong", "cut"} :
          /\ xmToR # <<>> /\ Head(xmToR).how = "whole"
          /\ xmToR' = <<Transfer!Packet(Head(xmToR).no, how)>> \o Tail(xmToR)
          /\ xmToS' = xmToS
    BY <1>3 DEF Transfer!Spoil
  <2>2. Head(xmToR) \in Message
    BY <2>1 DEF LineInv
  <2>3. PICK p \in Message : p = Transfer!Packet(Head(xmToR).no, how)
    BY <2>2 DEF Transfer!Packet, Message, Transfer!Hows
  <2>4. p.how = how /\ p.no = Head(xmToR).no
    BY <2>3 DEF Transfer!Packet
  <2>5. EotUnderWay' => EotUnderWay
    <3>1. \A k \in 1..Len(xmToR') : xmToR'[k] = p \/ (k \in 1..Len(xmToR) /\ xmToR'[k] = xmToR[k])
      BY <2>1, <2>3 DEF LineInv
    <3>2. p.how # "EOT"
      BY <2>4
    <3> QED
      BY <3>1, <3>2 DEF EotUnderWay
  <2>6. ASSUME NoneCancelled PROVE OneTurn'
    <3>1. MessageHas
      BY <2>1, <2>6 DEF EndInv, OneTurn, SenderHas, LinesEmpty, PurgeHas, AskHas, AckHas, AnswerHas,
                        NobodyHas
    <3>2. PICK m \in Message : xmToR = <<m>> /\ InTime(m)
      BY <3>1 DEF MessageHas
    <3>3. Head(xmToR) = m /\ xmToR' = <<p>>
      <4>1. Head(xmToR) = m /\ Tail(xmToR) = <<>>
        BY <3>2, OfOne
      <4>2. <<p>> \o <<>> = <<p>>
        OBVIOUS
      <4> QED
        BY <2>1, <2>3, <4>1, <4>2
    <3>4. InTime(p)'
      BY <1>1, <2>1, <2>4, <3>2, <3>3 DEF InTime, Transfer!IsPacket, Transfer!Hows
    <3>5. MessageHas'
      BY <1>1, <2>1, <3>1, <3>3, <3>4 DEF MessageHas, Resting
    <3> QED
      BY <3>5 DEF OneTurn
  <2> QED
    BY <1>1, <2>5, <2>6, TurnEnds
<1> QED
  BY <1>2, <1>3

LEMMA EndStep ==
  ASSUME Transfer!Inv, EndInv, XmodemStart \in {"C", "NAK"}, XmodemLate = FALSE,
         Transfer!Next \/ UNCHANGED Transfer!vars
  PROVE  EndInv'
<1>1. SenderInv /\ LineInv /\ ReceiverInv /\ ReceiverInv'
  BY TransferParts, TransferStep, PartsTransfer
<1>2. xmLast \in Nat
  BY <1>1 DEF ReceiverInv
<1>3. CASE Transfer!ReceiverCancels
  BY <1>3, ReceiverGone DEF Transfer!ReceiverCancels
<1>4. CASE UNCHANGED Transfer!vars
  <2>1. UNCHANGED <<xmStx, xmNo, xmSfin, xmSend, xmLast, xmGot, xmRecv, xmRfin, xmRtx, xmRrx, xmToR,
                    xmToS>>
    BY <1>4 DEF Transfer!vars, Transfer!sender, Transfer!receiver
  <2> QED
    BY <2>1 DEF EndInv, AtEnd, EotUnderWay, AllPassed, NoneCancelled, OneTurn, UpToDate, InStep,
                Caught, SenderHas, MessageHas, PurgeHas, AskHas, AckHas, AnswerHas, NobodyHas,
                LinesEmpty, Resting, Awaits, InTime, Says
<1> QED
  BY <1>1, <1>2, <1>3, <1>4, SenderReadsEnds, SenderTimeoutEnds, SenderSendsEnds, SenderCancelsEnds,
     ReceiverReadsEnds, ReceiverTimeoutEnds, ReceiverSendsEnds, LineEnds
     DEF Transfer!Next, Transfer!SenderWorks, Transfer!ReceiverWorks

LEMMA EndInit == Transfer!Init => EndInv
<1> SUFFICES ASSUME Transfer!Init PROVE EndInv
  OBVIOUS
<1>1. /\ xmStx = "idle" /\ xmSfin = FALSE /\ xmSend = "going" /\ xmRtx = "send C"
      /\ xmRrx = "idle" /\ xmLast = 0 /\ xmRfin = FALSE /\ xmRecv = "going" /\ xmToR = <<>>
      /\ xmToS = <<>> /\ xmGot = <<>>
  BY DEF Transfer!Init
<1>2. ~AtEnd
  BY <1>1, NoEot DEF AtEnd
<1>3. OneTurn
  BY <1>1 DEF OneTurn, AskHas, Awaits, LinesEmpty
<1>4. UpToDate
  BY <1>1 DEF UpToDate
<1> QED
  BY <1>1, <1>2, <1>3, <1>4 DEF EndInv

LEMMA EndMeansAll == Transfer!Inv /\ EndInv => Transfer!FinishedMeansAll
<1> SUFFICES ASSUME Transfer!Inv, EndInv PROVE Transfer!FinishedMeansAll
  OBVIOUS
<1>1. ASSUME xmRecv = "finish" PROVE xmGot = Transfer!All
  <2>1. Len(xmGot) = XmodemPackets
    BY <1>1 DEF EndInv, AtEnd, AllPassed
  <2>2. xmGot \in Seq(1..XmodemPackets) /\ \A k \in 1..Len(xmGot) : xmGot[k] = k
    BY TransferParts DEF ReceiverInv, Passed
  <2>3. Transfer!All = [k \in 1..XmodemPackets |-> k]
    BY DEF Transfer!All
  <2> QED
    BY <2>1, <2>2, <2>3, XmodemAssumption
<1>2. xmSend = "finish" => xmRecv # "going"
  BY DEF EndInv
<1> QED
  BY <1>1, <1>2 DEF Transfer!FinishedMeansAll

\* As pif_xmodem.h says of the finish callback, "Called when the transfer has finished
\* successfully": with either start and answers that come before their timeouts, a receiver that is
\* told so has all packets of the sender, in order and each once, and the sender is told so only
\* after the receiver was or the receiver has cancelled: however many packets there are and however
\* many messages the line loses or spoils.
THEOREM FinishedHasAll ==
  ASSUME XmodemStart \in {"C", "NAK"}, XmodemLate = FALSE
  PROVE  Transfer!Spec => []Transfer!FinishedMeansAll
<1>1. Transfer!Inv /\ EndInv /\ [Transfer!Next]_Transfer!vars => Transfer!Inv' /\ EndInv'
  BY TransferStep, EndStep
<1> QED
  BY <1>1, TransferInit, EndInit, EndMeansAll, PTL DEF Transfer!Spec

-----------------------------------------------------------------------------
(* Requests.                                                                 *)

Kinds == [kind : {"B5", "62", "body", "ck", "?"}, verdict : Gps!Verdicts \cup {"?"},
          id : GpsIds \cup {Gps!NoId}]
Answers == SUBSET [verdict : Gps!Verdicts, id : GpsIds]
\* The answers in the bytes q are among those in A.
AllSaid(q, A) ==
  /\ q \in Seq(Kinds)
  /\ \A k \in 1..Len(q) :
       q[k].verdict \in Gps!Verdicts => [verdict |-> q[k].verdict, id |-> q[k].id] \in A

LEMMA SaidTail ==
  ASSUME NEW q, NEW A, AllSaid(q, A), q # <<>>
  PROVE  /\ AllSaid(Tail(q), A) /\ Head(q) = q[1] /\ q[1] \in Kinds
         /\ q[1].verdict \in Gps!Verdicts => [verdict |-> q[1].verdict, id |-> q[1].id] \in A
<1> DEFINE r == Tail(q)
<1>1. /\ r \in Seq(Kinds) /\ Len(r) = Len(q) - 1 /\ Len(q) \in Nat /\ Len(q) > 0
      /\ \A k \in 1..Len(r) : r[k] = q[k + 1]
      /\ Head(q) = q[1] /\ q[1] \in Kinds /\ 1 \in 1..Len(q)
  BY DEF AllSaid
<1> HIDE DEF r
<1>2. \A k \in 1..Len(r) : k + 1 \in 1..Len(q)
  BY <1>1
<1>3. AllSaid(r, A)
  BY <1>1, <1>2 DEF AllSaid
<1> QED
  BY <1>1, <1>3 DEF r, AllSaid

LEMMA SaidAppend ==
  ASSUME NEW q, NEW A, AllSaid(q, A), NEW b \in Kinds,
         b.verdict \in Gps!Verdicts => [verdict |-> b.verdict, id |-> b.id] \in A
  PROVE  AllSaid(Append(q, b), A)
<1> DEFINE r == Append(q, b)
<1>1. /\ r \in Seq(Kinds) /\ Len(r) = Len(q) + 1 /\ Len(q) \in Nat /\ r[Len(q) + 1] = b
      /\ \A k \in 1..Len(q) : r[k] = q[k]
  BY DEF AllSaid
<1> HIDE DEF r
<1>2. \A k \in 1..Len(r) : k \in 1..Len(q) \/ k = Len(q) + 1
  BY <1>1
<1>3. AllSaid(r, A)
  BY <1>1, <1>2 DEF AllSaid
<1> QED
  BY <1>3 DEF r

\* A byte that was spoilt comes first.
LEMMA SaidFirst ==
  ASSUME NEW q, NEW A, AllSaid(q, A), NEW b \in Kinds, b.verdict \notin Gps!Verdicts
  PROVE  AllSaid(<<b>> \o q, A)
<1> DEFINE r == <<b>> \o q
<1>1. /\ r \in Seq(Kinds) /\ Len(r) = Len(q) + 1 /\ Len(q) \in Nat /\ r[1] = b
      /\ \A k \in 1..Len(r) : k = 1 \/ (r[k] = q[k - 1] /\ k - 1 \in 1..Len(q))
  BY DEF AllSaid
<1> HIDE DEF r
<1>2. AllSaid(r, A)
  BY <1>1 DEF AllSaid
<1> QED
  BY <1>2 DEF r

\* A frame with an answer that was given.
LEMMA SaidFrame ==
  ASSUME NEW q, NEW A, AllSaid(q, A), NEW v \in Gps!Verdicts, NEW id \in GpsIds,
         [verdict |-> v, id |-> id] \in A
  PROVE  AllSaid(q \o Gps!Frame(v, id), A)
<1> DEFINE one == Gps!Byte("B5")
           two == Gps!Byte("62")
           body == Gps!Body(v, id)
           ck == Gps!Byte("ck")
           a == Append(q, one)
           b == Append(a, two)
           c == Append(b, body)
<1>1. /\ one \in Kinds /\ two \in Kinds /\ body \in Kinds /\ ck \in Kinds
      /\ "?" \notin Gps!Verdicts
  BY DEF Gps!Byte, Gps!Body, Gps!Verdicts, Gps!NoId, Kinds
<1>2. /\ one.verdict = "?" /\ two.verdict = "?" /\ ck.verdict = "?"
      /\ body.verdict = v /\ body.id = id
  BY DEF Gps!Byte, Gps!Body
<1>3. Gps!Frame(v, id) = <<one, two, body, ck>>
  BY DEF Gps!Frame
<1> HIDE DEF one, two, body, ck
<1>4. q \o <<one, two, body, ck>> = Append(c, ck)
  BY <1>1 DEF AllSaid
<1>5. AllSaid(a, A)
  BY <1>1, <1>2, SaidAppend
<1> HIDE DEF a
<1>6. AllSaid(b, A)
  BY <1>1, <1>2, <1>5, SaidAppend
<1> HIDE DEF b
<1>7. AllSaid(c, A)
  BY <1>1, <1>2, <1>6, SaidAppend
<1> HIDE DEF c
<1>8. AllSaid(Append(c, ck), A)
  BY <1>1, <1>2, <1>7, SaidAppend
<1> QED
  BY <1>3, <1>4, <1>8

LEMMA SaidMore ==
  ASSUME NEW q, NEW A, AllSaid(q, A), NEW B, A \subseteq B PROVE AllSaid(q, B)
BY DEF AllSaid

LEMMA NothingSaid == ASSUME NEW A PROVE AllSaid(<<>>, A)
<1>1. \A S : <<>> \in Seq(S)
  OBVIOUS
<1>2. Len(<<>>) = 0 /\ 1..0 = {}
  OBVIOUS
<1> QED
  BY <1>1, <1>2, Zenon DEF AllSaid

\* The parts of the invariant: what is on its way, the message, and the request.
WayInv == AllSaid(gpsLine, gpsSaid.answers) /\ AllSaid(gpsRx, gpsSaid.answers)
OwedInv ==
  /\ gpsOwed \in Seq(GpsIds) /\ gpsMade \in Nat
  /\ gpsSaid \in [answers : Answers, got : Nat]

LEMMA GpsParts ==
  Gps!Inv <=> WayInv /\ OwedInv /\ Gps!LastMessage /\ Gps!AnswerIsTrue
BY Zenon DEF Gps!Inv, WayInv, OwedInv, AllSaid, Kinds, Answers, Gps!BytesAreSaid, Gps!IsSaid,
             Gps!Frames

LEMMA PartsGps ==
  Gps!Inv' <=> WayInv' /\ OwedInv' /\ Gps!LastMessage' /\ Gps!AnswerIsTrue'
BY Zenon DEF Gps!Inv, WayInv, OwedInv, AllSaid, Kinds, Answers, Gps!BytesAreSaid, Gps!IsSaid,
             Gps!Frames

LEMMA GpsInit == Gps!Init => Gps!Inv
<1> SUFFICES ASSUME Gps!Init PROVE WayInv /\ OwedInv /\ Gps!LastMessage /\ Gps!AnswerIsTrue
  BY GpsParts
<1>1. /\ gpsLine = <<>> /\ gpsRx = <<>> /\ gpsOwed = <<>> /\ gpsMade = 0 /\ gpsBuf = <<>>
      /\ gpsSaid = [answers |-> {}, got |-> 0] /\ gpsTx = "IDLE" /\ gpsSt = "NONE"
  BY DEF Gps!Init
<1>2. WayInv
  BY <1>1, NothingSaid DEF WayInv
<1>3. \A S : <<>> \in Seq(S)
  OBVIOUS
<1>4. OwedInv
  BY <1>1, <1>3 DEF OwedInv, Answers
<1>5. Gps!LastMessage
  BY <1>1 DEF Gps!LastMessage
<1>6. Gps!AnswerIsTrue
  BY <1>1 DEF Gps!AnswerIsTrue, Gps!Verdicts
<1> QED
  BY <1>2, <1>4, <1>5, <1>6

\* What is kept by a step that leaves the bytes, the receiver and the requests alone.
LEMMA GpsQuiet ==
  ASSUME WayInv, OwedInv, UNCHANGED <<gpsLine, gpsRx, gpsOwed, gpsSaid, gpsMade>>
  PROVE  WayInv' /\ OwedInv'
BY DEF WayInv, OwedInv

LEMMA BeginsRight ==
  ASSUME Gps!Inv, NEW id \in GpsIds \cup {Gps!NoId}, Gps!Begins(id) PROVE Gps!Inv'
<1>1. WayInv /\ OwedInv /\ Gps!LastMessage
  BY GpsParts
<1>2. /\ UNCHANGED <<gpsLine, gpsRx, gpsOwed, gpsSaid, gpsTx>> /\ gpsMade' = gpsMade + 1
      /\ gpsBuf' = <<[id |-> id, no |-> gpsMade + 1]>> /\ gpsSt' = "SEND" /\ gpsTx = "IDLE"
  BY DEF Gps!Begins, Gps!Possible, Gps!BeginPossible, Gps!receiver
<1>3. gpsMade + 1 \in Nat
  BY <1>1 DEF OwedInv
<1>4. WayInv' /\ OwedInv'
  BY <1>1, <1>2, <1>3 DEF WayInv, OwedInv
<1>5. Gps!LastMessage'
  BY <1>2 DEF Gps!LastMessage
<1>6. Gps!AnswerIsTrue'
  BY <1>2 DEF Gps!AnswerIsTrue, Gps!Verdicts
<1> QED
  BY <1>4, <1>5, <1>6, PartsGps

\* The application's other steps, and those of the transport.
LEMMA RequestRight ==
  ASSUME Gps!Inv,
         \/ \E id \in GpsIds \cup {Gps!NoId} : Gps!Fails(id)
         \/ Gps!TimePasses \/ Gps!CheckRequest \/ Gps!Detach \/ Gps!Attach
  PROVE  Gps!Inv'
<1>1. WayInv /\ OwedInv /\ Gps!LastMessage /\ Gps!AnswerIsTrue
  BY GpsParts
<1>2. UNCHANGED <<gpsLine, gpsRx, gpsOwed, gpsSaid, gpsMade, gpsBuf, gpsTx>>
  BY DEF Gps!Fails, Gps!TimePasses, Gps!CheckRequest, Gps!Detach, Gps!Attach, Gps!receiver,
         Gps!sending
<1>3. WayInv' /\ OwedInv' /\ Gps!LastMessage'
  BY <1>1, <1>2, GpsQuiet DEF Gps!LastMessage
<1>4. \/ gpsSt' = "FAILURE"
      \/ gpsSt' = gpsSt /\ gpsCfg' = gpsCfg /\ gpsDue' = gpsDue
      \/ gpsSt' = gpsSt /\ gpsSt = "SEND"
      \/ gpsSt' = "TIMEOUT" /\ gpsDue' = gpsDue /\ (gpsBuf = <<>> \/ gpsDue)
  BY DEF Gps!Fails, Gps!TimePasses, Gps!CheckRequest, Gps!Detach, Gps!Attach, Gps!request
<1>5. Gps!AnswerIsTrue'
  BY <1>1, <1>2, <1>4 DEF Gps!AnswerIsTrue, Gps!LastMessage, Gps!Verdicts
<1> QED
  BY <1>3, <1>5, PartsGps

LEMMA SendRight == ASSUME Gps!Inv, Gps!Send PROVE Gps!Inv'
<1>1. WayInv /\ OwedInv /\ Gps!LastMessage /\ Gps!AnswerIsTrue
  BY GpsParts
<1>2. UNCHANGED <<gpsLine, gpsRx, gpsMade, gpsSt, gpsCfg, gpsDue>>
  BY DEF Gps!Send, Gps!request
<1> DEFINE Moves == \/ UNCHANGED <<gpsBuf, gpsTx>>
                    \/ gpsBuf # <<>> /\ gpsBuf' = gpsBuf /\ gpsTx' = "SENDING"
                    \/ gpsTx = "WAIT_SENDED" /\ gpsBuf' = <<>> /\ gpsTx' = "IDLE"
<1>3. CASE UNCHANGED <<gpsOwed, gpsSaid>> /\ Moves
  <2>1. WayInv' /\ OwedInv'
    BY <1>1, <1>2, <1>3, GpsQuiet
  <2>2. Gps!AnswerIsTrue'
    BY <1>1, <1>2, <1>3 DEF Gps!AnswerIsTrue
  <2>3. Gps!LastMessage'
    BY <1>1, <1>2, <1>3 DEF Gps!LastMessage
  <2> QED
    BY <2>1, <2>2, <2>3, PartsGps
<1>4. CASE gpsTx = "SENDING" /\ gpsTx' = "WAIT_SENDED" /\ Gps!Deliver /\ gpsBuf' = gpsBuf
  <2>1. gpsBuf # <<>> /\ gpsBuf[1].no = gpsMade
    BY <1>1, <1>4 DEF Gps!LastMessage
  <2>2. gpsSaid' = [gpsSaid EXCEPT !.got = gpsMade]
    BY <1>4, <2>1 DEF Gps!Deliver
  <2>3. /\ gpsSaid'.answers = gpsSaid.answers /\ gpsSaid'.got = gpsMade
        /\ gpsSaid' \in [answers : Answers, got : Nat]
    BY <1>1, <2>2 DEF OwedInv
  <2>4. gpsOwed' \in Seq(GpsIds)
    <3> DEFINE id == gpsBuf[1].id
    <3>1. gpsOwed' = IF id \in GpsIds THEN Append(gpsOwed, id) ELSE gpsOwed
      BY <1>4 DEF Gps!Deliver
    <3>2. gpsOwed \in Seq(GpsIds)
      BY <1>1 DEF OwedInv
    <3> HIDE DEF id
    <3>3. id \in GpsIds => Append(gpsOwed, id) \in Seq(GpsIds)
      BY <3>2
    <3> QED
      BY <3>1, <3>2, <3>3
  <2>5. WayInv' /\ OwedInv'
    BY <1>1, <1>2, <2>3, <2>4 DEF WayInv, OwedInv
  <2>6. Gps!LastMessage' /\ Gps!AnswerIsTrue'
    BY <1>1, <1>2, <1>4, <2>1, <2>3 DEF Gps!LastMessage, Gps!AnswerIsTrue
  <2> QED
    BY <2>5, <2>6, PartsGps
<1>5. \/ UNCHANGED <<gpsOwed, gpsSaid>> /\ Moves
      \/ gpsTx = "SENDING" /\ gpsTx' = "WAIT_SENDED" /\ Gps!Deliver /\ gpsBuf' = gpsBuf
  BY DEF Gps!Send, Gps!Take, Gps!Hand, Gps!Drop, Gps!receiver
<1> QED
  BY <1>3, <1>4, <1>5

LEMMA AnswerGiven == ASSUME Gps!Inv, Gps!Answer PROVE Gps!Inv'
<1>1. WayInv /\ OwedInv /\ Gps!LastMessage /\ Gps!AnswerIsTrue
  BY GpsParts
<1> DEFINE id == Head(gpsOwed)
<1>2. gpsOwed # <<>> /\ id \in GpsIds /\ Tail(gpsOwed) \in Seq(GpsIds)
  BY <1>1 DEF Gps!Answer, OwedInv
<1>3. PICK v \in Gps!Verdicts :
        /\ gpsSaid' = [gpsSaid EXCEPT !.answers = @ \cup {[verdict |-> v, id |-> id]}]
        /\ gpsLine' = gpsLine \/ gpsLine' = gpsLine \o Gps!Frame(v, id)
  BY DEF Gps!Answer
<1>4. /\ gpsOwed' = Tail(gpsOwed)
      /\ UNCHANGED <<gpsRx, gpsMade, gpsBuf, gpsTx, gpsSt, gpsCfg, gpsDue>>
  BY DEF Gps!Answer, Gps!sending, Gps!request
<1> DEFINE A == gpsSaid.answers
           B == A \cup {[verdict |-> v, id |-> id]}
<1> HIDE DEF id
<1>5. A \in Answers /\ B \in Answers /\ A \subseteq B /\ [verdict |-> v, id |-> id] \in B
  BY <1>1, <1>2 DEF OwedInv, Answers
<1>6. gpsSaid'.answers = B /\ gpsSaid'.got = gpsSaid.got
      /\ gpsSaid' \in [answers : Answers, got : Nat]
  BY <1>1, <1>3, <1>5 DEF OwedInv
<1>7. AllSaid(gpsLine, A) /\ AllSaid(gpsRx, A)
  BY <1>1 DEF WayInv
<1> HIDE DEF A, B
<1>8. AllSaid(gpsLine, B) /\ AllSaid(gpsRx, B)
  BY <1>5, <1>7, SaidMore
<1>9. AllSaid(gpsLine \o Gps!Frame(v, id), B)
  BY <1>2, <1>5, <1>8, SaidFrame
<1>10. WayInv'
  BY <1>3, <1>4, <1>6, <1>8, <1>9 DEF WayInv
<1>11. OwedInv'
  BY <1>1, <1>2, <1>4, <1>6 DEF OwedInv
<1>12. Gps!LastMessage'
  BY <1>1, <1>4, <1>6 DEF Gps!LastMessage
<1>13. Gps!AnswerIsTrue'
  <2>1. \A x \in gpsSaid.answers : x \in B
    BY <1>5 DEF A
  <2> QED
    BY <1>1, <1>4, <1>6, <2>1 DEF Gps!AnswerIsTrue
<1> QED
  BY <1>10, <1>11, <1>12, <1>13, PartsGps

LEMMA BytesRight == ASSUME Gps!Inv, Gps!Spoil \/ Gps!AbortRx PROVE Gps!Inv'
<1>1. WayInv /\ OwedInv /\ Gps!LastMessage /\ Gps!AnswerIsTrue
  BY GpsParts
<1>2. UNCHANGED <<gpsOwed, gpsSaid, gpsMade, gpsBuf, gpsTx, gpsSt, gpsCfg, gpsDue>>
  BY DEF Gps!Spoil, Gps!AbortRx, Gps!sending, Gps!request, Gps!receiver
<1>3. OwedInv' /\ Gps!LastMessage' /\ Gps!AnswerIsTrue'
  BY <1>1, <1>2 DEF OwedInv, Gps!LastMessage, Gps!AnswerIsTrue
<1> DEFINE A == gpsSaid.answers
           t == Tail(gpsLine)
           one == Gps!Byte("B5")
           two == Gps!Spoilt
<1>4. A' = A /\ AllSaid(gpsLine, A) /\ AllSaid(gpsRx, A)
  BY <1>1, <1>2 DEF WayInv
<1>5. CASE Gps!AbortRx
  <2>1. gpsLine' = gpsLine /\ gpsRx' = <<>>
    BY <1>5 DEF Gps!AbortRx
  <2>2. WayInv'
    BY <1>4, <2>1, NothingSaid DEF WayInv
  <2> QED
    BY <1>3, <2>2, PartsGps
<1>6. CASE Gps!Spoil
  <2>1. gpsLine # <<>> /\ gpsRx' = gpsRx /\ gpsLine' \in {t, <<one>> \o t, <<two>> \o t}
    BY <1>6 DEF Gps!Spoil
  <2>2. one \in Kinds /\ one.verdict \notin Gps!Verdicts /\ two \in Kinds
        /\ two.verdict \notin Gps!Verdicts
    BY DEF Gps!Byte, Gps!Spoilt, Gps!Verdicts, Gps!NoId, Kinds
  <2> HIDE DEF A, one, two
  <2>3. AllSaid(t, A)
    BY <1>4, <2>1, SaidTail
  <2> HIDE DEF t
  <2>4. AllSaid(<<one>> \o t, A) /\ AllSaid(<<two>> \o t, A)
    BY <2>2, <2>3, SaidFirst
  <2>5. AllSaid(gpsLine', A)
    BY <2>1, <2>3, <2>4
  <2>6. WayInv'
    BY <1>2, <1>4, <2>1, <2>5 DEF WayInv, A
  <2> QED
    BY <1>3, <2>6, PartsGps
<1> QED
  BY <1>5, <1>6

LEMMA AtLeastThree == ASSUME NEW n \in Nat, n # 0, n # 1, n # 2 PROVE 3 \in 1..n
OBVIOUS

LEMMA ReceiveRight == ASSUME Gps!Inv, Gps!Receive PROVE Gps!Inv'
<1>1. WayInv /\ OwedInv /\ Gps!LastMessage /\ Gps!AnswerIsTrue
  BY GpsParts
<1> DEFINE A == gpsSaid.answers
           t == Tail(gpsLine)
           b == Head(gpsLine)
           c == Gps!AsBody(b)
<1>2. /\ UNCHANGED <<gpsOwed, gpsSaid, gpsMade, gpsBuf, gpsTx, gpsCfg, gpsDue>>
      /\ gpsLine # <<>> /\ gpsLine' = t /\ Gps!Parse(b)
  BY DEF Gps!Receive, Gps!sending, Gps!receiver
<1>3. AllSaid(gpsLine, A) /\ AllSaid(gpsRx, A) /\ A' = A
  BY <1>1, <1>2 DEF WayInv
<1> HIDE DEF A
<1>4. /\ AllSaid(t, A) /\ b \in Kinds
      /\ b.verdict \in Gps!Verdicts => [verdict |-> b.verdict, id |-> b.id] \in A
  BY <1>2, <1>3, SaidTail
<1> HIDE DEF t, b
<1>5. /\ c \in Kinds
      /\ c.verdict \in Gps!Verdicts => [verdict |-> c.verdict, id |-> c.id] \in A
  BY <1>4 DEF Gps!AsBody, Gps!Byte, Gps!Spoilt, Gps!Verdicts, Gps!NoId, Kinds
<1> HIDE DEF c
<1>6. AllSaid(<<>>, A)
  BY NothingSaid
<1>7. AllSaid(Append(<<>>, b), A) /\ AllSaid(Append(gpsRx, b), A) /\ AllSaid(Append(gpsRx, c), A)
  BY <1>3, <1>4, <1>5, <1>6, SaidAppend
<1>8. <<b>> = Append(<<>>, b)
  OBVIOUS
<1>9. gpsRx' \in {<<>>, <<b>>, Append(gpsRx, b), Append(gpsRx, c)}
  BY <1>2 DEF Gps!Parse, c
<1>10. AllSaid(gpsRx', A)
  BY <1>6, <1>7, <1>8, <1>9
<1>11. WayInv'
  BY <1>2, <1>3, <1>4, <1>10 DEF WayInv, A
<1>12. OwedInv' /\ Gps!LastMessage'
  BY <1>1, <1>2 DEF OwedInv, Gps!LastMessage
<1>13. \/ gpsSt' = gpsSt
       \/ Len(gpsRx) \notin {0, 1, 2} /\ Gps!Accept(gpsRx[3])
  BY <1>2 DEF Gps!Parse
<1>14. Gps!AnswerIsTrue'
  <2>1. CASE gpsSt' = gpsSt
    BY <1>1, <1>2, <2>1 DEF Gps!AnswerIsTrue
  <2>2. CASE Len(gpsRx) \notin {0, 1, 2} /\ Gps!Accept(gpsRx[3]) /\ gpsSt' # gpsSt
    <3> DEFINE body == gpsRx[3]
    <3>1. gpsRx \in Seq(Kinds)
      BY <1>3 DEF AllSaid
    <3>2. Len(gpsRx) \in Nat /\ Len(gpsRx) # 0 /\ Len(gpsRx) # 1 /\ Len(gpsRx) # 2
      BY <2>2, <3>1
    <3>3. 3 \in 1..Len(gpsRx)
      BY <3>2, AtLeastThree
    <3>4. gpsSt' = body.verdict /\ body.id = gpsCfg /\ body.verdict \in Gps!Verdicts
      BY <2>2 DEF Gps!Accept
    <3>5. [verdict |-> body.verdict, id |-> body.id] \in A
      BY <1>3, <3>3, <3>4 DEF AllSaid
    <3> HIDE DEF body
    <3>6. [verdict |-> gpsSt', id |-> gpsCfg'] \in gpsSaid'.answers
      BY <1>2, <3>4, <3>5 DEF A
    <3>7. gpsSt' # "TIMEOUT"
      BY <3>4 DEF Gps!Verdicts
    <3> QED
      BY <3>6, <3>7 DEF Gps!AnswerIsTrue
  <2> QED
    BY <1>13, <2>1, <2>2
<1> QED
  BY <1>11, <1>12, <1>14, PartsGps

LEMMA GpsStep == ASSUME Gps!Inv, Gps!Next \/ UNCHANGED Gps!vars PROVE Gps!Inv'
<1>1. CASE UNCHANGED Gps!vars
  BY <1>1 DEF Gps!vars, Gps!Inv, Gps!BytesAreSaid, Gps!IsSaid, Gps!LastMessage, Gps!AnswerIsTrue
<1> QED
  BY <1>1, BeginsRight, RequestRight, SendRight, AnswerGiven, BytesRight, ReceiveRight
     DEF Gps!Next

-----------------------------------------------------------------------------
\* The application of the receiving side gets the packets of a transfer in order, each once,
\* whatever the line loses and however late an answer is, for every number of packets and of
\* faults; and a request to the GPS receiver ends with an answer that it gave to a message of
\* its id, for every set of ids.
THEOREM ExchangesHold == ExchangesSpec => []ExchangesTrue
<1>1. ExchangesInit => Transfer!Inv /\ Gps!Inv
  BY TransferInit, GpsInit DEF ExchangesInit
<1>2. Transfer!Inv /\ Gps!Inv /\ [ExchangesNext]_exchangeVars => Transfer!Inv' /\ Gps!Inv'
  <2> SUFFICES ASSUME Transfer!Inv, Gps!Inv, [ExchangesNext]_exchangeVars
               PROVE  Transfer!Inv' /\ Gps!Inv'
    OBVIOUS
  <2>1. UNCHANGED xmVars => UNCHANGED Transfer!vars
    BY DEF xmVars, Transfer!vars, Transfer!sender, Transfer!receiver
  <2>2. UNCHANGED gpsVars => UNCHANGED Gps!vars
    BY DEF gpsVars, Gps!vars
  <2>3. Transfer!Next \/ UNCHANGED Transfer!vars
    BY <2>1 DEF ExchangesNext, exchangeVars
  <2>4. Gps!Next \/ UNCHANGED Gps!vars
    BY <2>2 DEF ExchangesNext, exchangeVars
  <2> QED
    BY <2>3, <2>4, TransferStep, GpsStep
<1>3. Transfer!Inv /\ Gps!Inv => ExchangesTrue
  BY TransferRight DEF ExchangesTrue, Gps!Inv
<1> QED
  BY <1>1, <1>2, <1>3, PTL DEF ExchangesSpec
=============================================================================
