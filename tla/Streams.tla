------------------------------ MODULE Streams ------------------------------
(* The byte streams that are made of something else, side by side: one on an I2C port that two    *)
(* devices share, read from a receiver that fills itself, one in full duplex on an SPI port, and  *)
(* one over the frames of CAN.  And two exchanges over a line that fails: an XMODEM transfer, and *)
(* requests to a GPS receiver.  None touches what another one keeps.  What they promise is stated *)
(* here of all behaviours, and proved in StreamsProofs.                                           *)
EXTENDS Naturals

CONSTANTS
  BusBytes, BusRxSize, BusFaults,
  FdBytes, FdLookIdle, FdWrites, FdSize, FdTxSize, FdFaults,
  CanBlocks, CanTotal, CanLengths, CanFrameSize, CanTxCount, CanRxCount, CanRxSize, CanMailboxes,
  CanSignals

\* The stream over I2C has a buffer to read into.
ASSUME BusAssumption == BusBytes \in Nat /\ BusRxSize \in Nat \ {0} /\ BusFaults \in Nat

\* A transfer over SPI has a length, and the buffer for what is sent a size.
ASSUME FdAssumption == FdBytes \in Nat /\ FdSize \in Nat /\ FdTxSize \in Nat

\* Every frame holds a byte or more, and there are frames of one byte and of the largest size.
ASSUME CanAssumption ==
  /\ CanBlocks \subseteq Nat /\ CanTotal \in Nat /\ CanLengths \subseteq Nat \ {0}
  /\ 1 \in CanLengths /\ CanFrameSize \in CanLengths
  /\ CanTxCount \in Nat /\ CanRxCount \in Nat /\ CanRxSize \in Nat /\ CanMailboxes \in Nat

VARIABLES
  \* the stream over I2C
  busUse, busState, busHw, busMade, busTook, busRunning, busPhase, busPending, busSize,
  busCount, busHead, busLeft, busClient, busTx, busExpects, busPc, busTurn, busFaulted,
  \* the stream over SPI
  fdUse, fdState, fdHw, fdMade, fdTook, fdGiven, fdHas, fdRunning, fdOut, fdSent, fdHead, fdLeft,
  fdExpects, fdClient, fdTaken, fdWritten, fdPc, fdTurn, fdFaulted,
  \* the stream over CAN
  canReady, canWritten, canPend, canTxq, canMail, canBus, canTdue, canTpc, canRxq, canBuf, canLost,
  canRdue, canRpc, canCount, canClient, canGot, canLast, canDropped

busVars ==
  <<busUse, busState, busHw, busMade, busTook, busRunning, busPhase, busPending, busSize,
    busCount, busHead, busLeft, busClient, busTx, busExpects, busPc, busTurn, busFaulted>>
fdVars ==
  <<fdUse, fdState, fdHw, fdMade, fdTook, fdGiven, fdHas, fdRunning, fdOut, fdSent, fdHead, fdLeft,
    fdExpects, fdClient, fdTaken, fdWritten, fdPc, fdTurn, fdFaulted>>
canVars ==
  <<canReady, canWritten, canPend, canTxq, canMail, canBus, canTdue, canTpc, canRxq, canBuf,
    canLost, canRdue, canRpc, canCount, canClient, canGot, canLast, canDropped>>
streamVars == <<busVars, fdVars, canVars>>

BusData == INSTANCE DeviceStream WITH
  Bytes <- BusBytes, RxSize <- BusRxSize, Faults <- BusFaults, use <- busUse, state <- busState,
  hw <- busHw, made <- busMade, took <- busTook, running <- busRunning, phase <- busPhase,
  pending <- busPending, size <- busSize, count <- busCount, head <- busHead, left <- busLeft,
  client <- busClient, tx <- busTx, expects <- busExpects, pc <- busPc, turn <- busTurn,
  faults <- busFaulted

FdData == INSTANCE SpiFdStream WITH
  Bytes <- FdBytes, LookIdle <- FdLookIdle, Writes <- FdWrites, Size <- FdSize,
  TxSize <- FdTxSize, Faults <- FdFaults, use <- fdUse, state <- fdState, hw <- fdHw,
  made <- fdMade, took <- fdTook, given <- fdGiven, has <- fdHas, running <- fdRunning,
  out <- fdOut, sent <- fdSent, head <- fdHead, left <- fdLeft, expects <- fdExpects,
  client <- fdClient, taken <- fdTaken, written <- fdWritten, pc <- fdPc, turn <- fdTurn,
  faults <- fdFaulted

CanData == INSTANCE CanStream WITH
  Blocks <- CanBlocks, Total <- CanTotal, Lengths <- CanLengths, FrameSize <- CanFrameSize,
  TxCount <- CanTxCount, RxCount <- CanRxCount, RxSize <- CanRxSize, Mailboxes <- CanMailboxes,
  Signals <- CanSignals, ready <- canReady, written <- canWritten, pend <- canPend,
  txq <- canTxq, mail <- canMail, bus <- canBus, tdue <- canTdue, tpc <- canTpc, rxq <- canRxq,
  buf <- canBuf, lost <- canLost, rdue <- canRdue, rpc <- canRpc, count <- canCount,
  client <- canClient, got <- canGot, last <- canLast, dropped <- canDropped

-----------------------------------------------------------------------------
StreamsInit == BusData!Init /\ FdData!Init /\ CanData!Init

StreamsNext ==
  \/ BusData!Next /\ UNCHANGED <<fdVars, canVars>>
  \/ FdData!Next /\ UNCHANGED <<busVars, canVars>>
  \/ CanData!Next /\ UNCHANGED <<busVars, fdVars>>

StreamsSpec == StreamsInit /\ [][StreamsNext]_streamVars

-----------------------------------------------------------------------------
\* Byte streams.  Over I2C: the port and the buffer are the transfer's while it runs, the client
\* is told of a gap before it reads behind it, and the receiver is not read past what it holds.
\* Over SPI: what the client wrote is dropped only when the device has it, and what it reads
\* follows on what it read, but for idle bytes, unless it was told.
\* Over CAN: what is read is in order, no byte twice, and a byte that is not read is on its way
\* or counted as lost.
StreamsTrue ==
  /\ BusData!PortFollowed /\ BusData!BufferIsBus /\ BusData!GapsAreTold /\ BusData!NoFiller
  /\ FdData!TakenWasSent /\ FdData!GapsAreTold /\ FdData!PortFollowed
  /\ CanData!BytesInOrder /\ CanData!LossIsCounted

-----------------------------------------------------------------------------
(* The exchanges.                                                                                 *)

CONSTANTS
  XmodemStart, XmodemPackets, XmodemFaults, XmodemRetries, XmodemLate, XmodemQueue,
  GpsIds, GpsSize, GpsRequests, GpsFaults, GpsDetaches

\* There is a packet to send.
ASSUME XmodemAssumption == XmodemPackets \in Nat \ {0}

VARIABLES
  \* the XMODEM transfer
  xmStx, xmNo, xmSfin, xmRetry, xmRtx, xmRrx, xmLast, xmRfin, xmToR, xmToS, xmFaulted, xmGot,
  xmSend, xmRecv,
  \* the requests
  gpsBuf, gpsTx, gpsPos, gpsSt, gpsCfg, gpsExpects, gpsDue, gpsRx, gpsAttached, gpsWoken, gpsOwed,
  gpsLine, gpsMade, gpsFaulted, gpsDetached, gpsSaid

xmVars ==
  <<xmStx, xmNo, xmSfin, xmRetry, xmRtx, xmRrx, xmLast, xmRfin, xmToR, xmToS, xmFaulted, xmGot,
    xmSend, xmRecv>>
gpsVars ==
  <<gpsBuf, gpsTx, gpsPos, gpsSt, gpsCfg, gpsExpects, gpsDue, gpsRx, gpsAttached, gpsWoken, gpsOwed,
    gpsLine, gpsMade, gpsFaulted, gpsDetached, gpsSaid>>
exchangeVars == <<xmVars, gpsVars>>

Transfer == INSTANCE Xmodem WITH
  Start <- XmodemStart, Packets <- XmodemPackets, Faults <- XmodemFaults,
  Retries <- XmodemRetries, Late <- XmodemLate, MaxQueue <- XmodemQueue,
  stx <- xmStx, no <- xmNo, sfin <- xmSfin, retry <- xmRetry, rtx <- xmRtx, rrx <- xmRrx,
  last <- xmLast, rfin <- xmRfin, toR <- xmToR, toS <- xmToS, faults <- xmFaulted, got <- xmGot,
  send <- xmSend, recv <- xmRecv

Gps == INSTANCE Ublox WITH
  Ids <- GpsIds, Size <- GpsSize, Requests <- GpsRequests, Faults <- GpsFaults,
  Detaches <- GpsDetaches, buf <- gpsBuf, tx <- gpsTx, pos <- gpsPos, st <- gpsSt, cfg <- gpsCfg,
  expects <- gpsExpects, due <- gpsDue, rx <- gpsRx, attached <- gpsAttached, woken <- gpsWoken,
  owed <- gpsOwed, line <- gpsLine, requests <- gpsMade, faults <- gpsFaulted,
  detaches <- gpsDetached, said <- gpsSaid

ExchangesInit == Transfer!Init /\ Gps!Init

ExchangesNext ==
  \/ Transfer!Next /\ UNCHANGED gpsVars
  \/ Gps!Next /\ UNCHANGED xmVars

ExchangesSpec == ExchangesInit /\ [][ExchangesNext]_exchangeVars

\* XMODEM: the packets arrive in order and each once, also when answers come after their
\* timeout.  A request to the GPS receiver ends with an answer it gave to a message of its id,
\* also when the transport is taken away and comes back.
ExchangesTrue == Transfer!InOrder /\ Gps!AnswerIsTrue
=============================================================================
