----------------------------- MODULE MCLinks -----------------------------
(* What brings bytes from one end to the other, for TLC: a behaviour is one of one component on an  *)
(* instance of it, so that one run checks them all.  The receiving side of the UART has variables   *)
(* of its own, which the others leave alone: a buffer of five bytes that stops the other side above *)
(* half, with room for bytes before, between and after the reads of one run, and for the two that   *)
(* still come when the other side is stopped.                                                       *)
EXTENDS UartRx, Sequences

VARIABLES
  part,        \* the component that runs, chosen once
  v1, v2, v3, v4, v5, v6, v7, v8, v9, v10, v11, v12, v13, v14, v15, v16, v17, v18, v19, v20,
  v21, v22, v23, v24, v25

\* What is left of the shared variables behind the first few of them.
Rest21 == <<v22, v23, v24, v25>>
Rest19 == <<v20, v21, Rest21>>
Rest18 == <<v19, Rest19>>
Rest16 == <<v17, v18, Rest18>>
Rest14 == <<v15, v16, Rest16>>
Rest0 == <<v1, v2, v3, v4, v5, v6, v7, v8, v9, v10, v11, v12, v13, v14, Rest14>>

allVars == <<vars, part, Rest0>>

\* What is printed, typed and refused.
LogLoads == {[prints |-> 2, commands |-> 1, lines |-> 1, refusals |-> 1, changes |-> 0]}

\* While another component runs, there is one UART.
OneUart == Init /\ control = "none" /\ ~leaves /\ ~full

-----------------------------------------------------------------------------
(* The components, each on the first of the shared variables.                *)

Bus == INSTANCE DeviceStream WITH
  Bytes <- 2, RxSize <- 1, Faults <- 1, use <- v1, state <- v2, hw <- v3, made <- v4,
  took <- v5, running <- v6, phase <- v7, pending <- v8, size <- v9, count <- v10,
  head <- v11, left <- v12, client <- v13, tx <- v14, expects <- v15, pc <- v16,
  turn <- v17, faults <- v18

Can == INSTANCE CanStream WITH
  Blocks <- {2}, Total <- 6, ready <- v18, Lengths <- {1, 2, 4}, FrameSize <- 4, TxCount <- 1, RxCount <- 1,
  RxSize <- 4, Mailboxes <- 1, Signals <- TRUE, written <- v1, pend <- v2, txq <- v3,
  mail <- v4, bus <- v5, tdue <- v6, tpc <- v7, rxq <- v8, buf <- v9, lost <- v10,
  rdue <- v11, rpc <- v12, count <- v13, client <- v14, got <- v15, last <- v16,
  dropped <- v17

Fd == INSTANCE SpiFdStream WITH
  Bytes <- 2, LookIdle <- {2}, Writes <- 1, Size <- 2, TxSize <- 1, Faults <- 1, use <- v1,
  state <- v2, hw <- v3, made <- v4, took <- v5, given <- v6, has <- v7, running <- v8,
  out <- v9, sent <- v10, head <- v11, left <- v12, expects <- v13, client <- v14,
  taken <- v15, written <- v16, pc <- v17, turn <- v18, faults <- v19

Printed == INSTANCE Log WITH
  Size <- 5, TxSize <- 3, Budget <- 1, Loads <- LogLoads, log <- v1, tail <- v2, sinks <- v3,
  pos <- v4, drops <- v5, tx <- v6, trigger <- v7, pc <- v8, cur <- v9, copy <- v10, budget <- v11, status <- v12,
  cmdDone <- v13, todo <- v14, queued <- v15, dump <- v16, printed <- v17,
  commands <- v18, refusals <- v19, changes <- v20, since <- v21, got <- v22, made <- v23,
  shown <- v24, load <- v25

Gps == INSTANCE Ublox WITH
  Ids <- {1, 2}, Size <- 2, Requests <- 2, Faults <- 1, Detaches <- 0, buf <- v1,
  tx <- v2, pos <- v3, st <- v4, cfg <- v5, expects <- v6, due <- v7, rx <- v8,
  attached <- v9, woken <- v10, owed <- v11, line <- v12, requests <- v13, faults <- v14,
  detaches <- v15, said <- v16

XmodemCrc == INSTANCE Xmodem WITH
  Start <- "C", Faults <- 2, Late <- FALSE, Packets <- 3, Retries <- 3, MaxQueue <- 3,
  stx <- v1, no <- v2, sfin <- v3, retry <- v4, rtx <- v5, rrx <- v6, last <- v7,
  rfin <- v8, toR <- v9, toS <- v10, faults <- v11, got <- v12, send <- v13, recv <- v14

XmodemNak == INSTANCE Xmodem WITH
  Start <- "NAK", Faults <- 3, Late <- FALSE, Packets <- 3, Retries <- 3, MaxQueue <- 3,
  stx <- v1, no <- v2, sfin <- v3, retry <- v4, rtx <- v5, rrx <- v6, last <- v7,
  rfin <- v8, toR <- v9, toS <- v10, faults <- v11, got <- v12, send <- v13, recv <- v14

Timer == INSTANCE TimerManager WITH
  MaxCount <- 1, Targets <- {2}, NewTargets <- {1}, IntoInt <- {1},
  IntCalls <- {"none", "restart", "stop"}, Clears <- FALSE, step <- v1, type <- v2,
  target <- v3, current <- v4, event <- v5, list <- v6, free <- v7, pending <- v8,
  ready <- v9, code <- v10, of <- v11, with <- v12, wpc <- v13, at <- v14, next <- v15,
  slot <- v16, gone <- v17, asked <- v18, goal <- v19, counted <- v20, ran <- v21

-----------------------------------------------------------------------------
(* What a component does not use stays as it is.                             *)

Zero25 == TRUE
Zero21 == v22 = 0 /\ v23 = 0 /\ v24 = 0 /\ v25 = 0
Zero19 == v20 = 0 /\ v21 = 0 /\ Zero21
Zero18 == v19 = 0 /\ Zero19
Zero16 == v17 = 0 /\ v18 = 0 /\ Zero18
Zero14 == v15 = 0 /\ v16 = 0 /\ Zero16
Zero0 ==
  /\ v1 = 0 /\ v2 = 0 /\ v3 = 0 /\ v4 = 0 /\ v5 = 0 /\ v6 = 0 /\ v7 = 0 /\ v8 = 0
  /\ v9 = 0 /\ v10 = 0 /\ v11 = 0 /\ v12 = 0 /\ v13 = 0 /\ v14 = 0 /\ Zero14

Keep0 == UNCHANGED <<part, Rest0>>
Keep14 == UNCHANGED <<part, vars, Rest14>>
Keep16 == UNCHANGED <<part, vars, Rest16>>
Keep18 == UNCHANGED <<part, vars, Rest18>>
Keep19 == UNCHANGED <<part, vars, Rest19>>
Keep21 == UNCHANGED <<part, vars, Rest21>>
Keep25 == UNCHANGED <<part, vars>>

AllInit ==
  \/ part = "timer" /\ OneUart /\ Timer!Init /\ Zero21
  \/ part = "xmodem nak" /\ OneUart /\ XmodemNak!Init /\ Zero14
  \/ part = "xmodem crc" /\ OneUart /\ XmodemCrc!Init /\ Zero14
  \/ part = "uart rx" /\ Init /\ Zero0
  \/ part = "bus" /\ OneUart /\ Bus!Init /\ Zero18
  \/ part = "spi" /\ OneUart /\ Fd!Init /\ Zero19
  \/ part = "can" /\ OneUart /\ Can!Init /\ Zero18
  \/ part = "log drained" /\ OneUart /\ Printed!Init /\ Zero25
  \/ part = "ublox" /\ OneUart /\ Gps!Init /\ Zero16

AllNext ==
  \/ part = "timer" /\ Timer!Next /\ Keep21
  \/ part = "xmodem nak" /\ XmodemNak!Next /\ Keep14
  \/ part = "xmodem crc" /\ XmodemCrc!Next /\ Keep14
  \/ part = "uart rx" /\ Next /\ Keep0
  \/ part = "bus" /\ Bus!Next /\ Keep18
  \/ part = "spi" /\ Fd!Next /\ Keep19
  \/ part = "can" /\ Can!Next /\ Keep18
  \/ part = "log drained" /\ Printed!Next /\ Keep25
  \/ part = "ublox" /\ Gps!Next /\ Keep16

-----------------------------------------------------------------------------
(* The fairness each module justifies.  A behaviour stays in one component, so   *)
(* that fairness of a disjunction over them is fairness of each.                 *)

Weak1 ==
  \/ part = "timer" /\ Timer!TickBegin /\ Keep21
  \/ part = "xmodem nak" /\ XmodemNak!SenderWorks /\ Keep14
  \/ part = "xmodem crc" /\ XmodemCrc!SenderWorks /\ Keep14
  \/ part = "uart rx" /\ Task /\ Keep0
  \/ part = "bus" /\ Bus!TaskStep /\ Keep18
  \/ part = "spi" /\ Fd!TaskStep /\ Keep19
  \/ part = "can" /\ Can!TxWorks /\ Keep18
  \/ part = "log drained" /\ Printed!Task /\ Keep25
  \/ part = "ublox" /\ Gps!TimePasses /\ Keep16

Weak2 ==
  \/ part = "timer" /\ Timer!Tick /\ Keep21
  \/ part = "xmodem nak" /\ XmodemNak!ReceiverWorks /\ Keep14
  \/ part = "xmodem crc" /\ XmodemCrc!ReceiverWorks /\ Keep14
  \/ part = "bus" /\ Bus!RunTask /\ Keep18
  \/ part = "spi" /\ Fd!RunTask /\ Keep19
  \/ part = "can" /\ Can!BusRecovers /\ Keep18
  \/ part = "log drained" /\ Printed!RetryDue /\ Keep25
  \/ part = "ublox" /\ Gps!Send /\ Keep16

Weak3 ==
  \/ part = "bus" /\ Bus!EndTransfer /\ Keep18
  \/ part = "spi" /\ Fd!EndTransfer /\ Keep19
  \/ part = "can" /\ Can!RxWorks /\ Keep18
  \/ part = "ublox" /\ Gps!Receive /\ Keep16

Strong1 ==
  \/ part = "timer" /\ Timer!Access /\ Keep21
  \/ part = "xmodem nak" /\ XmodemNak!SenderTimeout /\ Keep14
  \/ part = "xmodem crc" /\ XmodemCrc!SenderTimeout /\ Keep14
  \/ part = "bus" /\ Bus!RunOnFree /\ Keep18
  \/ part = "spi" /\ Fd!RunOnFree /\ Keep19
  \/ part = "can" /\ Can!RunTx /\ Keep18
  \/ part = "log drained" /\ Printed!Send /\ Keep25
  \/ part = "ublox" /\ Gps!CheckRequest /\ Keep16

Strong2 ==
  \/ part = "timer" /\ Timer!Walk /\ Keep21
  \/ part = "bus" /\ Bus!Reads /\ Keep18
  \/ part = "spi" /\ Fd!Reads /\ Keep19
  \/ part = "can" /\ Can!RunOnBus /\ Keep18

Strong3 ==
  \/ part = "bus" /\ Bus!OtherChecks /\ Keep18
  \/ part = "spi" /\ Fd!OtherChecks /\ Keep19
  \/ part = "can" /\ Can!Transmit /\ Keep18

Strong4 ==
  \/ part = "can" /\ Can!RunRx /\ Keep18

Strong5 ==
  \/ part = "can" /\ Can!ReadAll /\ Keep18

AllFairSpec ==
  /\ AllInit /\ [][AllNext]_allVars
  /\ WF_allVars(Weak1) /\ WF_allVars(Weak2) /\ WF_allVars(Weak3)
  /\ SF_allVars(Strong1) /\ SF_allVars(Strong2) /\ SF_allVars(Strong3) /\ SF_allVars(Strong4) /\ SF_allVars(Strong5)

-----------------------------------------------------------------------------
(* The properties, as the modules state them.  P ~> ~P is written []<>~P, which     *)
(* is the same and which TLC checks without a tableau.                        *)

\* Streams over I2C, SPI and CAN: a client gets its bytes and its own leave; what it writes to
\* the bus goes out, and what the bus delivers is taken.
StreamsPass ==
  /\ []<>~((part = "bus" /\ Bus!Waiting) \/ (part = "spi" /\ Fd!Waiting))
  /\ []<>~((part = "bus" /\ Bus!HasBytes) \/ (part = "spi" /\ Fd!HasBytes))
  /\ <>[](part = "can" => Can!AllSent /\ Can!AllTaken)

\* What a running timer has left is right, whatever the main context was writing when the
\* tick came; a timer that was removed neither runs nor finishes again, and its slot is given
\* back.
TimersEnd ==
  /\ [](part = "timer" => Timer!RemainIsRight)
  /\ [][part = "timer" => Timer!RemovedRests]_allVars
  /\ \A t \in {1} : []<>~(part = "timer" /\ Timer!Held(t))

\* XMODEM: a transfer ends, who is told that it is finished has every packet, or has sent it,
\* and the packets arrive in order on a line that spoils them.
TransferEnds ==
  /\ [](part = "xmodem crc" => XmodemCrc!InOrder /\ XmodemCrc!FinishedMeansAll)
  /\ [](part = "xmodem nak" => XmodemNak!InOrder /\ XmodemNak!FinishedMeansAll)
  /\ []<>( /\ part = "xmodem crc" => XmodemCrc!Over
           /\ part = "xmodem nak" => XmodemNak!Over)

\* What is printed goes to every output there is, and what the UART was given leaves.
LogDrains == <>[](part = "log drained" => Printed!Drained \/ Printed!DumpAstray)

\* A request to the GPS receiver ends, and with an answer that was given to it.
RequestsEnd ==
  /\ [](part = "ublox" => Gps!AnswerIsTrue)
  /\ []<>~(part = "ublox" /\ Gps!RequestOn)
=============================================================================
