----------------------------- MODULE MCDevices -----------------------------
(* What never goes wrong in a component, for TLC: a behaviour is one of one component on an        *)
(* instance of it, so that one run checks them all.  The timer manager, the lists, the log, the     *)
(* devices, the streams and the exchanges have variables of their own, which the others leave alone. *)
EXTENDS TimerManager, Lists, Printing, Devices, Streams, TLC

VARIABLES
  part,        \* the component that runs, chosen once
  v1, v2, v3, v4, v5, v6, v7, v8, v9, v10, v11, v12, v13, v14, v15, v16, v17, v18, v19, v20,
  v21, v22, v23, v24, v25

\* What is left of the shared variables behind the first few of them.
Rest24 == <<v25>>
Rest18 == <<v19, v20, v21, v22, v23, v24, Rest24>>
Rest17 == <<v18, Rest18>>
Rest16 == <<v17, Rest17>>
Rest13 == <<v14, v15, v16, Rest16>>
Rest12 == <<v13, Rest13>>
Rest11 == <<v12, Rest12>>
Rest8 == <<v9, v10, v11, Rest11>>
Rest6 == <<v7, v8, Rest8>>
Rest3 == <<v4, v5, v6, Rest6>>
Rest0 == <<v1, v2, v3, Rest3>>

allVars == <<vars, listVars, logVars, deviceVars, streamVars, exchangeVars, part, Rest0>>

Drivers == {"nor flash", "record", "pulse", "solenoid", "keypad"}
Buses == {"bus data", "spi data", "can data"}
Lines == {"xmodem late", "ublox detached"}

\* What tells two states apart: what the component that runs keeps, but for what the timers did
\* before.  The others stay as they are.
WithoutHistory ==
  CASE part = "timers" -> <<part, timers, pool, pending, call, walk, slot>>
    [] part = "ring" -> <<part, listVars>>
    [] part = "log" -> <<part, logVars>>
    [] part \in Drivers -> <<part, deviceVars>>
    [] part \in Buses -> <<part, streamVars>>
    [] part \in Lines -> <<part, exchangeVars>>
    [] OTHER -> <<part, Rest0>>

\* A channel with a buffer for two commands and one without.
Sizes == <<2, 0>>

\* Three lines beside a command of one, and one beside a command of two, with a refusal and an
\* output that is taken away.
LineLoads ==
  {[prints |-> 3, commands |-> 1, lines |-> 1, refusals |-> 0, changes |-> 0],
   [prints |-> 1, commands |-> 1, lines |-> 2, refusals |-> 1, changes |-> 1]}

\* How a capture is recorded, and which end of it is kept.
KeepsLast == {<<"buffer", "last">>}
KeepsEither == KeepsLast \cup {<<"buffer", "first">>}
EveryMethod == KeepsEither \cup {<<"log", "first">>}

\* Frames with a start byte among their data, with each of the flags, and of each length.
SbusFrames ==
  {<<1, 0, 0, 0>>, <<1, 1, 3, 0>>, <<1, 0, 1, 0>>, <<1, 0, 2, 0>>}
SumdFrames == {<<1, 2, 1, 1, 0>>, <<1, 3, 1, 1, 4>>, <<1, 2, 2, 1, 1, 3>>}
IbusFrames == {<<4, 3, 3, 0>>, <<4, 0, 4, 2>>, <<3, 4, 3>>}
CrsfFrames == {<<1, 2, 0, 0>>, <<1, 2, 1, 4>>, <<1, 3, 0, 1, 4>>}
SpektrumFrames == {<<0, 2, 1, 1>>, <<2, 2, 2, 2>>}

-----------------------------------------------------------------------------
(* The other components, each on the first of the shared variables.          *)

Dump == INSTANCE CollectSignal WITH
  Channels <- {1, 2}, Records <- 2, Text <- 2, MaxTime <- 1, Puts <- 3, Starts <- 1,
  Refusals <- 1, Changes <- 0, Settings <- EveryMethod, Switches <- FALSE, method <- v1,
  overflow <- v2, step <- v3, list <- v4, state <- v5, index <- v6, value <- v7,
  start <- v8, buffer <- v9, now <- v10, base <- v11, drops <- v12, stage <- v13,
  cursor <- v14, retry <- v15, last <- v16, held <- v17, puts <- v18, starts <- v19,
  refusals <- v20, changes <- v21, truth <- v22, cut <- v23, ended <- v24, reader <- v25

Removals == INSTANCE CollectSignal WITH
  Channels <- {1, 2}, Records <- 2, Text <- 2, MaxTime <- 1, Puts <- 1, Starts <- 1,
  Refusals <- 1, Changes <- 1, Settings <- KeepsLast, Switches <- FALSE, method <- v1,
  overflow <- v2, step <- v3, list <- v4, state <- v5, index <- v6, value <- v7,
  start <- v8, buffer <- v9, now <- v10, base <- v11, drops <- v12, stage <- v13,
  cursor <- v14, retry <- v15, last <- v16, held <- v17, puts <- v18, starts <- v19,
  refusals <- v20, changes <- v21, truth <- v22, cut <- v23, ended <- v24, reader <- v25

Switched == INSTANCE CollectSignal WITH
  Channels <- {1, 2}, Records <- 2, Text <- 2, MaxTime <- 1, Puts <- 1, Starts <- 2,
  Refusals <- 0, Changes <- 0, Settings <- KeepsEither, Switches <- TRUE, method <- v1,
  overflow <- v2, step <- v3, list <- v4, state <- v5, index <- v6, value <- v7,
  start <- v8, buffer <- v9, now <- v10, base <- v11, drops <- v12, stage <- v13,
  cursor <- v14, retry <- v15, last <- v16, held <- v17, puts <- v18, starts <- v19,
  refusals <- v20, changes <- v21, truth <- v22, cut <- v23, ended <- v24, reader <- v25

Tree == INSTANCE Bst WITH
  Keys <- 1..8, tree <- v1, it <- v2, ahead <- v3

Sbus == INSTANCE Receiver WITH
  Protocol <- "sbus", Frames <- SbusFrames, Pause <- 4, Late <- 1, MaxPeriod <- 0,
  Faults <- 1, Queue <- 6, left <- v1, frame <- v2, rest <- v3, quiet <- v4, rx <- v5,
  buf <- v6, since <- v7, age <- v8, failsafe <- v9, good <- v10, run <- v11,
  taken <- v12, faults <- v13

SbusOn == INSTANCE Receiver WITH
  Protocol <- "sbus", Frames <- SbusFrames, Pause <- 0, Late <- 0, MaxPeriod <- 0,
  Faults <- 1, Queue <- 2, left <- v1, frame <- v2, rest <- v3, quiet <- v4, rx <- v5,
  buf <- v6, since <- v7, age <- v8, failsafe <- v9, good <- v10, run <- v11,
  taken <- v12, faults <- v13

Sumd == INSTANCE Receiver WITH
  Protocol <- "sumd", Frames <- SumdFrames, Pause <- 4, Late <- 0, MaxPeriod <- 2,
  Faults <- 1, Queue <- 6, left <- v1, frame <- v2, rest <- v3, quiet <- v4, rx <- v5,
  buf <- v6, since <- v7, age <- v8, failsafe <- v9, good <- v10, run <- v11,
  taken <- v12, faults <- v13

Ibus == INSTANCE Receiver WITH
  Protocol <- "ibus", Frames <- IbusFrames, Pause <- 4, Late <- 1, MaxPeriod <- 0,
  Faults <- 1, Queue <- 6, left <- v1, frame <- v2, rest <- v3, quiet <- v4, rx <- v5,
  buf <- v6, since <- v7, age <- v8, failsafe <- v9, good <- v10, run <- v11,
  taken <- v12, faults <- v13

Crsf == INSTANCE Receiver WITH
  Protocol <- "crsf", Frames <- CrsfFrames, Pause <- 3, Late <- 0, MaxPeriod <- 0,
  Faults <- 1, Queue <- 6, left <- v1, frame <- v2, rest <- v3, quiet <- v4, rx <- v5,
  buf <- v6, since <- v7, age <- v8, failsafe <- v9, good <- v10, run <- v11,
  taken <- v12, faults <- v13

Spektrum == INSTANCE Receiver WITH
  Protocol <- "spektrum", Frames <- SpektrumFrames, Pause <- 6, Late <- 1, MaxPeriod <- 0,
  Faults <- 1, Queue <- 6, left <- v1, frame <- v2, rest <- v3, quiet <- v4, rx <- v5,
  buf <- v6, since <- v7, age <- v8, failsafe <- v9, good <- v10, run <- v11,
  taken <- v12, faults <- v13

\* Their transmitters send frames of the protocol, and all but one leave a pause.
ASSUME ReceiversInUse ==
  /\ \A f \in SbusFrames : Sbus!IsFrame(f)
  /\ \A f \in SumdFrames : Sumd!IsFrame(f)
  /\ \A f \in IbusFrames : Ibus!IsFrame(f)
  /\ \A f \in CrsfFrames : Crsf!IsFrame(f)
  /\ \A f \in SpektrumFrames : Spektrum!IsFrame(f)
  /\ Sbus!PauseIsSeen /\ Sumd!PauseIsSeen /\ Ibus!PauseIsSeen
  /\ Crsf!PauseIsSeen /\ Spektrum!PauseIsSeen
  /\ Sbus!ReadInTime /\ SbusOn!ReadInTime /\ Sumd!ReadInTime /\ Ibus!ReadInTime
  /\ Crsf!ReadInTime /\ Spektrum!ReadInTime

Ppm == INSTANCE Ppm WITH
  Channels <- 3, MaxChannel <- 4, Pulses <- {2, 3}, Sync <- 7, Threshold <- 5,
  ValidRange <- {2, 3}, Faults <- 1, sent <- v1, broken <- v2, open <- v3, faults <- v4,
  valid <- v5, step <- v6, learn <- v7, count <- v8, channel <- v9, error <- v10,
  work <- v11, taken <- v12

-----------------------------------------------------------------------------
(* What a component does not use stays as it is.                             *)

Zero25 == TRUE
Zero24 == v25 = 0
Zero18 == v19 = 0 /\ v20 = 0 /\ v21 = 0 /\ v22 = 0 /\ v23 = 0 /\ v24 = 0 /\ Zero24
Zero17 == v18 = 0 /\ Zero18
Zero16 == v17 = 0 /\ Zero17
Zero13 == v14 = 0 /\ v15 = 0 /\ v16 = 0 /\ Zero16
Zero12 == v13 = 0 /\ Zero13
Zero11 == v12 = 0 /\ Zero12
Zero8 == v9 = 0 /\ v10 = 0 /\ v11 = 0 /\ Zero11
Zero6 == v7 = 0 /\ v8 = 0 /\ Zero8
Zero3 == v4 = 0 /\ v5 = 0 /\ v6 = 0 /\ Zero6
Zero0 == v1 = 0 /\ v2 = 0 /\ v3 = 0 /\ Zero3

KeepLists == UNCHANGED listVars
KeepLog == UNCHANGED logVars
KeepDevices == UNCHANGED deviceVars
KeepStreams == UNCHANGED streamVars
KeepExchanges == UNCHANGED exchangeVars
Keep0 == UNCHANGED <<part, Rest0>>
KeepTimers == KeepLists /\ KeepLog /\ KeepDevices /\ KeepStreams /\ KeepExchanges /\ Keep0
Alone == UNCHANGED <<part, vars, Rest0>> /\ KeepLists /\ KeepLog /\ KeepExchanges
Without == UNCHANGED <<part, vars, Rest0>> /\ KeepDevices /\ KeepStreams
KeepRing == Without /\ KeepLog /\ KeepExchanges
KeepPrinting == Without /\ KeepLists /\ KeepExchanges
KeepTransfer == Without /\ KeepLists /\ KeepLog /\ UNCHANGED gpsVars
KeepGps == Without /\ KeepLists /\ KeepLog /\ UNCHANGED xmVars
KeepNor == Alone /\ KeepStreams /\ UNCHANGED <<recVars, pulseVars, valveVars, keyVars>>
KeepRecord == Alone /\ KeepStreams /\ UNCHANGED <<norVars, pulseVars, valveVars, keyVars>>
KeepEdges == Alone /\ KeepStreams /\ UNCHANGED <<norVars, recVars, valveVars, keyVars>>
KeepValves == Alone /\ KeepStreams /\ UNCHANGED <<norVars, recVars, pulseVars, keyVars>>
KeepKey == Alone /\ KeepStreams /\ UNCHANGED <<norVars, recVars, pulseVars, valveVars>>
KeepBus == Alone /\ KeepDevices /\ UNCHANGED <<fdVars, canVars>>
KeepFd == Alone /\ KeepDevices /\ UNCHANGED <<busVars, canVars>>
KeepCan == Alone /\ KeepDevices /\ UNCHANGED <<busVars, fdVars>>
Own == UNCHANGED <<part, vars, listVars, logVars, deviceVars, streamVars, exchangeVars>>
Keep3 == Own /\ UNCHANGED Rest3
Keep12 == Own /\ UNCHANGED Rest12
Keep13 == Own /\ UNCHANGED Rest13
Keep25 == Own

\* While another component runs, there is one key.
OneKey == part # "keypad" => ~keyDoubles

AllInit ==
  /\ Init /\ Tasks!Init /\ Logging!Init /\ DevicesInit /\ StreamsInit /\ ExchangesInit
  /\ \/ part \in {"timers", "ring", "log"} \cup Drivers \cup Buses \cup Lines /\ Zero0
     \/ part = "dump" /\ Dump!Init /\ Zero25
     \/ part = "dump channels" /\ Removals!Init /\ Zero25
     \/ part = "dump changes" /\ Switched!Init /\ Zero25
     \/ part = "tree" /\ Tree!Init /\ Zero3
     \/ part = "sbus" /\ Sbus!Init /\ Zero13
     \/ part = "sbus no pause" /\ SbusOn!Init /\ Zero13
     \/ part = "sumd" /\ Sumd!Init /\ Zero13
     \/ part = "ibus" /\ Ibus!Init /\ Zero13
     \/ part = "crsf" /\ Crsf!Init /\ Zero13
     \/ part = "spektrum" /\ Spektrum!Init /\ Zero13
     \/ part = "ppm" /\ Ppm!Init /\ Zero12
  /\ OneKey

AllNext ==
  \/ part = "timers" /\ KeepTimers /\ Next
  \/ part = "ring" /\ KeepRing /\ Tasks!Next
  \/ part = "nor flash" /\ KeepNor /\ Nor!Next
  \/ part = "record" /\ KeepRecord /\ Record!Next
  \/ part = "pulse" /\ KeepEdges /\ Edges!Next
  \/ part = "solenoid" /\ KeepValves /\ Valves!Next
  \/ part = "bus data" /\ KeepBus /\ BusData!Next
  \/ part = "spi data" /\ KeepFd /\ FdData!Next
  \/ part = "can data" /\ KeepCan /\ CanData!Next
  \/ part = "xmodem late" /\ KeepTransfer /\ Transfer!Next
  \/ part = "ublox detached" /\ KeepGps /\ Gps!Next
  \/ part = "log" /\ KeepPrinting /\ Logging!Next
  \/ part = "dump" /\ Keep25 /\ Dump!Next
  \/ part = "dump channels" /\ Keep25 /\ Removals!Next
  \/ part = "dump changes" /\ Keep25 /\ Switched!Next
  \/ part = "keypad" /\ KeepKey /\ Key!Next
  \/ part = "tree" /\ Keep3 /\ Tree!Next
  \/ part = "sbus" /\ Keep13 /\ Sbus!Next
  \/ part = "sbus no pause" /\ Keep13 /\ SbusOn!Next
  \/ part = "sumd" /\ Keep13 /\ Sumd!Next
  \/ part = "ibus" /\ Keep13 /\ Ibus!Next
  \/ part = "crsf" /\ Keep13 /\ Crsf!Next
  \/ part = "spektrum" /\ Keep13 /\ Spektrum!Next
  \/ part = "ppm" /\ Keep12 /\ Ppm!Next

AllSpec == AllInit /\ [][AllNext]_allVars

-----------------------------------------------------------------------------
(* The properties, as the modules state them, those of the lists, the        *)
(* devices, the streams and the exchanges in the modules that join them.     *)

\* Signals: a dump says of each channel what it was, has every channel of the capture, ends at
\* the time of the stop, and the log is held back for it alone.
DumpAsCaptured ==
  /\ [](part = "dump" => Dump!DumpIsTrue /\ Dump!HeldForDump)
  /\ [](part = "dump channels" => Removals!DumpIsTrue /\ Removals!HeldForDump)
  /\ [](part = "dump changes" => Switched!DumpIsTrue /\ Switched!HeldForDump)
  /\ [][part = "dump" => Dump!EndsWhole]_allVars
  /\ [][part = "dump channels" => Removals!EndsWhole]_allVars

\* Remote control: a frame that comes whole is handed out, whatever was lost, spoilt or added
\* before it, PPM learns how many channels there are from frames of which one is broken, and a
\* link that is lost is told of.
FramesTaken ==
  /\ [][part = "sbus" => Sbus!WholeFrameTaken]_allVars
  /\ [][part = "sbus no pause" => SbusOn!WholeFrameTaken]_allVars
  /\ [][part = "sumd" => Sumd!WholeFrameTaken]_allVars
  /\ [][part = "ibus" => Ibus!WholeFrameTaken]_allVars
  /\ [][part = "crsf" => Crsf!WholeFrameTaken]_allVars
  /\ [][part = "spektrum" => Spektrum!WholeFrameTaken]_allVars
  /\ [][part = "ppm" => Ppm!HandsOutFrames]_allVars
  /\ [](part = "sumd" => Sumd!FailsafeTold)
  /\ [](part = "ppm" => Ppm!LearnsRight)

\* The tree is the ordered set of its keys and in balance, a walk sees every key, also one that
\* erases on its way, and clearing frees every node once.
TreeKept ==
  part = "tree" => /\ Tree!TreeIsSet /\ Tree!Balanced
                   /\ Tree!WalkSeesAll /\ Tree!ClearsAll
=============================================================================
