# A verification project for PIF

PIF (Platform Independent Framework) is a C framework for microcontrollers: a
cooperative task scheduler and the drivers, protocols and buffers built on it.
This directory holds TLA+ models of it, the TLC runs that check them, and
theorems about them with proofs for TLAPS.

All paths below are relative to `src/`. The C sources are under `source/` (and
`gpl/source/`), their headers under `include/`.

## How PIF works

Everything runs in one main context that calls `pifTaskManager_Loop()` for ever.
A pass of the loop runs the timer callbacks, selects at most one task and runs it
to its end; a task that is running cannot be interrupted by another one. The
other actors are interrupts. The platform tells PIF things by calling functions
named `sig...` (often from an interrupt), PIF asks the platform for things with
callbacks named `act...`, and tells the application with callbacks named `evt...`.
The main context and the interrupts share plain fields: there are no locks but the
ones a ring buffer can be given, so what can go wrong is the order of single
reads and writes.

| Part | State it keeps | Who calls it | What makes it correct |
| --- | --- | --- | --- |
| Task manager, task (`core/pif_task_manager.c`, `core/pif_task.c`) | ring of tasks and its position, timer callbacks, realtime task, cut in, safety margin, per task period, trigger, delay, refusals | main loop; triggers also from interrupts | the realtime release is not delayed by a run that "fits"; nobody is held back for ever; no trigger is lost or released early |
| Object array (`core/pif_obj_array.c`) | list of used nodes, free list | every part, also from callbacks that run while the list is walked | a node is on one list; walking survives changes |
| Ring buffer (`core/pif_ring_buffer.c`) | head, write head, tail, claim | one writer and one reader, one of them in an interrupt | bytes come out in order, once, and are not dropped while claimed |
| Timer manager (`core/pif_timer.c`, `pif_timer_manager.c`) | counters of the timers, pending events | tick interrupt, and the task of the manager | a finished timer is told once, in order, and not after it was stopped |
| Log (`core/pif_log.c`) | log buffer, positions of the outputs, command line and dump state | anyone prints, also interrupts; its task drains | pieces stay whole and in order for each output, what gives way is counted, what is printed drains |
| Sequence (`core/pif_sequence.c`) | state, step, delay, signal | its task; start and stop from others, the signal from an interrupt | a pending step runs when due, a signal raised since the wait began is seen |
| UART (`communication/pif_uart.c`) | transmit and receive state, flow control | main, and interrupts for bytes, DMA and flow | no lost wakeup: bytes waiting are sent, bytes received are handed on |
| I2C, SPI, CAN, device buses | transfer state, timeout, queue | main, and completion interrupts | a late completion does not finish the next transfer |
| XMODEM, Modbus, MSP (`protocol/`) | parser state, packet number, timeouts, retries | main | a repeated or late packet is not delivered twice; every exchange ends |
| Receivers (`rc/`), GPS (`gps/`, `gpl/source/gps`) | parser state, failsafe; requests to the GPS receiver | main | a frame is whole or dropped; silence is noticed; a request ends with its own answer |
| Inputs (`input/`, `sensor/`), outputs (`display/`, `actuator/`, `sound/`, `control/`) | debouncing and pattern states | main, some interrupts | states follow the input, patterns end |
| Storage (`storage/`) | position and unit of a record, whether an erase runs | main | a call that returns `TRUE` did what it says |
| Monitor (`monitor/`) | records of signals, position in the dump | main | the dump says what the signals were |
| Containers, codecs (`core/`, `codec/`) | lists, tree, buffers | main | the data structure invariant |
| Filters, chip drivers, LCDs | coefficients, registers | main | numeric or register level, not modelled |

### How the parts meet, and what is hard about it

- *Main and interrupts share fields without a lock.* A trigger of a task, the counters
  of a timer, the heads of a ring buffer and the states of a UART are read by one side
  and written by the other; an interrupt may come between any two accesses, but is
  over before main goes on. Typical hazards: a test and the store it decides; a
  flag cleared after the list it announces was walked; a 32 bit value half written.
- *Wakeups.* A task that only triggers release must be triggered by whoever leaves it
  something to do, or go on by the period its run returns. A byte that comes between
  "nothing left" and the end of the run must not be forgotten. The UART tasks, the
  manager of the timers and the cut in live by this.
- *Time read once and used later.* The scheduler decides by a reading of the pass, while
  timer callbacks run and interrupts set triggers later than it. Differences of
  unsigned readings wrap when the order is not the expected one.
- *Callbacks change what is being walked.* Finish callbacks add, start and remove
  timers, loops remove tasks.
- *The realtime task against the rest.* Runs that do not fit wait, but not for ever: the
  release has to be protected and nobody starved, which pull in opposite directions.
- *The other side of a line.* It may be stopped, be slow to stop, and be let go on only
  by a message that itself needs room; a half duplex line must be given back in time
  and not too early. Protocols above have late and repeated answers and time outs.

`PROJECT.json` lists these hazards at their lines, with the properties that watch
each, or why none does yet.

## Modules

| Module | Models | Uses |
| --- | --- | --- |
| `TaskManager` | a pass of the loop, the slack rule, and what interrupts and the application do between its steps | |
| `TaskTrigger` | the trigger of one task, set and tested access by access, and the timeouts that share it | |
| `TaskRing` | the lists of tasks and timer callbacks, changed by the loops and callbacks the pass walks over | |
| `ByteQueue` | what a ring buffer promises its writer and its reader (abstract specification) | |
| `RingBuffer` | the ring buffer, at the accesses the two sides share | `ByteQueue`, as what it implements |
| `TimerManager` | timers, their manager, and the pool of `pif_obj_array.c` they live in | |
| `UartRx` | the RX task against the interrupt that puts bytes, and the flow control towards the other side | |
| `UartTx` | the TX task against the interrupt that takes bytes, the flow control from the other side, the half duplex line | |
| `Xmodem` | a sender and a receiver with their applications, and the line that loses and spoils | |
| `Modbus` | a master and its slaves on one line, RTU and ASCII | |
| `Msp` | a client that answers the questions of a host, its parser and its answer buffer | |
| `DeviceStream` | a GPS receiver read as a byte stream over an I2C port it shares | |
| `SpiFdStream` | a device that is sent to and read from in full duplex, on an SPI port it shares | |
| `CanStream` | a byte stream over CAN, from the client that writes to the client that reads | |
| `Log` | the log buffer, its task and outputs, the prompt of the command line, a dump | |
| `Sequence` | steps with delays, waits and a signal, started and stopped by anyone | |
| `Solenoid` | the deadlines of several solenoids on one trigger | |
| `NorFlash`, `FlashRecord` | a busy SPI NOR flash; a record in MCU flash across failures and restarts | |
| `HcSr04`, `Pulse` | a range sensor, and a pulse measurement, each against the interrupt of its edges | |
| `Keypad` | a key under scans that come late | |
| `Devices` | the drivers `NorFlash`, `FlashRecord`, `Pulse`, `Solenoid` and `Keypad` side by side, each on variables of its own, and what they promise | the five, by `INSTANCE` |
| `Streams` | the streams over I2C, SPI and CAN side by side, an XMODEM transfer and requests to a GPS receiver side by side, and what they promise | `DeviceStream`, `SpiFdStream`, `CanStream`, `Xmodem`, `Ublox`, by `INSTANCE` |
| `Releases` | a trigger, a sequence and a range sensor side by side, and what they promise: a release in time, of what was measured | `TaskTrigger`, `Sequence`, `HcSr04`, by `INSTANCE` |
| `Protocols` | a Modbus line and an MSP client with its host side by side, and what they promise | `Modbus`, `Msp`, by `INSTANCE` |
| `Ublox` | requests to a GPS receiver and their answers | |
| `Lists` | the lists of `TaskRing` on variables of their own, and what a pass over them promises | `TaskRing`, by `INSTANCE` |
| `Printing` | the log on variables of its own, and what it promises | `Log`, by `INSTANCE` |
| `CollectSignal` | signals recorded and printed as a VCD dump, against a reader of the dump | |
| `Bst` | the balanced search tree and its iterators | |
| `Receiver`, `Ppm` | the serial receivers of a remote control on a bad line, and the one of pulses | |
| `MCTaskManager`, `MCRingBuffer` | instances for TLC | the module named |
| `MCDevices`, `MCProtocols`, `MCLinks` | instances of all the others, one component per behaviour | `MCDevices` extends `TimerManager`, `Lists`, `Printing`, `Devices` and `Streams`, `MCProtocols` `UartTx`, `Releases` and `Protocols`, `MCLinks` `UartRx`; the others by `INSTANCE` |
| `TaskManagerProofs`, `RingBufferProofs`, `TimerManagerProofs`, `LinksProofs`, `UartTxProofs`, `ReleasesProofs`, `DevicesProofs`, `StreamsProofs` | theorems and their proofs; those of `Lists` are in `TimerManagerProofs`, those of `Printing` in `ReleasesProofs`, those of `UartRx` and `Protocols` in `LinksProofs`, those of `Receiver` in `DevicesProofs` | the module named, TLAPS |

The models keep the order of the accesses that two actors share, and cut an
operation only there: a stretch of main code between two shared accesses is one
action, and so is a whole interrupt (nothing interrupts it). `PROJECT.json` maps
every definition to the lines it stands for. Some definitions are variants of
another one with a plausible bug, kept right above it and marked "Mutated"; they are
not part of the specification, and show that a property would notice. A few
properties that the code does not have are kept for the reader and say "Not checked
by a run" with the reason; the section "Seen while modelling" names them.

The UART modules count bytes instead of keeping them: that bytes come out in order
and once is the question of `RingBuffer`, which they lean on.

### TaskManager

Time is kept as ages: the code stores readings of the 1 us timer and uses only
differences of them, so the model keeps the difference of each reading to the
present, which grows with every `Tick` up to `Cap`. Where the code's unsigned
difference would wrap because a reading is later than another, the model's is
negative, and `DueByPeriod` and `Expired` say what the code makes of it.

The actions follow `pifTaskManager_Loop()`: `LoopRead` takes the reading and the
slack; `TimerStart`, `TimerRefused` and `TimerEnd` are the timer callbacks with
the reading after each; `SelectCutin`, `SelectRealtime` and `StartRing` are the
three ways on from there; `VisitTriggered`, `VisitTriggerRefused`, `VisitDue` and
`VisitIdle` are one visit of the ring; `Dispatch` and `RunEnd` are the parts of
`_processingTask()` before and after the loop of the task; `IdleStart`,
`IdleSkipped` and `IdleEnd` are `_processingIdle()`. Between any two of them, also
inside a run, interrupts set triggers and cut ins (`SetTrigger`,
`SetCutinTrigger`), a run pauses, resumes, restarts or cancels tasks and declares
the length of its next run, and time passes (`Tick`): up to `MaxRun` in a run,
up to `Cost` from the reading to the dispatch. Which of these happen is the
`client` chosen in the initial state, one of `Clients`.

How long a run is judged to take is the longest of a moving window of runs in the
code (`pifTask_UpdateBlockTime`); the model allows any value from the run just
measured to the estimate before it, which includes what the window gives.

### RingBuffer and ByteQueue

`buf`, `head`, `tail`, `putHead`, `claim` and `putting` are the fields of
`PifRingBuffer`. A put is `PutCheck` (is there room), `Chop` (`_chopOff()` with the
policy chosen for the buffer), and per byte `Store` and `Publish`; the put session is
`BeginPutting`, `CommitPutting`, `RollbackPutting`. The reader has `GetBytes`,
`GetReadPointer` with `Remove`, `Empty`, and `pifRingBuffer_GetFillSize()` as its two
unlocked reads `ReadHead` and `ReadTail`. `writerIsr` says which side is the
interrupt: that side finishes its call before the other goes on. The buffer is
modelled with its lock, as `pifRingBuffer_AttachActLock` gives it; sections under the
lock are one step. `handed` is history: what the reader was given in place.

`ByteQueue` is a sequence, a hidden put session and the count of claimed bytes; the
mapping takes the bytes from `tail` to `head` and from `head` to `putHead`.

### TimerManager

`step`, `type`, `target`, `current`, `event` are the fields of `PifTimer`; `list` and
`free` are the two lists of the object array, `ready` says whether the storage is
there. Calls of the main context (`Add`, `RemoveTimer`, and `Start`, `Reset`, `Stop`,
`SetTarget` as the codes `StartCode` ... that `Access` steps through) may be cut by
the tick between any two accesses, and a 32 bit store by the tick between its two
halves (`Torn`). The walk of `_doTask()` is `WalkBegin` to `WalkReturn`, with
application calls at `"call"`; the tick handler takes one slot at a time (`TickPass`,
`TickIdle`, `TickCount`, `TickFinish`). `gone`, `asked`, `goal`, `counted`, `ran` are
history for the properties.

### UartRx and UartTx

`UartRx` keeps the fill size of the receive buffer, `rx_state`, `rx_taken`, the
trigger of the RX task and `fc_state`; `peer` is what the other side believes. The
task is `Release`, `FlowControl`, `Receive` and `ParseEnd` (the client), `KeepPolling`
or `GoIdle` with `CheckBuffer` after it, or `StayIdle`, then `RunEnd`. `PutRx` is the
interrupt, `AbortRx` the application.

`UartTx` keeps the fill size of the transmit buffer, `tx_state`, `fc_state`, the
direction of the line with `dir_auto`, `dir_wait`, and the trigger of the TX task as
the byte times until it releases it. The task is `Release`, `TestBlocked`, `Send` or
`SendNothing` (the client), `ReadFill`, `MarkSending`, `Start` or `StartRefused`, and
the four ends of `_checkTurnaround()`. The hardware is a transfer that runs (`on`),
a block it was handed, and up to `Depth` bytes that have left the buffer but not the
UART (`wire`); `GetTxByte`, `StartGetTxData`, `MoveByte`, `EndGetTxData` are its
interrupts, and each `Tick` puts one byte on the line.

### TaskTrigger and TaskRing

`TaskManager` sets and tests a trigger in one step. `TaskTrigger` cuts both: `SetTrigger`
is the three stores of `pifTask_SetTrigger()` (`flag`, `delay`, and the time, here an
`age`), with `_triggerBefore()` as `TriggerBefore`; `Read`, `TestFlag`, `TestDelay`,
`TestNow`, `Clear` and `Check` are the reads of a visit in `pifTaskManager_Loop()` and the
look at the timeouts. `Interrupt` sets the trigger between any two of them. Two
timeouts (`Start`, `Stop`) share the trigger of their task, as in `pifTaskTimeout_...`.

`TaskRing` keeps `tasks` and `timers` as the lists of the two object arrays, with what
the scheduler remembers of them: the ring position `current`, the cut in, the next node
of the timer walk, the count read at the top of a pass. `Top`, `CallTimer`,
`TimerReturns`, `Select`, `Visit`, `Return` and `NoneDue` are the pass; a loop or a callback that is
running may add and remove tasks and timer callbacks, set triggers and cut ins.
The period a loop returns is a trigger for its task, `owner`, written when the run is over; `asked`
has the tasks whose release somebody asked for since they were added, so that a trigger that falls
to the next task in a node shows.
What is removed leaves its list as in `pifObjArray_Remove()`, which takes one node out (`Unlink`).
`Rules` are what an application keeps to: a trigger or a cut in is cancelled before its task
is removed (`"cancel"`), a timer callback neither adds nor removes timer callbacks
(`"timers"`) nor removes the last task (`"last"`), and a loop that has removed its own task adds no
other one (`"slot"`). None of the four is checked by the code, and without any one of them TLC finds
a pass on no node, a run of a removed task, or a trigger that belongs to the task before.

### Xmodem, Modbus, Msp

`Xmodem` has the fields of two `PifXmodem` (`stx`, `rtx` are the transmit states, `rrx` the
receive state, `no`, `last` the packet numbers, `retry`), the applications of
`test_pif_transport.c` on them, and the two directions of the line, `toR` and `toS`. The
sender is `SenderReads`, `SenderSends`, `SenderTimeout`; the receiver `ReceiverReads`,
`RxTimeout`, `StartTimeout`, `ReceiverSends`; the line may `Lose` the oldest message or
`Spoil` it. A packet that is cut short takes in what comes next, and the receiver purges.

`Modbus` has the master's state, and of each slave what it makes of a frame.
`MakeRequest`, `SendRequest`, `RequestOut`, `Check` and `Timeout` are the master;
`HearRtu` and `HearAscii` are the parsers of the slaves, which hear each other's
answers: in RTU the end of a frame follows from its contents, so a slave has to
follow frames that are not for it and gets out of step by one that is spoilt until
`Silence` resets it. `SendAnswer` is the slave's task, `SlowAnswer` one that takes long.

`Msp` has the parser's state, the packet and the answer buffer of `PifMsp`. `HostSends`
puts questions on the line without waiting for answers; a byte may break. `Begin` and
`Send` are the task that hands an answer to the transport, `Held` an answer made while
another one is on its way.

### DeviceStream, SpiFdStream and CanStream

`DeviceStream` is `pif_ubx_ddc_stream.c` on `pif_device_stream.c` on `pif_i2c.c`. `use` and
`state` are the port's, `hw` is the transfer the bus is really at. `EndTransfer` is the interrupt at the end of a transfer, `Release` the end of
the port's use, `RunTask` and the `Poll` actions the task (ask how much there is, read it,
hand it to the client), `Parse` the client, `StartOne` another driver's transfer and
`OtherChecks` its look at the result; `Attach`, `Detach`, `HasToSend` and `Clear` are the
application. Bytes are numbered by the receiver that made them, so that a byte lost or
read twice shows.

`SpiFdStream` is `pif_spi_fd_stream.c` on the same `pif_device_stream.c`, and on `pif_spi.c`. Every
transfer (`Start`) carries what the client wrote and reads as many bytes. A port of SPI has no
`act_recover`: `Release` gives the port up after the timeout while `hw` is still at the transfer,
`Begin` is refused until it is over (a bus that can be asked while it is busy is in "Seen while
modelling"), and `EndTransfer` then comes late. `Exchanged` is the device, which has taken in all of
what was sent, or some of it. The bytes of both ways are numbered; `has` and `expects` say what the
device and the client have of them.

`CanStream` goes from the client that has blocks to send, triggers the TX task for each
(`TriggerSend`) and writes (`Write`), through the queue of frames, each of which triggers the task too
(`Hand`, `Flush`, `RunTx`), the mailboxes of the controller and the bus (`Transmit`,
`BusOff`, `BusRecovers`) to the interrupt and the RX task (`RunRx`, `Take`, `RxDone`) of the other
side. A frame is its first byte and its length.

### Log

The log buffer is a sequence of pieces whose positions are their numbers; `tail` is the
oldest still stored, `pos` how far each output is, `drops` what it was told it lost.
`PrintLine` may come at any step (any context prints); `Typed` and `KeyStops` are what
comes in by the UART; the task is a run of `DrainSkips`, `DrainPauses` and the actions that copy
and write one piece, the command with its prompt, and the dump. `RetryDue` is the delayed
trigger after an output refused, `Send` the UART taking from its transmit buffer. `since`, `got`, `made`
and `shown` are history: what an output was given since it was added, and the texts of the last command that went out.

### Sequence, Solenoid, Keypad

`Sequence`: `Poll` and `Return` are the two ends of the task's run, the step in between
picks what follows it (`Next0`, `Delay`, `Wait`); `Start` and `Stop` come from the step or from
outside, `Signal` from an interrupt.

`Solenoid`: `end` and `wait` are what is left to each channel's deadlines, `trigger` what is left to
the release of the one task. `DoTask` is a run, up to `Late` after it was due; `Enqueue`,
`ActionOnDir`, `ActionOff`, `SetInvalidDirection` are the calls.

`Keypad`: one action, `Scan`, is a pass of the task over one key; the key may change between any
two scans and the time between them varies. `doubles` is whether the application takes double presses and stays; `down`, `run`,
`told`, `certain`, `possible`, `reported` are history: what the scans saw and what the client was told.

### NorFlash and FlashRecord

`NorFlash`: `busy`, `wel` and `cell` are the device, `erasing` is what the driver remembers of it. A call goes through `Free`, `WriteEnable`, `Read`, `ProgramPage`,
`EraseCommand`, `WaitReady` to `Finish` with its answer; a transfer may fail
(`TransferFails`; the status read of `_writeEnable()` fails with the latch set) and a wait may end without the device (`WaitTimesOut`).

`FlashRecord`: `mem` is the region, `position` and `fill` are the writer's. `Begin`, `Write` and
`End` are the calls, in each of which an erase or a program may fail or the power go;
`Restart` is what is left then.

### HcSr04 and Pulse

`HcSr04` cuts the task at its accesses (`DoTask`, `Report`, `Fire`, `StopDrops`) against the two edges of
the echo (`Rise`, `Fall`) and the timer of the timeout (`Expire`). The scheduler is there as
what it does to this task: it takes a trigger before it looks at the pause.

`Pulse` keeps the ring of edges with its sequence number; `Read` takes one field at a time
and `Check` compares the number again, edges (`Rising`, `Falling`) come between any two. The
number is a `uint8_t`: what is compared is what is left of it after `Wraps`, and `InTime` is the
bound that fewer than 256 edges come while the fields are read once.

### Ublox and CollectSignal

`Ublox`: `Begins` and `Fails` start a request or find no room, `Send`, `TimePasses` and
`CheckRequest` take it through the states of the driver, the receiver answers (`Answer`), the
line spoils (`Spoil`), the parser reads (`Receive`), the transport goes and comes (`Detach`,
`Attach`).

`CollectSignal`: `Put` records a change of a channel by the method of the capture, `Start` and
`Stop` bound it (`PrintHeader` is the header of `CSM_LOG`, any line of which the log may refuse), `Change` switches the method between two captures, `Pass` is a run of the task that prints one line after another, each of which the
log may refuse (`Refused`). `reader` is a program that reads the VCD dump, and `truth` what the
signals really were.

### Bst

`tree` has the two children, the parent and the height of each node; `Add` and `Remove_` are the
operations with their rotations, `Walk`, `Step` and `EraseStep` an iterator that erases on its
way. It is sequential: every order of calls on eight keys is run.

### Receiver and Ppm

`Receiver` is five parsers in one module, as they differ in little: a record for each (`Sbus`, `Sumd`,
`Ibus`, `Crsf`, `Spektrum`) says which bytes begin a frame, where its length is, what is checked, what
becomes of a byte that is wrong in its place and of a frame that fails its check. A byte is one of five
values, a frame three to six of them, and a checksum is a sum. `Read` is one turn of the loop of
`_evtParsing()`: `Open` is the look at the time since the last byte, `IsWrong` and `IsFull` the
places where a byte is looked at, `Process` a frame that passed, `Collect` anything else. `Start` and
`Arrive` are the transmitter, `Lose`, `Spoil` and `Noise` the line, and the task of the UART leaves a
byte for up to `Late` ticks. `buf` is the buffer with its index, `age` and `since` are the times
`_last_frame_time` and `__last_time` lie back.

`Ppm` has the steps of `PifRcPpm` (`step`, `learn`, `count`, `channel`); `Edge` is
`pifRcPpm_sigTick()` with the time since the last edge. The transmitter sends a frame edge by edge, of
which one may be `Lost` or `TooMany`.

## Runs

| Run | Question | Result |
| --- | --- | --- |
| `MCTaskManagerRequests` | a realtime task with a period and an external one under four clients: triggers with and without delay, cut ins of both, an application that pauses, resumes, restarts, cancels and declares, an idle callback | a run that fits leaves the release alone (`SlackProtectsRelease`); a run that does not is held back within a bound (`HeldBackBounded`); no delay is cut short (`NotReleasedEarly`); no request is dropped (`RequestsKept`) |
| `MCTaskManagerFair` | a periodic task and a timer callback beside the realtime task, both too long for most of the slack, with fairness | both run (`DueTaskRuns`, `TimersRun`) |
| `MCTaskManagerRearm` | a realtime task without a period that triggers itself with a delay in every run | `DueTaskRuns` is **violated**: finding 1 |
| `MCRingBuffer` | every overflow policy, either side in the interrupt | it is a byte queue (`IsByteQueue`); bytes handed out stay (`HandedStay`); the writer does not lap the reader (`NeverLapped`); whole records are dropped (`DropsWholeRecords`); the unlocked fill size is honest without a policy (`FillIsThere`) |
| `TimerManagerIntRemove` | a timer removed by its callback in the interrupt while main starts it over | `NoFinishAfterRemove` is **violated**: finding 2 |
| `MCDevices` | what never goes wrong, on an instance of each component | see below |
| `MCProtocols` | what is released and answered is so in time and by its own answer, and under fairness it comes: the sending UART, triggers, sequence, range sensor, Modbus, MSP | see below |
| `MCLinks` | bytes get from one end to the other: the receiving UART, the streams over I2C, SPI and CAN, XMODEM, the log, GPS requests; and timers end | see below |
| `XmodemCancel` | a receiver that cancels while EOT is on its way | `CancelEnds` is **violated**: finding 3 |
| `CanStreamPending` | a client of a CAN stream that triggers the TX task for each block it has, on a controller without a signal of a frame that is out | `BytesLeave` is **violated**: finding 4 |
| `HcSr04Stop` | a range sensor that is stopped while the echo has its task triggered: the task fires a new pulse, whose echo is reported | `StopIsFinal` is **violated**: finding 5 |
| `LogDump` | lines printed while a dump waits | `DumpInBuffer` is **violated**: finding 6 |

`MCDevices`, `MCProtocols` and `MCLinks` hold several components that do not interact. A
behaviour is one of one component: `part` chooses it in the initial state and stays.
The modules that are extended have variables of their own (in `MCDevices` also the groups
`Lists`, `Printing`, `Devices` and `Streams`, in `MCProtocols` `Releases` and `Protocols`, so that theorems can be stated of the property the run
checks), the others are
instances on the shared variables `v1`, `v2`, ..., of which those a component does not use
stay as they are. Nothing is lost by it: the states of a run are the sum of those of its
components, and a property of the run is a conjunction of properties of the
modules, each under `part = ...`. As a behaviour stays in one part, fairness of a disjunction
over the parts is fairness of each. A leads-to of the form `P ~> ~P` is
written `[]<>~P` there, which is the same.

| Property | What it says |
| --- | --- |
| *`MCDevices`* | |
| `TimersKept` | no expiry is left behind, the walk of the timer task stays in the list, the tick never walks storage that was freed |
| `NoStrayRun` | a pass never stands on no node, a removed task is not run, no pointer is left to it, and no trigger falls to the task added in its place |
| `ExchangesTrue` | XMODEM packets arrive in order and once, also when answers come after their timeout; a GPS request ends with an answer the receiver gave to a message of its id, also when the transport goes and comes back |
| `StreamsTrue` | I2C: port and buffer are the transfer's while it runs, a gap is told before it is read past, no filler bytes are read. SPI: what the client wrote is dropped only when the device has it, what it reads follows on what it read unless it was told. CAN: in order, none twice, a loss is counted |
| `ValvesInTime` | no deadline of any channel is passed by more than the task's lateness, a queued command waits for the moment it was asked for, none comes back after a switch off |
| `AnswersAreTrue` | a flash call that returned TRUE did what it says; a record that ended well is there whole, across failures and restarts |
| `Consistent` | a pulse measurement is about edges of one signal |
| `LogKept` | each output gets the pieces in order, once or counted as lost; the output of a command is in order, with the prompt last |
| `DumpAsCaptured` | what the VCD dump says of a channel is what it was; it has every channel of the capture, ends at the time of the stop, and the log is held back for it alone |
| `FramesTaken` | a remote control frame that comes whole is handed out, whatever was lost, spoilt or added before it; PPM hands out nothing else, and learns its channels from two frames of which one may be broken; a lost link is told of |
| `PressesTold` | key events follow each other as documented, and each press that lasts is told of once |
| `TreeKept` | the tree is the ordered set of its keys and in balance, an iterator sees every key, also one that erases, clearing frees each node once |
| *`MCProtocols`* | |
| `MarkIsTrue`, `TxAwake` | the mark of the transmit state is that of a transfer, bytes that may go have somebody about to send them |
| `LineDriven` | a half duplex line is driven until the last byte |
| `LineServed` | bytes that may go do, and a half duplex line is given back |
| `ReleasedInTime` | a timeout that runs has a trigger due no later than it; a step of a sequence is released when due, a signal since the wait began is seen; a distance is that of one echo |
| `ReleaseHappens` | a release an interrupt asked for happens, a step that is pending runs |
| `AnswersAreOwn` | a Modbus request that ends well ends with its own answer, two stations never talk at once; MSP answers leave whole, in order and once |
| `MastersAnswered` | every Modbus slave answers again and again |
| `AnswersLeave` | an MSP answer leaves however the next packet breaks off |
| `EchoesMeasured` | measuring goes on whatever edges are missed |
| *`MCLinks`* | |
| `RxAwake`, `PeerGoesOn` | no byte is left in the receive buffer, the other side is let go on |
| `StreamsPass` | bytes of the receiver reach the client, what is to be sent goes out, over I2C, SPI and CAN |
| `TimersEnd` | what is left of a timer is right between any two stores; a removed timer rests and is freed |
| `TransferEnds` | an XMODEM transfer ends, and finished means all packets, in order |
| `LogDrains` | what is printed reaches every output and leaves the UART |
| `RequestsEnd` | a GPS request ends, with an answer that was given to it |

### Bounds

- *TaskManager*: realtime period 4, periodic task 3, delays 2, the longest run of the
  other task 2, `Cost` 1, margin 1 to 2. A run of 2 with the margin fits early in a
  realtime period and not late in it, so fits, refusals and lapses all happen, and
  the margin moves both ways. `Cap` 10 is above `2 * 4 + 1`, past every age that is compared;
  an age that stops there compares as the real one would. The idle age stops
  at `IdlePeriod` for the same reason. One timer callback, with a bound of two
  refusals; the tasks have no bound of their own (`max_skip` 0, a time).
- *TaskTrigger*: two timeouts of 1 and 2 ticks, so that each may be the earlier one;
  `Far` 3 is past both. Triggers of interrupts have no delay (see "Seen while modelling").
- *TaskRing*: two tasks and two timer callbacks: of each list the head, the end and a list that becomes
  empty; with two of each, every one of the four rules is needed. Three tasks and one timer
  callback, a neighbour on either side of what is removed, hold as well.
- *RingBuffer*: four slots hold three bytes, so that three bytes fill the buffer
  and a put of two wraps; puts of up to four bytes include one that can never fit;
  records of two bytes are shorter than the buffer and longer than a byte. Two
  bytes, one of them the character of the policy. Byte values are not symmetric.
- *TimerManager*: one timer that finishes in the interrupt shows every interleaving of a call
  with the tick (`MCLinks`), two in the task show the lists (`MCDevices`). Counts of 1
  and 2 reach the last tick, the one before, and a reload with a changed count. `MCDevices` has a `VIEW`:
  the variables of the component that runs, but for what the timers did before (`history`). The others keep their first
  value, and no step depends on that history, and no property of that run.
- *UartRx*: five bytes, stopped above half, two bytes still in flight: bytes come
  before, between and after the reads of a run, and the buffer can overflow.
- *UartTx*: three bytes of buffer, frames of one and two, a data and a shift
  register (`Depth` 2), `dir_delay` 3, three calls that send (`Frames`): a frame can
  follow into each phase of the one before it. A wait may be over one byte time too early
  (`Short` 1): `_transfer_time` is cut off to whole microseconds (`pif_uart.c:308`), so a wait of a few of
  them is short by less than one. Where the baud rate divides 10,000,000 `Short` is 0 and the
  default `dir_delay` of 2 covers `Depth` 2; with a remainder and a hardware that
  holds two bytes it has to be 3 (with `DirDelay` 2 and `Short` 1 TLC finds a line given back under its last byte). All kinds of UART but one, see
  "Seen while modelling".
- *Xmodem*: three packets, two or three faults, two starts (CRC and checksum); with answers that
  come late, two packets and one fault. `Retries` 3 is the code's. `MaxQueue` 3 messages
  on their way, 2 where answers come late: one that is late and one that is early.
- *Modbus*: two slaves, five polls (each kind of request, to a slave that answers, to all, with a
  function nobody has), two faults: one spoilt frame and one more while a slave is out of step.
- *Msp*: three questions, an answer buffer of two answers and one unit (`Room` 7, `Size` 3), so that a
  third answer finds no room; two faults. The transmit task runs by its period (`Periodic`).
- *DeviceStream*: four bytes in reads of two, two faults (two bytes in reads of one and one fault for
  liveness). *SpiFdStream*: two bytes each way, the second byte of the device being the idle byte, transfers of
  two, one fault (one byte to send for liveness): a transfer that is half full, one that looks empty, and one that
  ends late. *CanStream*: seven bytes, which the client has in
  blocks of three and four (six in blocks of two for liveness), in frames of up to four, writes of 1, 2 and 4, a queue of one
  frame to send, two mailboxes: blocks that end in a frame, at its end, and behind it.
- *Log*: a log buffer of five, a transmit buffer of three, one piece per run; three prints beside a
  command of one line, and one beside a command of two, with a refusal and an output that is removed and added
  (`Loads` names what a behaviour may have of each). The size is assumed to hold the longest piece, as
  `_initBuffer()` checks (`LogAssumption`, `core/pif_log.c:1034`).
- *Solenoid*: two channels, one with a queue of two, delays of 0 and 2, a task up to 1 late.
- *Sequence*: delays of 0, 1 and 3, steps of up to 2: shorter and longer than a step.
- *NorFlash*: two pages, two faults. *FlashRecord*: eight bytes, erase units of 4, program units of 2,
  chunks of 1 to 3, two records: chunks end inside, at and behind each unit.
- *HcSr04*: three missed edges. *Pulse*: a ring of four, five edges, so that the ring wraps while it
  is read, and one reset; the average, which reads the most fields. The sequence number wraps after 4 (`PulseWraps`, 256 in
  the code), so that it does within a run.
- *Ublox*: two ids, two requests, one fault, one detach.
- *CollectSignal*: two channels and two records, three changes: the buffer gives one up. Three
  instances: every method, channels removed and added, a method switched between two captures.
- *Keypad*: thresholds 2, 8, 9 and 11 in the order of the defaults, scans 1 or 2 apart, four presses, with and
  without double presses (`doubles` is chosen at first). Ages stop at 13, past every threshold and a scan.
- *Bst*: eight keys: trees of up to four levels, with every rotation after an insert and after a
  removal, and removals that take their neighbour from two levels down.
- *Receiver*: for each parser two to four short frames, with a start byte among their data, of each
  length and with each flag; one byte lost, spoilt or added. The pause between frames is the
  shortest one that the gap of the parser and the lateness of the task allow (S.BUS: a pause of 4, a gap of 3, a task up to
  1 late): `WholeFrameTaken` has the condition `Pause >= gap + Late`; without it, with a pause one shorter
  or a task one later, TLC finds a whole frame that is lost. S.BUS also without any pause, where a frame is still
  taken unless the end of another one was seen in it. The failsafe timeout is in the instance of SUMD (`MaxPeriod` 2).
  *Ppm*: three channels of room for four, times of 2 and 3, one edge lost or too many;
  see "Seen while modelling" for four channels.

### Fairness

- *TaskManager*: `WF(MainStep)`, `WF(Tick)`. The loop is `for (;;)` in the
  application, loops and callbacks return, time passes. Nothing is assumed of
  interrupts. *TaskTrigger*: `WF(Pass)`, `WF(Tick)`, the same.
- *TimerManager*: `WF` of the tick's begin and its slots (a hardware timer); `SF` of
  main's accesses and walk, since the tick disables them again and again but
  leaves time in between. The application is not obliged to do anything.
- *UartRx*: `WF(Task)`: the main loop goes on and a client that parses comes to an
  end. No byte need ever come.
- *UartTx*: `WF` of task, hardware and time; `SF(Start)`: `act_start_transfer`, tried
  again and again, does not refuse for ever. Without the last one `LineServed` is
  false for an obvious reason.
- *Xmodem*: `WF` of both tasks; `SF(SenderTimeout)`: the timer runs out when no answer comes. The faults of
  the line are bounded, as no protocol gets over a line that loses everything.
- *Modbus*: `WF` of the master, its timeout and of slaves that have an answer; `SF(Silence)`: the
  master waits between two requests, so the line is silent again and again.
- *Msp*: `WF(Timeout)`, `SF(Begin)`, `SF(Send)`: the transmit task is released while it asks for it.
- *DeviceStream*, *SpiFdStream*: `WF` of the task, the bus and its interrupt; `SF` of a run that finds the port free, of a
  client that reads, and of the other driver looking at its transfer: the port is fought
  over, and neither side holds it for ever.
- *CanStream*: `WF` of both tasks and of a bus that recovers; `SF` of their releases, of the bus being on when
  the task looks, of frames being sent, and of a client that reads all at times; nothing for `TriggerSend`, a client may have
  no more to send.
- *Log*: `WF` of the task and of its delayed trigger, `SF(Send)`. *Ublox*: `WF` of time, sending, receiving and a
  transport that comes back, `SF(CheckRequest)`: the application asks.
- *Sequence*: `WF` of the task, of a step that returns, and of time. *HcSr04*: `WF` of releases, the task,
  the edges of an echo that is not missed, and of the timeout.
- Nothing is assumed of the modules that are only checked for safety.

### What is said of these instances only

`DueTaskRuns`, `TimersRun` and `HeldBackBounded` depend on the load. A system whose
timer callbacks fill every period leaves no time to a task in the ring, and no rule
of the scheduler changes that; the instances are ones with time left.
`HeldBackBounded` is stated for a client that never releases the realtime task beside
its period: each extra release may come first. `MastersAnswered` is for answers within
the master's 500 ms, and `LogDrains` leaves out the dump of finding 6.

## Findings

1. **A periodic task can be refused for ever** (`MCTaskManagerRearm`).
   `_fitsInSlack()` refuses a run without counting it when the realtime task has no
   period; the comment says that its slack is finite "only while a delayed trigger is
   pending and that ends on its own". A realtime task that triggers itself with a delay
   in every run has one pending for ever, and a task longer than the delay never
   runs.
2. **A removed timer can run on** (`TimerManagerIntRemove`).
   `pifTimerManager_Remove()` is documented as safe from a finish callback in the
   interrupt. `pifTimer_Start()` and `pifTimer_Reset()` test for `TS_REMOVE` and store
   `TS_STOP` and `TS_RUNNING` later; a mark set in between is overwritten.
3. **A cancel can be answered with "finished"** (`XmodemCancel`).
   `pifXmodem_SendCancel()` "cancels the transfer in progress by sending CAN twice". If EOT
   arrives before the CAN is handed to the UART, `_parsingPacket()`
   (`protocol/pif_xmodem.c:195`) stores the ACK of EOT over it: both sides are told that
   the transfer finished.
4. **The rest of a block can stay behind** (`CanStreamPending`).
   `_evtCanSending()` (`communication/pif_can_stream.c:131`) returns 0 while no frame can be
   queued, whether or not bytes of the block are left, and `_doTxTask()` asks it before it
   hands frames to the mailboxes. The queue empties in the same run, the task ends, and
   nothing brings it back to the rest. `PifCanClient` (`communication/pif_can.h:119`) has
   `evt_sending` return "the time in us after which it is to be called again, or 0 for no
   need": there is need, and the stream says there is none. The client of the run triggers the
   TX task for each block it has (`TriggerSend`), and each frame that is queued triggers it
   too; a controller that calls `pifCan_SigTxComplete()` hides this.
5. **A stopped sensor can report** (`HcSr04Stop`).
   `pifHcSr04_StopTrigger()`: "Stops the periodic trigger. A measurement on its way is
   dropped." The measurement on its way is; but the function pauses the task and leaves the
   trigger which the echo has set, and the scheduler releases a paused task that is triggered.
   `_doTask()` finds `HSS_READY` and fires a new pulse, its echo triggers the paused task
   again, and the distance it finds is reported, after the stop.
6. **A dump of the log can lose its end** (`LogDump`).
   `_storePiece()` (`core/pif_log.c:173`) takes one off what a dump has left for each piece it
   pushes out at the position of the dump. Once the pieces of the dump are gone the position
   is at later ones, and the count wraps below zero: the dump goes on past the head of the log,
   over what the buffer happens to hold.

### Seen while modelling

Places where the code is narrower than a reader may expect, left out of the
properties by a stated condition and not counted as findings.

*Scheduler*

- The slack does not look at the delayed trigger of a *paused* realtime task, which
  will release it all the same (`~pause[Realtime]` in `SlackProtectsRelease`).
- With `max_skip` 1 a run is still refused while the slack is 0: that refusal returns
  before it is counted (`core/pif_task_manager.c:204`).
- A trigger *with a delay* which an interrupt sets while main sets or tests the same
  trigger can be lost, which `core/pif_task.h:281` leaves to the caller; the run has
  interrupts that set it without one.

*Ring buffer, timers*

- `pifRingBuffer_GetFillSize()` reads head and tail without the lock; when a policy
  drops bytes in between, the result was never the fill size (`FillIsThere` is for
  buffers without a policy).
- A step of records is added to the tail in 16 bits: past half of that range it wraps
  before it wraps at the size (`Narrow` in the proofs).
- `pifTimer_Elapsed()` subtracts what remains from the present target, so it is
  wrong between `pifTimer_SetTarget()` and the next reload; it is not modelled.

*UART*

- `pifUart_DetachClient()` empties the transmit buffer and its claim while a transfer
  may read from it; the model lets only the reader empty.
- XON and XOFF are dropped without a word when the transmit buffer is full; `PeerGoesOn`
  leaves those ports out.
- A client that leaves bytes keeps the RX task polling: after each run the
  state is not idle. Also a run that finds bytes it does not take goes through idle
  and back.
- `_sendXonXoff()` starts a transfer whether one runs or not, and a refusal takes away
  the mark of the one that runs. `MarkIsTrue` and `LineReturns` leave out a side that sends
  XON and XOFF, and `MCProtocols` one that is also refused.
- `pifUart_SendTxData()` drives the line before it looks for room: a frame longer than
  the whole buffer leaves the line driven until the next one.

*Protocols and buses*

- XMODEM: a CAN that arrives while the sender is handing a packet to the UART is swallowed.
  With answers later than their timeout a late ACK is taken for that of the next packet, so
  the sender may be told it finished when it did not; the packets come in order all the same.
- Modbus: an answer later than the master's 500 ms (`protocol/pif_modbus_rtu_master.c:153`) is
  taken for that of the next request; not modelled.
- MSP: with a transmit task that only triggers release, an answer held back while
  the next packet comes in is not asked for again when that packet fails or times out
  (`Periodic`). A client that goes on after `AddAnswer` returned `FALSE` puts raw bytes, though the
  header says that the answer is then dropped.
- SPI has no `act_recover`: a DMA that outlives its timeout loses the port, and its
  late end ends the next transfer (`communication/pif_spi.c:145`), if the hardware lets one start
  while it is busy; `SpiFdStream` has one that refuses.
- UBX: after a transport is detached in the midst of a sending, no request is possible any
  more (`SendsAgain`). A late ACK counts for the next request with the same id. A message of 248
  bytes and more, possible with a larger transmit buffer, would wait for ever.

*Log*

- A prompt that finds no room in the transmit buffer after a dump or a command is not shown
  (`PromptFollows`). A second command typed ahead has its output go in front of what the first has
  queued. Removing the output a dump goes to leaves the prompt pending.
- A piece that is pushed out while an output takes it is counted as lost as well.

*Small state machines*

- Solenoid: a command queued while the one before it is late runs early by that lateness.
- NOR flash: after a program that was given up while the device was busy, `_isFree()` returns
  `TRUE` and a read reads a busy device (the exception in `AnswersAreTrue`).
- Keypad: a long press scanned late may also be told as a click (`ReleasedUnlessLong`), a repeat
  may have no press before it; `on_time` of a click that waited for the window is the window's.
- Collector: `CSM_BUFFER` changed to `CSM_LOG` before a start keeps the records of the earlier capture
  (`EarlierDiscarded`, `monitor/pif_collect_signal.c:765`). A refused line of `CSM_LOG` takes its time
  stamp with it, and a refused line of its header a channel, or what it was at first; a channel removed after its `$var` line keeps its last value in the dump; an
  output that takes the text when the UART refuses it gets it twice.
- Receivers: the gap between frames is measured when a byte is processed,
  so a task late by as much as the gap inside a frame drops a good one, and one late by what the
  pause is longer than the gap joins two frames. iBUS sets no
  `_max_frame_period`, so `pifRc_CheckFailSafe()` never tells of a lost link; CRSF, Spektrum and PPM tell of
  one only that long after the start. `_last_frame_time` of S.BUS is also that of frames flagged as lost.
- PPM: an edge lost in the midst of the first frames may leave a time past the threshold, which
  splits a frame in two; with an even number of channels the two parts may have as many pulses each (four
  channels: one in front of the two that became one, and one behind), and the two "frames in a row" that have to agree
  (`rc/pif_rc_ppm.c:34`) are one broken frame. The number of channels is then wrong until
  `pifRcPpm_ResetMeasureValue()`: `LearnsRight` with `Channels` 4. An edge too many which cuts a
  pulse into two plausible ones moves the channels without a word, and counts as good and as an error.

## Proofs

All theorems hold for every value of the constants that the named assumptions of the
module allow.

- `TaskManagerProofs`: `TypeCorrect`; `SlackInvariant` and from it `SlackRule`
  (`SlackProtectsRelease`); `ReleasedOnTime`; `RequestsAreKept`. `SlackProtectsRelease`
  speaks of a run that is going on and is not inductive: `SlackInv` follows the time to
  the release from the reading (`SlackCovers`: the slack is not over before it) through
  the judgement (`JudgedCovers`: block time and margin end before it) into the run
  (`RunCovers`: what is left of the block time does). The step from the judgement to
  the run uses up to `Cost`, which the margin must cover: `Cost <= GuardMin` is the
  assumption, and the reason the code has a margin. `FitForOthers` says that the
  realtime task itself is never started by a judgement.
- `RingBufferProofs`: `TypeCorrect`, `WriterBehindTail` (`NeverLapped`),
  `HandedBytesStay` (`HandedStay`), `FillSizeIsThere` (`FillIsThere`), under `Narrow`:
  with the record policy, twice the size is no more than 2^16. `NeverLapped` is
  made inductive by `PutHasRoom`: a put waiting to chop lacks no more than `need`, also
  when the reader has freed more since. `HeldInv` (`handed = claim`) ties what the
  reader was given to what the writer spares; `SeenInv` says that between the two
  reads of the fill size the writer only adds. The lemmas on `After` and `Distance`
  are the arithmetic of indices that wrap. `BytesAreQueued` (`IsByteQueue`) is the refinement: the
  abstract queue is what lies between tail and head, a session what lies behind the head, and each
  step is shown to be one of `ByteQueue` or to leave the queue alone; the lemmas are on what the
  sequence between two indices becomes when one of them moves or a byte is written outside of it.
  `RecordsDroppedWhole` (`DropsWholeRecords`) follows the loop of a chop-off, which moves by whole
  records from the tail.
- `TimerManagerProofs`: `TimersAreKept` (`TimersKept`), for any number of timers. That the walk
  stays in the list is not inductive without what the lists are: `SlotsOnce` says that
  list and free list together hold each slot at most once, `PoolWhole` that they hold all
  there are while the storage is, and `WalkInList` then survives a removal anywhere
  because the position of the node taken as next moves with it. `EventsAwaited`
  follows from where the walk is and what is still ahead of it. The lemmas are on the
  three things done to a list without repetition: put in front, take the head, remove at
  a place; then there is one lemma per step.
  `RemainsRight` (`RemainIsRight`), for any tick counts: a tick may come between any two accesses, and between
  most of them what is in the timer is not right, so that the invariant has to say for every access of a call why
  the tick does no harm. `Calling` does: what is left of a call is the end of one of the five (`Rest`), from its first
  store on the timer is halted, before it is started it has its count, and one that is only held is as the tick left it;
  `Targeted` says that but for the half written one the target is what was asked for. There is a lemma for each of
  the calls (`StartGoesOn` ... `HeldGoesOn`), and one for a tick in the midst of any (`TickGoesOn`).
  `RemovedStay` (`NoFinishAfterRemove`) is of instances whose callbacks in the interrupt remove no timer, since one
  that does breaks it (finding 2): `RestInv` says that a timer that was removed is marked as long as it is in the
  list, that a call on it is at a look at its mark or writes counts nobody reads, and that the walk is not about to look
  at its event.
  `ListsAreKept` (`NoStrayRun`), for any number of tasks and timer callbacks: `NodesOnce` says of both pools
  what `SlotsOnce` says of the timers, `WalkInTimers` that a walk over the timer callbacks, which no callback
  may change, is at one that is in the list, `PassInTasks` that tasks counted at the
  top of a pass do not run out before its ring, and that only a run has an owner, which is in the list unless the run
  itself removed it. Each of the four rules is used: without it a step of the application breaks the invariant.
- `LinksProofs`: `TypeCorrect`, `NoByteLeftBehind` (`RxAwake`). `Watched` adds where
  in its last steps the run stands: a state that silences the interrupt has a trigger
  or a run that will return one, and an idle state has no byte but before the look at the
  buffer. `ProtocolsHold` (`AnswersAreOwn`), from one theorem for each protocol. *Modbus* (`LineAnswers`), for any slaves, of which
  none has the address of all (`LineAssumption`), any requests and any number of faults, RTU and ASCII: `OnlyAsked`, the one who is about to
  speak is the slave that was asked, while the master waits for it; `AnswersRequest`, what it is about to say answers
  that request. That the others stay silent, however wrong they hear and however far out of step they are, is
  that nobody carries out a frame which is not a request for it (`HearingFacts`, of a frame and one slave; `HeardFacts`, of all).
  *Msp* (`MspAnswers`), for answers of any size that is not 0 and a buffer of any room (`MspAssumption`):
  what waits in the buffer follows unit by unit on what was given last (`InTurn`) and ends with
  a whole answer (`EndsWhole`); there is a lemma for an answer that is put behind it and one for units that are
  taken from it, whether they are removed or not.
- `UartTxProofs`: `TypeCorrect`; `LineIsDriven` (`LineDriven`), when `DirDelay >= Depth + Short`:
  `LineInv` says that while the wait runs the buffer is empty and what the hardware
  holds goes down with it; `MarkIsRight` (`MarkIsTrue`) from `MarkInv`;
  `NoByteLeft` (`TxAwake`) from `AwakeInv`, for ports that do not both send XON and
  XOFF and refuse.
- `ReleasesProofs`: `ReleasesHold` (`ReleasedInTime`), from one theorem for each component. *Sequence* (`StepsFollow`), for any
  delays of which one is the longest (`StepAssumption`) and steps of any length: the task is not paused while a step is going on, nor at the
  end of a run that leaves a step pending (`Unpaused`). *TaskTrigger* (`TimeoutsAreArmed`), for timeouts of any length and triggers of interrupts
  without a delay (`TriggerAssumption`; with one it is false, see "Seen while modelling"): `Stored` and `StoredTwice` say what an interrupt that
  comes between the stores of the trigger finds of them, and `AllArmed` that each timeout has the trigger, or is about to have it:
  what is being stored is due no later than it, or the run that took the trigger has still to ask it (`Asked`).
  *HcSr04* (`EchoesAreOwn`): while the driver waits for the end of an echo, it was its beginning that it saw.
  `LogHolds` (`LogKept`), of the log, for any size of its buffers that holds a piece and any load. `Behind` and
  `WriteBehind` say that what an output got is behind it, and that the piece it is being given is the one it stood on
  when it was copied, which a print may have moved it from: so it is given no piece twice, and one that is pushed out is
  counted by the print. `TextsInOrder` orders the texts of the last command that are in the log buffer, behind those that
  went to the UART, as far as the UART has not had them, and `Turns` says when there are none: before the
  command runs, and as long as its lines go out at once. A command that shows the log has printed nothing, so its prompt may
  go out behind the dump. There is a lemma for what an output
  lost when a piece is stored, taken or gone past (`StandsPushed`, `StandsTook`, `StandsSkipped`), and one for each way of a
  text (`PutStep`, `WaitStep`, `LostStep`). That the oldest pieces can give way at all is the least number of pieces
  for which there is room (`GivesWay`).
- `DevicesProofs`: `AnswersHold` (`AnswersAreTrue`), `MeasurementsHold` (`Consistent`), `ValvesHold`
  (`ValvesInTime`), `PressesHold` (`PressesTold`), from one theorem for each driver. The inductive invariants are stated in the modules
  of the drivers, where TLC checked each before it was proved.
  *NorFlash*: each place in a call is tied to what the device is at (`Placed`, `Awaited`), a command that
  needs the latch finds the device ready (`Enabled`), and `Written` says what the pages of a call that goes on
  hold. *FlashRecord*: the stream stands in a unit that is not full behind whole units (`Gathered`), what it has
  erased ahead was not written since (`ErasedAhead`), and `WrittenStays` says of the units behind it that
  they are the stream's. *Pulse*: `Counted`, `Risen` and `Between` say of the two rings, between two
  edges, that as many slots as are counted hold edges of one signal in their order, `AsRead` that
  while the sequence number stands, what was read is what is there. The number wraps, and what the
  code compares tells of every edge (`DisturbedIsRight`) as fewer come within one reading than it has
  values (`InTime`). *Solenoid*: `Served`, the trigger
  of the task is due no later than any deadline of any channel, and `Asked`, each command of a
  queue runs when it was asked for, no earlier than by the lateness of the one before it. A run
  goes over the channels and over a queue: what `Driven` leaves is proved for each step of that loop.
  *Keypad*: the count is a balance: what was told of, less the press that is held and with the click that
  waits, lies between the presses that certainly count and those that may (`Balanced`), which needs that the driver has
  known of a press for as long as the scans saw it, less the gap behind the scan that ended the one before
  (`Known`), and that a click waits in its window (`Waiting`). `Heard` says for each state what the client has
  been told of the press that goes on; for the order of the events a press nothing was told of must have a scan left before it
  is a long one. `PressesCounted` does without that and so holds for scans as late as they like. Assumed of the constants: an erase unit is whole program units, as
  `pifFlash_Init()` checks; two slots or more for edges; delays and `on_time` are less than what stands for
  "never"; the times of a key in the order its setters keep, a hold time that is not 0 (the setter takes 0, and
  then a press the scans saw once may count twice or not at all), and scans that leave one of them between a press
  and a long one: at most 450 ms apart with the default times, the period of the task being 20 (`ScansInTime`). Without the last one the order of
  events is false, and TLC shows it: a press that is first looked at when it is a long one is told of as long with no press before it.
  *Receiver*: `WholeFramesAreTaken` (`WholeFrameTaken`, which `FramesTaken` says of each parser). It needs nothing of what the parser does with
  bytes that are no frame: `Clock` says that a line which was quiet for a pause has nothing waiting, and that a task which has read
  nothing for that long less its lateness will see the gap; from there on the parser has the first `r` bytes of the frame and only those,
  the next ones wait behind each other, and the task reads each before it looks like a gap (`Has`, of the frame whose last byte
  waits in `Marked` and of the one on its way in `OnItsWay`). Assumed (`InUse`): one of the five protocols, frames as the protocol has them
  (`IsFrame`: full with the last byte, with no byte wrong in its place and a check that passes), a
  task whose lateness is two ticks or more below the gap (`ReadInTime`), and a pause no shorter than gap and lateness together
  (`PauseIsSeen`), which S.BUS alone can do without: there what `ReadSoFar` says is that the `r` bytes are the last ones the parser has,
  unless the end of another frame was seen in them. `_resync()` keeps that, as the frame's own start byte stands behind the one it
  drops, if no earlier one does (`ItsLast`), and what it leaves is less than a frame that begins with a start byte (`Begun`), so that
  the last byte of the frame fills the buffer with it alone. TLC evaluates the assumptions for the frames and pauses
  of `MCDevices` (`ReceiversInUse`), one of which has no pause.
- `StreamsProofs`: `ExchangesHold` (`ExchangesTrue`), see below, and `StreamsHold` (`StreamsTrue`), from `PortIsFollowed`, `BothWaysTrue` and
  `BytesArriveInOrder`.
  *DeviceStream*: `BusIsPort` is the core: the transfer on the bus is the one the port is given to, also
  after a timeout, because the port is not released before the bus was recovered;
  `ReadAfterParse` and `HeldByReceiver` say that what was counted is still in the receiver and that
  nothing is read before the last read was parsed; `ExpectsNext` ties the client to the first byte
  of the buffer. *SpiFdStream*: here the bus may be at a transfer nobody follows any more.
  `OnItsWay` says that what a transfer sends is what the transmit buffer begins with, or is of a client that has
  gone, so that taking it from the buffer never takes what the device has not; `ReadSoFar` says that all between
  the last byte read and the first one to be read looks idle.
  *CanStream*: `Line` says of what was read, the buffer, the frames that have come, those in the mailboxes and
  those in the queue that they follow each other, up to the bytes that are in no frame yet; there are lemmas for a frame put behind them, taken
  from their front, handed on, or lost. `LossIsCounted` is the sum over all of them. The sum of lengths over a sequence of frames needs induction: it is done
  by the least number for which a statement fails, as the order of the numbers is well founded
  (`LeastNumber`, `UpTo`). There has to be a length of 1 and one of a whole frame among those a client
  writes (`CanAssumption`).
  *Xmodem*: that the packets come in order and once does not need the order in which they are sent,
  as the receiver takes none but the next one: the invariant is that the last number it took is how many it has passed
  on. The exception is the transfer that is over: EOT takes the number back to 0, and a packet 1 behind it would be
  passed on again. `LineInOrder` says that no packet is behind an EOT on the line, and `NoMore` that a sender which has
  sent one sends no packet any more; there are lemmas for a message that is sent, read or lost, and spoilt. A receiver
  that cancels keeps nothing of this, and takes nothing any more. `FinishedHasAll` (`FinishedMeansAll` of `Xmodem`, which `MCLinks` checks as a
  part of `TransferEnds`) does need the order: as long as nobody cancels, one of both has the turn, or a message has, or, until a timeout, nobody
  (`OneTurn`), so that an ACK is that of the last packet and not of an earlier one, and the sender sends EOT when the
  receiver has every packet (`UpToDate`). Both ends may cancel at any time; from then on it is kept that an EOT on the line, or one that was read, was sent
  when all packets had been passed on. Assumed of the constants: the start is `C` or `NAK`, as `pif_xmodem.h` has them, and answers come before
  their timeouts (`XmodemLate = FALSE`). Without the latter it is false, and TLC shows it with no fault of the line: a packet
  that is sent twice is acknowledged twice, and the second ACK is taken for that of the EOT. *Ublox*: `BytesAreSaid`, what looks like an
  answer, on the line and in the parser, is one that was given, and `LastMessage`, the buffer holds the last message
  until the receiver has it.

A step of `MCDevices` is a step of the group its component is in (`Tasks!Next`, `Logging!Next`, `DevicesNext`, `StreamsNext`,
`ExchangesNext`) or leaves the group alone, and its initial states are those of the groups, so that the theorems are on the
behaviours of that run. So are those on `ReleasesSpec` and `ProtocolsSpec` on the behaviours of `MCProtocols`.

Only model-checked: liveness and what depends on `ENABLED` (out of reach of TLAPS);
`HeldBackBounded`, which is true of instances; `Bst` and `CollectSignal`, whose operators are `RECURSIVE`
(`TreeKept`, `DumpAsCaptured`); and
of the receivers (`FramesTaken`) the timeout of the failsafe and PPM, which are true of instances: with four faults noise may
complete a frame that was cut, which TLC shows for SUMD, and two broken frames may set a wrong number of channels in PPM, three make
it hand out what is not the frame being sent, which TLC shows as well.

## Not modelled

`PROJECT.json` says for each component what is in a model and what is not. In short:

- In the modelled parts: statistics, CPU load; changing mode and period of a task; the wrap of readings 35
  minutes apart; resizing and copying ring buffers, a head moved by a DMA; UARTs without
  buffers; attaching and detaching a client of a UART while bytes move; line editing of the log;
  the tables of Modbus; version 2 of MSP.
- Filters, PID, servo: floating point, out of reach of TLC. Chip and LCD drivers, clock
  chips: register programming with no state of their own to get wrong between steps; they are a
  large share of the tree's lines. Time of day, conversions, checksums, gpio: sequential and short.
- The BASIC interpreter: a recursive parser over text, sequential.
- Everything outside `source/`, `gpl/source/` and `include/`: tests, and third party
  code such as littlefs, which the tree only adapts (`storage/pif_littlefs.c`).

## What is left

In this order:

1. *Task life cycle*: mode and period changed by the run itself and by others.
2. *Receivers*: the answers to requests for telemetry, in the midst of frames that come.
3. *SPI*: blocking transfers, and a bus that takes a transfer while another one is not over.
4. *UART life cycle*: attach and detach while bytes move, UARTs without buffers.
5. *Outputs and inputs*: LED, FND, buzzer, switches, quadrature encoder.
6. *Pure algorithms*: base64, Huffman and checksums against a reference over bounded
   inputs; the lists and buffers over bounded sequences of calls.
