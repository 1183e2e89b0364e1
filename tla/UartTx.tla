------------------------------- MODULE UartTx -------------------------------
(* The sending side of a UART (communication/pif_uart.c) that sends from its    *)
(* transmit buffer: the TX task, the interrupt of the hardware that takes the   *)
(* bytes, the other side that asks it to stop (host flow control), and the      *)
(* direction of a half duplex line.  The main context runs in steps, between    *)
(* which the interrupts come.  Time is counted in byte times: in each of them   *)
(* the hardware puts one byte on the line, and a trigger comes one nearer.  The *)
(* task counts in _transfer_time, which is cut off to whole microseconds: what  *)
(* it waits for may come before as many byte times have passed.                 *)
EXTENDS Integers

CONSTANTS
  Size,        \* bytes the transmit buffer holds
  Lengths,     \* lengths pifUart_SendTxData() is called with
  Depth,       \* bytes the hardware holds that are not yet on the line
  Ports,       \* the kinds of UART: <<dma, control, half_duplex, refuses>>, see below
  DirDelay,    \* dir_delay
  Short,       \* byte times a wait may be too short by, as _transfer_time is cut off
  Frames,      \* bound: calls that send
  NoTrigger    \* no trigger is pending

ASSUME SizeAssumption ==
  /\ Size \in Nat \ {0} /\ Depth \in Nat \ {0}
  /\ Lengths \subseteq Nat \ {0} /\ DirDelay \in Nat /\ Short \in Nat /\ Frames \in Nat
ASSUME PortAssumption == Ports \subseteq BOOLEAN \X {"none", "host", "device"} \X BOOLEAN \X BOOLEAN
ASSUME NoTriggerAssumption == NoTrigger \notin Nat

VARIABLES
  dma,         \* the hardware takes blocks (pifUart_StartGetTxData), else bytes
  control,     \* "host": the other side may ask this one to stop; "device": this
               \* side sends XON and XOFF; or "none"
  half_duplex, \* a direction is attached (pifUart_AttachActDirection)
  refuses,     \* act_start_transfer may refuse
  fill,        \* fill size of _p_tx_buffer
  tx_state,    \* __tx_state: the UART believes that a transfer runs
  fc_state,    \* _fc_state: this side may send
  direction,   \* _direction is UD_TX: this side drives the line
  dir_auto,    \* __dir_auto: it gives the line back by itself
  dir_wait,    \* __dir_wait: the transfer is done, dir_delay runs
  since,       \* byte times since __tx_end_time
  trigger,     \* byte times until the TX task is released, or NoTrigger
  pc,          \* where the TX task is
  bytes,       \* bytes of _doTxTask(): what the client sent, then what waits
  on,          \* the hardware runs a transfer
  block,       \* bytes of the block it was handed that it has not taken yet
  handed,      \* length of that block
  wire,        \* bytes it took that are not on the line yet
  frames       \* calls that sent, for the bound Frames

\* Chosen when the UART is set up.
port == <<dma, control, half_duplex, refuses>>
buffer == <<fill, tx_state>>
line == <<direction, dir_auto, dir_wait, since>>
run == <<pc, bytes>>
hardware == <<on, block, handed, wire>>
vars == <<port, fill, tx_state, fc_state, direction, dir_auto, dir_wait, since, trigger,
          pc, bytes, on, block, handed, wire, frames>>

\* pifUart_Init(), pifUart_AllocTxBuffer(), pifUart_AttachActDirection() with
\* UD_RX and pifUart_AttachTxTask() with TM_EXTERNAL.
Init ==
  /\ dma \in BOOLEAN /\ control \in {"none", "host", "device"}
  /\ half_duplex \in BOOLEAN /\ refuses \in BOOLEAN
  /\ port \in Ports
  /\ fill = 0 /\ tx_state = "idle" /\ fc_state = TRUE
  /\ direction = ~half_duplex /\ dir_auto = FALSE /\ dir_wait = FALSE /\ since = 0
  /\ trigger = NoTrigger /\ pc = "wait" /\ bytes = 0
  /\ on = FALSE /\ block = 0 /\ handed = 0 /\ wire = 0 /\ frames = 0

SmallerOf(a, b) == IF a <= b THEN a ELSE b

\* _isTxBlocked().
Blocked == control = "host" /\ ~fc_state

-----------------------------------------------------------------------------
(* The direction of the line.                                                *)

\* Mutated BeginTransfer: a wait for dir_delay that runs already goes on.
BeginKeepsWait ==
  /\ direction' = TRUE
  /\ dir_auto' = (dir_auto \/ ~direction)
  /\ UNCHANGED <<dir_wait, since>>

\* _beginTransfer(): a line that is not driven is, and is given back later; a line
\* of this side that waits for dir_delay waits no more.
BeginTransfer ==
  /\ direction' = TRUE
  /\ dir_auto' = (dir_auto \/ ~direction)
  /\ dir_wait' = FALSE /\ since' = 0

\* pifUart_SetDirection() from the application, which does not cut itself off.
SetDirection(tx) ==
  /\ pc = "wait" /\ half_duplex
  /\ tx \/ (fill = 0 /\ ~on /\ wire = 0)
  /\ direction' = tx /\ dir_auto' = FALSE /\ dir_wait' = FALSE /\ since' = 0
  /\ UNCHANGED <<port, buffer, fc_state, trigger, run, hardware, frames>>

-----------------------------------------------------------------------------
(* Main: calls that send.                                                    *)

\* pifUart_SendTxData(), between two runs of the task: the line is driven first,
\* and the task is triggered only when the bytes went in.
SendTxData(n) ==
  /\ pc = "wait" /\ frames < Frames /\ frames' = frames + 1
  /\ BeginTransfer
  /\ IF fill + n <= Size THEN fill' = fill + n /\ trigger' = 0
                         ELSE UNCHANGED <<fill, trigger>>
  /\ UNCHANGED <<port, tx_state, fc_state, run, hardware>>

\* pifTransport_TriggerSend(): a client has something to send.
TriggerSend ==
  /\ pc = "wait" /\ frames < Frames
  /\ trigger' = 0
  /\ UNCHANGED <<port, buffer, fc_state, line, run, hardware, frames>>

\* _sendXonXoff() of the RX task: the byte is dropped when there is no room, and
\* the transfer is marked and started whether one runs or not.
SendXonXoff ==
  /\ pc = "wait" /\ control = "device" /\ frames < Frames /\ frames' = frames + 1
  /\ BeginTransfer
  /\ fill' = SmallerOf(fill + 1, Size) /\ tx_state' = "sending" /\ pc' = "control"
  /\ UNCHANGED <<port, fc_state, trigger, bytes, hardware>>

-----------------------------------------------------------------------------
(* Main: the TX task, _doTxTask().                                           *)

\* The scheduler releases the task, by a trigger or when the time it asked for is over.
Release ==
  /\ pc = "wait" /\ trigger # NoTrigger /\ trigger <= Short
  /\ trigger' = NoTrigger /\ pc' = "blocked?" /\ bytes' = 0
  /\ UNCHANGED <<port, buffer, fc_state, line, hardware, frames>>

TestBlocked ==
  /\ pc = "blocked?"
  /\ pc' = IF Blocked THEN "turnaround" ELSE "sending"
  /\ UNCHANGED <<port, buffer, fc_state, line, trigger, bytes, hardware, frames>>

\* evt_sending with _actTransportSendBuffer(): a client sends as much as there is
\* room for.  The room can only grow till the bytes are put.
Send(n) ==
  /\ pc = "sending" /\ frames < Frames /\ frames' = frames + 1
  /\ fill < Size
  /\ BeginTransfer
  /\ fill' = fill + SmallerOf(n, Size - fill)
  /\ bytes' = bytes + SmallerOf(n, Size - fill) /\ pc' = "fill"
  /\ UNCHANGED <<port, tx_state, fc_state, trigger, hardware>>

SendNothing ==
  /\ pc = "sending" /\ pc' = "fill"
  /\ UNCHANGED <<port, buffer, fc_state, line, trigger, bytes, hardware, frames>>

\* What waits in the buffer decides, not the client.
ReadFill ==
  /\ pc = "fill" /\ pc' = "state"
  /\ bytes' = IF fill > bytes THEN fill ELSE bytes
  /\ UNCHANGED <<port, buffer, fc_state, line, trigger, hardware, frames>>

\* The transfer is marked before it starts: its end may come before
\* act_start_transfer returns.
MarkSending ==
  /\ pc = "state"
  /\ IF bytes > 0 /\ tx_state = "idle"
       THEN tx_state' = "sending" /\ pc' = "start"
       ELSE pc' = "turnaround" /\ UNCHANGED tx_state
  /\ UNCHANGED <<port, fill, fc_state, line, trigger, bytes, hardware, frames>>

\* _startTransfer() calls act_start_transfer and goes back to its caller.
Starting ==
  \/ pc = "start" /\ pc' = "turnaround"
  \/ pc = "control" /\ pc' = "wait"

\* act_start_transfer: the hardware begins to ask for bytes.
Start ==
  /\ Starting
  /\ on' = TRUE
  /\ UNCHANGED <<port, buffer, fc_state, line, trigger, bytes, block, handed, wire, frames>>

\* Mutated StartRefused: the mark stays.
RefusedKeepsMark ==
  /\ Starting /\ refuses
  /\ UNCHANGED <<port, buffer, fc_state, line, trigger, bytes, hardware, frames>>

\* act_start_transfer returns FALSE, and the mark is taken back.
StartRefused ==
  /\ Starting /\ refuses
  /\ tx_state' = "idle"
  /\ UNCHANGED <<port, fill, fc_state, line, trigger, bytes, hardware, frames>>

\* How long the TX task waits: what it sends takes bytes byte times, and the
\* turnaround asks for its own.
Shorter(a, b) == IF a = 0 THEN b ELSE IF b = 0 THEN a ELSE SmallerOf(a, b)

\* _processingTask(): a period returned is a trigger, which replaces one set
\* during the run.
EndRun(turnaround) ==
  /\ pc' = "wait" /\ bytes' = 0
  /\ trigger' = IF Shorter(bytes, turnaround) > 0 THEN Shorter(bytes, turnaround) ELSE trigger

\* _checkTurnaround() and the end of the run.  The transfer is done when the
\* buffer is empty (pifUart_CheckTxTransfer).
NoTurnaround ==
  /\ pc = "turnaround" /\ ~dir_auto
  /\ EndRun(0)
  /\ UNCHANGED <<port, buffer, fc_state, line, hardware, frames>>

StillSending ==
  /\ pc = "turnaround" /\ dir_auto /\ fill > 0
  /\ dir_wait' = FALSE
  /\ EndRun(1)
  /\ UNCHANGED <<port, buffer, fc_state, direction, dir_auto, since, hardware, frames>>

Waited == IF dir_wait THEN since ELSE 0

\* Mutated WaitForLine: the task does not ask to be released when the wait is over.
WaitUnwatched ==
  /\ pc = "turnaround" /\ dir_auto /\ fill = 0 /\ Waited < DirDelay
  /\ dir_wait' = TRUE /\ since' = Waited
  /\ EndRun(0)
  /\ UNCHANGED <<port, buffer, fc_state, direction, dir_auto, hardware, frames>>

WaitForLine ==
  /\ pc = "turnaround" /\ dir_auto /\ fill = 0 /\ Waited < DirDelay
  /\ dir_wait' = TRUE /\ since' = Waited
  /\ EndRun(DirDelay - Waited)
  /\ UNCHANGED <<port, buffer, fc_state, direction, dir_auto, hardware, frames>>

\* The wait is over by the clock, and pifUart_SetDirection(UD_RX) follows.
GiveBack ==
  /\ pc = "turnaround" /\ dir_auto /\ fill = 0 /\ Waited + Short >= DirDelay
  /\ direction' = FALSE /\ dir_auto' = FALSE /\ dir_wait' = FALSE /\ since' = 0
  /\ EndRun(0)
  /\ UNCHANGED <<port, buffer, fc_state, hardware, frames>>

Task ==
  \/ Release \/ TestBlocked \/ SendNothing \/ ReadFill \/ MarkSending \/ Start
  \/ StartRefused \/ NoTurnaround \/ StillSending \/ WaitForLine \/ GiveBack
  \/ \E n \in Lengths : Send(n)

-----------------------------------------------------------------------------
(* The interrupts and the hardware.                                          *)

\* pifUart_GetTxByte(), when the hardware has room for a byte.  The transfer ends
\* with the last byte, or when there is nothing to take.
GetTxByte ==
  /\ ~dma /\ on /\ wire < Depth
  /\ IF Blocked \/ fill = 0 THEN UNCHANGED <<fill, wire>>
                             ELSE fill' = fill - 1 /\ wire' = wire + 1
  /\ IF Blocked \/ fill <= 1 THEN on' = FALSE /\ tx_state' = "idle"
                              ELSE UNCHANGED <<on, tx_state>>
  /\ UNCHANGED <<port, fc_state, line, trigger, run, block, handed, frames>>

\* pifUart_StartGetTxData(): a block is handed out; the buffer keeps it.  A block
\* ends where the memory of the buffer ends, so it may be any part of what is there.
StartGetTxData ==
  /\ dma /\ on /\ handed = 0
  /\ IF fill = 0 \/ Blocked
       THEN on' = FALSE /\ tx_state' = "idle" /\ UNCHANGED <<block, handed>>
       ELSE \E n \in 1..fill : block' = n /\ handed' = n /\ UNCHANGED <<on, tx_state>>
  /\ UNCHANGED <<port, fill, fc_state, line, trigger, run, wire, frames>>

\* The DMA moves a byte of the block to the hardware.
MoveByte ==
  /\ block > 0 /\ wire < Depth
  /\ block' = block - 1 /\ wire' = wire + 1
  /\ UNCHANGED <<port, buffer, fc_state, line, trigger, run, on, handed, frames>>

\* pifUart_EndGetTxData(): the block leaves the buffer.
EndGetTxData ==
  /\ handed > 0 /\ block = 0
  /\ handed' = 0
  /\ IF handed >= fill
       THEN fill' = 0 /\ on' = FALSE /\ tx_state' = "idle"
       ELSE fill' = fill - handed /\ UNCHANGED <<on, tx_state>>
  /\ UNCHANGED <<port, fc_state, line, trigger, run, block, wire, frames>>

\* Mutated SigTxFlowState: nobody is woken.
SigFlowOnly(state) ==
  /\ control = "host"
  /\ fc_state' = state
  /\ UNCHANGED <<port, buffer, line, trigger, run, hardware, frames>>

\* pifUart_SigTxFlowState(), and XON and XOFF in _filterXonXoff().
SigTxFlowState(state) ==
  /\ control = "host"
  /\ fc_state' = state
  /\ trigger' = IF state THEN 0 ELSE trigger
  /\ UNCHANGED <<port, buffer, line, run, hardware, frames>>

\* A byte time passes.  The hardware is as fast as the line: it takes its bytes
\* out of a block before the time is over.
Tick ==
  /\ ~(block > 0 /\ wire < Depth)
  /\ wire' = IF wire > 0 THEN wire - 1 ELSE 0
  /\ trigger' = IF trigger \in {NoTrigger, 0} THEN trigger ELSE trigger - 1
  /\ since' = IF dir_wait THEN SmallerOf(since + 1, DirDelay) ELSE 0
  /\ UNCHANGED <<port, buffer, fc_state, direction, dir_auto, dir_wait, run, on, block, handed, frames>>

Interrupt == GetTxByte \/ StartGetTxData \/ MoveByte \/ EndGetTxData

Next ==
  \/ Task \/ Interrupt \/ Tick \/ TriggerSend \/ SendXonXoff
  \/ \E n \in Lengths : SendTxData(n)
  \/ \E state \in BOOLEAN : SigTxFlowState(state) \/ SetDirection(state)

Spec == Init /\ [][Next]_vars

\* The main loop goes on, the hardware asks for bytes, time passes, and a start that
\* is tried again and again is not refused for ever.
FairSpec ==
  /\ Spec
  /\ WF_vars(Task) /\ WF_vars(Interrupt) /\ WF_vars(Tick)
  /\ SF_vars(Start)

-----------------------------------------------------------------------------
\* The types of the variables of pif_uart.h and of the model.
TypeOK ==
  /\ dma \in BOOLEAN /\ half_duplex \in BOOLEAN /\ refuses \in BOOLEAN
  /\ control \in {"none", "host", "device"}
  /\ fill \in 0..Size /\ tx_state \in {"idle", "sending"}
  /\ fc_state \in BOOLEAN /\ on \in BOOLEAN
  /\ direction \in BOOLEAN /\ dir_auto \in BOOLEAN /\ dir_wait \in BOOLEAN
  /\ since \in 0..DirDelay /\ trigger \in Nat \cup {NoTrigger} /\ bytes \in Nat
  /\ pc \in {"wait", "blocked?", "sending", "fill", "state", "start", "control", "turnaround"}
  /\ block \in 0..handed /\ handed \in 0..Size /\ wire \in 0..Depth
  /\ frames \in 0..Frames

\* UTS_IDLE says "Nothing being sent" and UTS_SENDING "A transfer is running"
\* (pif_uart.h): the state marks the transfers of the hardware, which end and are
\* stopped in the interrupt, and those that are about to start.  A mark without a
\* transfer would keep the TX task from ever starting one.  A side that sends XON
\* and XOFF starts transfers beside the marked one, and is left out.
MarkIsTrue == control # "device" => ((tx_state = "sending") <=> (on \/ pc = "start"))

\* The hardware is not asked to start while it sends.
StartedOnce == control # "device" /\ pc = "start" => ~on

\* No wakeup is lost: bytes that wait and may be sent are being sent, or the TX
\* task will look at them, whatever stopped and refused the transfer before.
TxAwake == pc = "wait" /\ fill > 0 /\ ~Blocked => on \/ trigger # NoTrigger

\* The line is driven until the last byte is on it: the buffer gets empty before
\* the hardware does, and dir_delay has to cover what the hardware still holds
\* and what the wait is too short by.
LineDriven == wire > 0 \/ fill > 0 => direction

\* "back to UD_RX dir_delay byte times after pifUart_CheckTxTransfer() reports the
\* transfer done" (pif_uart.h): a line the UART drove is one its task will look at.
\* XON and XOFF release no task: a UART that sends them is left out here too.
LineWatched == control # "device" /\ pc = "wait" /\ dir_auto => trigger # NoTrigger

\* The line is given back, unless the other side holds this one in between.
LineReturns == control # "device" /\ dir_auto ~> ~dir_auto \/ Blocked

\* What waits is sent, unless the other side holds this one.
BytesLeave == fill > 0 ~> fill = 0 \/ Blocked
=============================================================================
