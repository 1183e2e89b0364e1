------------------------------- MODULE UartRx -------------------------------
(* The receiving side of a UART (communication/pif_uart.c): the receive buffer *)
(* as its fill size, the RX task with its receive state, the interrupt that    *)
(* puts bytes, and the flow control by which this side stops the other one.    *)
(* The main context runs the task in steps; the interrupt may come between any *)
(* two of them.  The task is one that only triggers release (TM_EXTERNAL); one *)
(* with a period runs anyway.  Time is left out: a trigger that is pending may *)
(* release the task at any moment, whatever its delay.                         *)
EXTENDS Naturals

CONSTANTS
  Size,        \* bytes the receive buffer holds
  Limit,       \* fc_limit: percentage above which the other side is stopped
  Flight       \* bytes the other side still sends after it is told to stop

ASSUME SizeAssumption == Size \in Nat \ {0} /\ Limit \in 0..100 /\ Flight \in Nat

VARIABLES
  control,     \* the flow control, one of Controls
  leaves,      \* the client may leave bytes in the buffer for later
  full,        \* the transmit side may have no room for XON and XOFF
  fill,        \* fill size of _p_rx_buffer
  rx_state,    \* __rx_state
  rx_taken,    \* __rx_taken
  trigger,     \* a trigger of the RX task is pending
  fc_state,    \* _fc_state: this side lets the other one send
  peer,        \* the other side holds itself allowed to send
  flight,      \* bytes it still sends although it was told to stop
  pc,          \* where the RX task is
  period       \* what its run will return

Controls == {"none", "software", "hardware"}

user == <<control, leaves, full>>
task == <<rx_taken, pc, period>>
flow == <<fc_state, peer, flight>>
vars == <<user, fill, rx_state, rx_taken, trigger, fc_state, peer, flight, pc, period>>

\* pifUart_Init(), pifUart_SetFlowControl() and pifUart_AttachRxTask().
Init ==
  /\ control \in Controls /\ leaves \in BOOLEAN /\ full \in BOOLEAN
  /\ fill = 0 /\ rx_state = "idle" /\ rx_taken = FALSE /\ trigger = FALSE
  /\ fc_state = TRUE /\ peer = TRUE /\ flight = 0
  /\ pc = "wait" /\ period = "own"

-----------------------------------------------------------------------------
(* The interrupt.                                                            *)

\* The state and the trigger after n bytes were put.
Wake == IF rx_state = "idle" THEN rx_state' = "first" /\ trigger' = TRUE
                             ELSE UNCHANGED <<rx_state, trigger>>

\* pifUart_PutRxByte(), and pifUart_PutRxData() for more than one byte: with no
\* room nothing is put and nobody is woken.
PutRx(n) ==
  /\ peer \/ flight >= n
  /\ flight' = IF peer THEN flight ELSE flight - n
  /\ IF fill + n > Size
       THEN UNCHANGED <<fill, rx_state, trigger>>
       ELSE /\ fill' = fill + n
            /\ Wake
  /\ UNCHANGED <<user, task, fc_state, peer>>

-----------------------------------------------------------------------------
(* The RX task.                                                              *)

\* The scheduler releases the task by its trigger.
Release ==
  /\ pc = "wait" /\ trigger
  /\ trigger' = FALSE
  /\ pc' = "flow" /\ period' = "own"
  /\ UNCHANGED <<user, fill, rx_state, rx_taken, flow>>

\* _setFcState() and the call that tells the other side.  XON and XOFF go to the
\* transmit side (_sendXonXoff), which drops them without a word when it has no
\* room; a line of its own (act_device_flow_state) always arrives.
Tell(on) ==
  /\ fc_state' = on
  /\ \E told \in IF control = "software" /\ full THEN BOOLEAN ELSE {TRUE} :
       /\ peer' = IF told THEN on ELSE peer
       /\ flight' = IF told /\ ~on /\ peer THEN Flight ELSE IF told /\ on THEN 0 ELSE flight

\* How full the buffer is, in percent rounded down: a buffer of more than a hundred
\* bytes is empty by this measure before its last byte is read.
Rate == (100 * fill) \div Size

\* The first part of _doRxTask(): the rate is compared once, before the bytes
\* are parsed.  An empty buffer is judged again 1 us later.
FlowControl ==
  /\ pc = "flow"
  /\ IF control = "none" THEN UNCHANGED <<flow, period>>
     ELSE IF fc_state /\ Rate > Limit THEN Tell(FALSE) /\ UNCHANGED period
     ELSE IF ~fc_state /\ Rate = 0 THEN Tell(TRUE) /\ period' = "short"
     ELSE UNCHANGED <<flow, period>>
  /\ pc' = "parse" /\ rx_taken' = FALSE
  /\ UNCHANGED <<user, fill, rx_state, trigger>>

\* _actReceiveData(), called by the client as often as it likes.
Receive(n) ==
  /\ pc = "parse" /\ n <= fill
  /\ fill' = fill - n /\ rx_taken' = TRUE
  /\ UNCHANGED <<user, rx_state, trigger, flow, pc, period>>

\* pifUart_AbortRx(): between two runs, or from a client that has read something.
AbortRx ==
  /\ pc = "wait" \/ (pc = "parse" /\ rx_taken)
  /\ fill' = 0
  /\ UNCHANGED <<user, rx_state, trigger, flow, task>>

\* The client is done.  One that does not leave bytes reads till nothing is there.
ParseEnd ==
  /\ pc = "parse" /\ (leaves \/ fill = 0)
  /\ pc' = "state"
  /\ UNCHANGED <<user, fill, rx_state, rx_taken, trigger, flow, period>>

\* Mutated KeepPolling: after a read the task waits for the next byte at once.
SleepAfterRead ==
  /\ pc = "state" /\ rx_state # "idle" /\ rx_taken
  /\ rx_state' = "idle" /\ pc' = "check"
  /\ UNCHANGED <<user, fill, rx_taken, trigger, flow, period>>

\* The switch on __rx_state, read once: bytes were read, and the task polls.
KeepPolling ==
  /\ pc = "state" /\ rx_state # "idle" /\ rx_taken
  /\ rx_state' = "next" /\ period' = "short" /\ pc' = "end"
  /\ UNCHANGED <<user, fill, rx_taken, trigger, flow>>

\* None were read: the state goes back to idle, from which an interrupt wakes.
GoIdle ==
  /\ pc = "state" /\ rx_state # "idle" /\ ~rx_taken
  /\ rx_state' = "idle" /\ pc' = "check"
  /\ UNCHANGED <<user, fill, rx_taken, trigger, flow, period>>

\* Mutated CheckBuffer: the buffer is not looked at again.
NoCheck ==
  /\ pc = "check" /\ pc' = "end"
  /\ UNCHANGED <<user, fill, rx_state, rx_taken, trigger, flow, period>>

\* The buffer after the change, for a byte that came just before it.
CheckBuffer ==
  /\ pc = "check"
  /\ IF fill > 0 THEN rx_state' = "first" /\ period' = "short"
                 ELSE UNCHANGED <<rx_state, period>>
  /\ pc' = "end"
  /\ UNCHANGED <<user, fill, rx_taken, trigger, flow>>

\* A run of a task that was idle when it ended.
StayIdle ==
  /\ pc = "state" /\ rx_state = "idle"
  /\ pc' = "end"
  /\ UNCHANGED <<user, fill, rx_state, rx_taken, trigger, flow, period>>

\* _processingTask() takes the period in: for an external task it is a trigger.
RunEnd ==
  /\ pc = "end"
  /\ trigger' = (trigger \/ period = "short")
  /\ pc' = "wait"
  /\ UNCHANGED <<user, fill, rx_state, rx_taken, flow, period>>

Task ==
  \/ Release \/ FlowControl \/ ParseEnd \/ KeepPolling \/ GoIdle
  \/ CheckBuffer \/ StayIdle \/ RunEnd \/ \E n \in 1..Size : Receive(n)

Next == Task \/ AbortRx \/ \E n \in {1, 2} : PutRx(n)

Spec == Init /\ [][Next]_vars

\* The main loop goes on, and a client that parses comes to an end.
FairSpec == Spec /\ WF_vars(Task)

-----------------------------------------------------------------------------
\* The types of the variables of pif_uart.h and of the model.
TypeOK ==
  /\ control \in Controls /\ leaves \in BOOLEAN /\ full \in BOOLEAN
  /\ fill \in 0..Size /\ flight \in 0..Flight
  /\ rx_state \in {"idle", "first", "next"}
  /\ pc \in {"wait", "flow", "parse", "state", "check", "end"}
  /\ period \in {"own", "short"}
  /\ rx_taken \in BOOLEAN /\ trigger \in BOOLEAN
  /\ fc_state \in BOOLEAN /\ peer \in BOOLEAN

\* No wakeup is lost: between two runs, when bytes wait or the state is one from
\* which the interrupt wakes nobody, a trigger is pending.  It relies on the order
\* of the last steps of _doRxTask() against the interrupt.
RxAwake == pc = "wait" /\ (fill > 0 \/ rx_state # "idle") => trigger

\* The other side, once stopped, is let go on by a client that reads what comes, as
\* long as XON finds room in the transmit buffer: the rate is judged only when the task
\* runs, so the run that reads the last byte has to be followed by another.
PeerGoesOn == ~peer /\ ~leaves /\ ~(control = "software" /\ full) ~> peer
=============================================================================
