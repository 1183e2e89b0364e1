---------------------------- MODULE DeviceStream ----------------------------
(* A GPS receiver read as a byte stream over I2C (gps/pif_ubx_ddc_stream.c on     *)
(* communication/pif_device_stream.c), on a port (communication/pif_i2c.c) it     *)
(* shares with another device.  The bytes the receiver makes are numbered.  The   *)
(* port ends a transfer from an interrupt and has an act_recover; steps of the    *)
(* task are steps of the main context, which the interrupt comes between.         *)
EXTENDS Naturals

CONSTANTS
  Bytes,       \* the bound on the bytes the receiver makes
  RxSize,      \* __rx_size, or max_transfer_size when that is less
  Faults       \* the bound on transfers that fail

VARIABLES
  use, state,  \* __use_device of the port and _state of each device
  hw,          \* the device whose transfer is on the bus
  made, took,  \* bytes the receiver has made and has given out
  running, phase, pending, size,   \* the stream and its protocol; size: __read_size
  count,       \* the count that was read
  head, left,  \* the first byte in __p_rx that is not read yet, and how many
  client, tx,  \* a client is attached; it has bytes to send
  expects,     \* the byte the client expects next, Any after a gap it was told of
  pc, turn,    \* where _doTask() is; "was": it began with a transfer running, "second":
               \* it has started one, "clear": it is pifDeviceStream_Clear() that polls
  faults

None == "none"
Gps == "gps"
Other == "other"
Any == Bytes + 1

port == <<use, state, hw, faults>>
receiver == <<made, took, count>>
stream == <<running, phase, pending, size>>
reading == <<head, left, expects>>
task == <<pc, turn>>
vars == <<port, receiver, stream, reading, client, tx, task>>

Init ==
  /\ use = None /\ state = [d \in {Gps, Other} |-> "idle"] /\ hw = None
  /\ made = 0 /\ took = 0 /\ count = 0
  /\ running = FALSE /\ phase = "count" /\ pending = 0 /\ size = 0
  /\ head = 0 /\ left = 0 /\ expects = Any
  /\ client = FALSE /\ tx = FALSE /\ faults = 0
  /\ pc = "off" /\ turn = "entry"

-----------------------------------------------------------------------------
(* The port.                                                                 *)

\* _startTransfer() of a device on a free port: it waits, is over at once or fails.
Begin(d) ==
  /\ use = None /\ use' = d /\ hw' = d /\ state' = [state EXCEPT ![d] = "run"]
  /\ UNCHANGED faults
BeginFails == use = None /\ faults < Faults /\ faults' = faults + 1 /\ UNCHANGED <<use, state, hw>>

\* pifI2cPort_sigEndTransfer() in the interrupt that ends the transfer on the bus; a
\* transfer that failed may have taken bytes.
EndTransfer ==
  /\ hw # None /\ hw' = None
  /\ \E ok \in BOOLEAN :
       /\ IF ok THEN UNCHANGED faults ELSE faults < Faults /\ faults' = faults + 1
       /\ state' = IF use # None /\ state[use] = "run"
                     THEN [state EXCEPT ![use] = IF ok THEN "complete" ELSE "error"] ELSE state
       /\ IF hw = Gps /\ phase = "data"
            THEN took' \in (IF ok THEN {took + size} ELSE took..took + size) ELSE UNCHANGED took
       /\ count' = IF hw = Gps /\ phase = "count" /\ ok THEN made - took ELSE count
  /\ UNCHANGED <<use, made, stream, reading, client, tx, task>>

\* Mutated Release: a transfer that failed keeps the port.
ReleaseNot(d, ok) ==
  /\ use = d /\ use' = (IF ok THEN None ELSE d) /\ state' = [state EXCEPT ![d] = "idle"]
  /\ \/ state[d] = (IF ok THEN "complete" ELSE "error") /\ UNCHANGED <<hw, took, faults>>
     \/ /\ ~ok /\ state[d] = "run" /\ faults < Faults /\ faults' = faults + 1 /\ hw' = None
        /\ IF d = Gps /\ phase = "data" THEN took' \in took..took + size ELSE UNCHANGED took

\* _checkTransfer(): the transfer is over, or it is given up after the timeout:
\* act_recover() stops it on the bus.
Release(d, ok) ==
  /\ use = d /\ use' = None /\ state' = [state EXCEPT ![d] = "idle"]
  /\ \/ state[d] = (IF ok THEN "complete" ELSE "error") /\ UNCHANGED <<hw, took, faults>>
     \/ /\ ~ok /\ state[d] = "run" /\ faults < Faults /\ faults' = faults + 1 /\ hw' = None
        /\ IF d = Gps /\ phase = "data" THEN took' \in took..took + size ELSE UNCHANGED took

\* The other device of the port, whose driver checks what it started.
OtherStarts ==
  /\ pc = "off" /\ Begin(Other)
  /\ UNCHANGED <<receiver, stream, reading, client, tx, task>>
OtherChecks ==
  /\ pc = "off" /\ \E ok \in BOOLEAN : Release(Other, ok)
  /\ UNCHANGED <<made, count, stream, reading, client, tx, task>>

\* External: the receiver.
Makes ==
  /\ made < Bytes /\ made' = made + 1
  /\ UNCHANGED <<port, took, count, stream, reading, client, tx, task>>

-----------------------------------------------------------------------------
(* The protocol: the count, then the bytes it says are there.                *)

LeastOf(a, b) == IF a < b THEN a ELSE b

\* pifDeviceStream_AbortRx(): the client is told of the gap.
AbortRx == left' = 0 /\ expects' = Any /\ UNCHANGED head

\* _start() with the protocol's _startRead(), and what follows in the task.
Start(started, none) ==
  \/ /\ (use # None \/ ~client) /\ pc' = none
     /\ UNCHANGED <<port, stream, reading>>
  \/ /\ client /\ Begin(Gps) /\ running' = TRUE /\ pc' = started
     /\ phase' = IF pending = 0 THEN "count" ELSE "data"
     /\ size' = IF pending = 0 THEN size ELSE LeastOf(pending, RxSize)
     /\ UNCHANGED <<pending, reading>>
  \/ /\ client /\ BeginFails /\ pc' = none /\ pending' = 0
     /\ IF pending > 0 THEN AbortRx ELSE UNCHANGED reading
     /\ UNCHANGED <<running, phase, size>>

\* _finishRead(): a read that failed may have taken bytes, so the count is asked for again.
Finish(ok) ==
  \/ phase = "count" /\ pending' = (IF ok THEN count ELSE pending) /\ UNCHANGED reading
  \/ /\ phase = "data" /\ ok /\ pending' = pending - size
     /\ left' = size /\ head' = took - size /\ UNCHANGED expects
  \/ phase = "data" /\ ~ok /\ pending' = 0 /\ AbortRx

-----------------------------------------------------------------------------
(* _doTask() of the stream.                                                  *)

\* The task is paused while there is neither a client nor a transfer.
RunTask ==
  /\ pc = "off" /\ (client \/ running)
  /\ pc' = "poll" /\ turn' = IF running THEN "was" ELSE "entry"
  /\ UNCHANGED <<port, receiver, stream, reading, client, tx>>

\* _poll(): the transfer still runs, it is over, or there is none.
PollWaits ==
  /\ pc = "poll" /\ running /\ state[Gps] = "run"
  /\ pc' = IF turn = "clear" THEN "poll" ELSE "off"
  /\ UNCHANGED <<port, receiver, stream, reading, client, tx, turn>>
PollEnds ==
  /\ pc = "poll" /\ running /\ running' = FALSE
  /\ \E ok \in BOOLEAN :
       /\ Release(Gps, ok) /\ Finish(ok)
       /\ pc' = IF ok /\ phase = "count" /\ count > 0 THEN "now" ELSE "poll"
  /\ UNCHANGED <<made, count, phase, size, client, tx, turn>>
PollNow ==
  /\ pc = "now" /\ Start("poll", "poll")
  /\ UNCHANGED <<receiver, client, tx, turn>>
Polled ==
  /\ pc = "poll" /\ ~running
  /\ pc' = IF turn = "clear" THEN "gone" ELSE IF ~client THEN "off"
           ELSE IF turn = "second" THEN "parse" ELSE "send"
  /\ UNCHANGED <<port, receiver, stream, reading, client, tx, turn>>

\* _send(): what the client has to send is written at once, on a port that is free.
Send ==
  /\ pc = "send"
  /\ \/ tx /\ use # None /\ pc' = "off" /\ UNCHANGED tx
     \/ (~tx \/ use = None) /\ pc' = "parse" /\ tx' = FALSE
  /\ UNCHANGED <<port, receiver, stream, reading, client, turn>>

\* _parse(): the client takes bytes or leaves them for the next run.
Parse ==
  /\ pc = "parse"
  /\ \/ \E k \in 1..left : head' = head + k /\ left' = left - k /\ expects' = head + k /\ UNCHANGED pc
     \/ left > 0 /\ pc' = "off" /\ UNCHANGED reading
     \/ left = 0 /\ pc' = (IF turn = "entry" THEN "start" ELSE "off") /\ UNCHANGED reading
  /\ UNCHANGED <<port, receiver, stream, client, tx, turn>>

StartOne ==
  /\ pc = "start" /\ turn' = "second" /\ Start("poll", "parse")
  /\ UNCHANGED <<receiver, client, tx>>

TaskStep == PollWaits \/ PollEnds \/ PollNow \/ Polled \/ Send \/ Parse \/ StartOne

-----------------------------------------------------------------------------
(* The client and the application, between two runs of the task.             *)

Attach ==
  /\ pc = "off" /\ client' = TRUE /\ tx' = FALSE
  /\ left' = 0 /\ expects' = Any
  /\ UNCHANGED <<port, receiver, stream, head, task>>

Detach ==
  /\ pc = "off" /\ client /\ client' = FALSE /\ tx' = FALSE
  /\ left' = 0 /\ expects' = Any
  /\ UNCHANGED <<port, receiver, stream, head, task>>

HasToSend ==
  /\ pc = "off" /\ client /\ ~tx /\ tx' = TRUE
  /\ UNCHANGED <<port, receiver, stream, reading, client, task>>

\* pifUbxDdcStream_Clear(): the client goes and the transfer is polled to its end.
Clear ==
  /\ pc = "off" /\ client' = FALSE /\ tx' = FALSE /\ left' = 0 /\ expects' = Any
  /\ pc' = "poll" /\ turn' = "clear"
  /\ UNCHANGED <<port, receiver, stream, head>>

Next ==
  \/ EndTransfer \/ Makes \/ OtherStarts \/ OtherChecks
  \/ RunTask \/ TaskStep \/ Attach \/ Detach \/ HasToSend \/ Clear

Spec == Init /\ [][Next]_vars

RunOnFree == RunTask /\ use = None
Reads == Parse /\ left' < left

\* The task goes on and finds the port free at times, the client reads, a transfer ends and
\* the other driver looks at it.
FairSpec ==
  /\ Spec
  /\ WF_vars(TaskStep) /\ WF_vars(RunTask) /\ SF_vars(RunOnFree)
  /\ SF_vars(Reads) /\ WF_vars(EndTransfer) /\ SF_vars(OtherChecks)

-----------------------------------------------------------------------------
\* The bytes a client reads follow each other: it is told of every byte that a failed
\* transfer lost before it gets one behind it.
GapsAreTold == client /\ left > 0 => expects \in {Any, head}

\* Nothing else looks at __p_rx while the bus may write into it: the client has read all
\* of the last transfer, and the buffer is not freed nor the device removed.
BufferIsBus == hw = Gps /\ phase = "data" => left = 0 /\ pc # "gone"

\* The port is the stream's as long as the stream follows a transfer, and no longer: a
\* transfer nobody follows would keep every device off the bus.
PortFollowed == (use = Gps) <=> running

\* The receiver is not read past what it holds, which it answers with idle bytes.
NoFiller == running /\ phase = "data" /\ state[Gps] = "run" /\ hw = Gps => took + size <= made

\* A client that stays gets to read what the receiver makes, and its own bytes leave.
Waiting == client /\ took < made
HasBytes == tx
Served == (Waiting ~> ~Waiting) /\ (HasBytes ~> ~HasBytes)

-----------------------------------------------------------------------------
(* The inductive invariant these rest on.                                    *)

TypeOK ==
  /\ use \in {None, Gps, Other} /\ hw \in {None, Gps, Other}
  /\ state \in [{Gps, Other} -> {"idle", "run", "complete", "error"}]
  /\ made \in Nat /\ took \in Nat /\ count \in Nat /\ pending \in Nat /\ size \in Nat
  /\ head \in Nat /\ left \in Nat /\ expects \in Nat
  /\ phase \in {"count", "data"} /\ faults \in Nat
  /\ pc \in {"off", "poll", "now", "send", "parse", "start", "gone"}
  /\ turn \in {"was", "entry", "second", "clear"}

\* The bus works for the device that has the port, until its transfer is over.
BusIsPort ==
  \A d \in {Gps, Other} :
    /\ hw = d <=> use = d /\ state[d] = "run"
    /\ state[d] # "idle" <=> use = d

\* A read is started when the last one has been parsed.
ReadAfterParse ==
  /\ running => left = 0
  /\ pc \in {"now", "start"} => left = 0
  /\ pc = "gone" => ~running

Reading == running /\ phase = "data"

\* What the receiver still holds covers what the stream goes by: the count it has just been
\* given, what it has not read of it and the read on the bus.
HeldByReceiver ==
  /\ took <= made
  /\ running /\ phase = "count" => pending = 0
  /\ running /\ phase = "count" /\ state[Gps] = "complete" => took + count <= made
  /\ Reading => size <= pending
  /\ IF Reading /\ state[Gps] = "complete" THEN took + pending <= made + size /\ size <= took
     ELSE (Reading /\ state[Gps] = "error") \/ took + pending <= made

\* The byte the client expects is the first one it is going to be given.
ExpectsNext ==
  /\ left > 0 => head + left = took
  /\ expects # Any /\ ~(Reading /\ state[Gps] = "error") =>
       expects = IF Reading /\ state[Gps] = "complete" THEN took - size
                 ELSE IF left > 0 THEN head ELSE took

Inv == TypeOK /\ BusIsPort /\ PortFollowed /\ ReadAfterParse /\ HeldByReceiver /\ ExpectsNext
=============================================================================
