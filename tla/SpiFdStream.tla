----------------------------- MODULE SpiFdStream -----------------------------
(* A device exchanged bytes with in full duplex (communication/pif_spi_fd_stream.c *)
(* on pif_device_stream.c), on a port (pif_spi.c) it shares with another device.   *)
(* Every transfer sends what the client wrote and reads as many bytes.  Unlike     *)
(* I2C a port has no act_recover: what is given up after the timeout stays on the  *)
(* bus, which refuses a start until it is over.  The bytes of the device and those *)
(* of the clients are numbered; the idle bytes of a device that has no more are    *)
(* left out.                                                                       *)
EXTENDS Naturals

CONSTANTS
  Bytes,       \* the bound on the bytes the device makes
  LookIdle,    \* those among them that are the idle byte
  Writes,      \* the bound on the bytes clients write
  Size,        \* the length of a transfer: the least of transfer_size, __rx_size and max_transfer_size
  TxSize,      \* __tx_size
  Faults       \* the bound on transfers that fail

VARIABLES
  use, state,  \* __use_device of the port and _state of each device
  hw,          \* the device whose transfer is on the bus
  made, took,  \* bytes the device has made and has given out
  given,       \* how many of them were in the last transfer
  has,         \* the device has every byte of the clients up to this one, or it was dropped
  running,     \* __running of the stream
  out, sent,   \* the last byte in __p_out, and __sent
  head, left,  \* the first byte in __p_rx that is not read yet, and how many
  expects,     \* the byte the client expects next, Any after a gap it was told of
  client,      \* the client reads and writes, only writes, or there is none
  taken,       \* __p_tx holds the bytes behind this one ...
  written,     \* ... up to this one
  pc, turn,    \* where _doTask() is, as in DeviceStream
  faults

None == "none"
Fd == "fd"
Other == "other"
Any == Bytes + 1

port == <<use, state, hw, faults>>
device == <<made, took, given, has>>
stream == <<running, out, sent>>
reading == <<head, left, expects>>
writing == <<taken, written>>
task == <<pc, turn>>
vars == <<port, device, stream, reading, client, writing, task>>

Init ==
  /\ use = None /\ state = [d \in {Fd, Other} |-> "idle"] /\ hw = None
  /\ made = 0 /\ took = 0 /\ given = 0 /\ has = 0
  /\ running = FALSE /\ out = 0 /\ sent = 0
  /\ head = 0 /\ left = 0 /\ expects = Any
  /\ client = "none" /\ taken = 0 /\ written = 0 /\ faults = 0
  /\ pc = "off" /\ turn = "entry"

LeastOf(a, b) == IF a < b THEN a ELSE b
MostOf(a, b) == IF a < b THEN b ELSE a

-----------------------------------------------------------------------------
(* The port.                                                                 *)

\* pifSpiDevice_StartTransfer() on a port that is not held: a bus that is still busy refuses.
Begin(d) ==
  /\ use = None /\ hw = None /\ use' = d /\ hw' = d /\ state' = [state EXCEPT ![d] = "run"]
  /\ UNCHANGED faults
BeginFails ==
  /\ use = None /\ UNCHANGED <<use, state, hw>>
  /\ \/ hw # None /\ UNCHANGED faults
     \/ hw = None /\ faults < Faults /\ faults' = faults + 1

\* What the exchange left in the device: all of it, or some when it failed.
Exchanged(ok) ==
  LET full == LeastOf(Size, made - took)
      last == IF out - sent <= has THEN MostOf(has, out) ELSE has
  IN IF ok THEN given' = full /\ took' = took + full /\ has' = last
     ELSE given' = 0 /\ took' \in {took, took + full} /\ has' \in {has, last}

\* pifSpiPort_sigEndTransfer() when the transfer on the bus ends, late or not.
EndTransfer ==
  /\ hw # None /\ hw' = None
  /\ \E ok \in BOOLEAN :
       /\ IF ok THEN UNCHANGED faults ELSE faults < Faults /\ faults' = faults + 1
       /\ state' = IF use # None /\ state[use] = "run"
                     THEN [state EXCEPT ![use] = IF ok THEN "complete" ELSE "error"] ELSE state
       /\ IF hw = Fd THEN Exchanged(ok) ELSE UNCHANGED <<given, took, has>>
  /\ UNCHANGED <<use, made, stream, reading, client, writing, task>>

\* _checkTransfer(): the transfer is over, or the port is left after the timeout.
Release(d, ok) ==
  /\ use = d /\ use' = None /\ state' = [state EXCEPT ![d] = "idle"] /\ UNCHANGED hw
  /\ \/ state[d] = (IF ok THEN "complete" ELSE "error") /\ UNCHANGED faults
     \/ ~ok /\ state[d] = "run" /\ faults < Faults /\ faults' = faults + 1

\* The other device of the port, whose driver checks what it started.
OtherStarts ==
  /\ pc = "off" /\ Begin(Other)
  /\ UNCHANGED <<device, stream, reading, client, writing, task>>
OtherChecks ==
  /\ pc = "off" /\ \E ok \in BOOLEAN : Release(Other, ok)
  /\ UNCHANGED <<device, stream, reading, client, writing, task>>

\* External: the device.
Makes ==
  /\ made < Bytes /\ made' = made + 1
  /\ UNCHANGED <<port, took, given, has, stream, reading, client, writing, task>>

-----------------------------------------------------------------------------
(* The protocol: every transfer carries both ways.                           *)

\* _start() with _startTransfer(): __p_out is filled before the port is asked.
Start ==
  LET n == LeastOf(written - taken, Size)
      wanted == client = "both" \/ taken < written
  IN \/ /\ use # None \/ ~wanted
        /\ pc' = (IF use # None /\ taken < written THEN "off" ELSE "parse")
        /\ UNCHANGED <<port, stream>>
     \/ /\ wanted /\ Begin(Fd) /\ out' = taken + n /\ sent' = n /\ running' = TRUE /\ pc' = "poll"
     \/ /\ wanted /\ BeginFails /\ pc' = "parse"
        /\ out' = (IF hw = Fd THEN taken + n ELSE out) /\ UNCHANGED <<sent, running>>

\* _finishTransfer(): what the client wrote is taken from __p_tx once it was sent, and what
\* came is the client's unless all of it looks idle.
Finish(ok) ==
  IF ok
    THEN LET brought == took - given + 1..took
             received == ~(brought \subseteq LookIdle)
         IN /\ taken' = LeastOf(taken + sent, written)
            /\ IF received THEN left' = given /\ head' = took - given /\ UNCHANGED expects
               ELSE UNCHANGED reading
    ELSE left' = 0 /\ expects' = Any /\ UNCHANGED <<head, taken>>

-----------------------------------------------------------------------------
(* _doTask() of the stream.                                                  *)

RunTask ==
  /\ pc = "off" /\ (client # "none" \/ running)
  /\ pc' = "poll" /\ turn' = IF running THEN "was" ELSE "entry"
  /\ UNCHANGED <<port, device, stream, reading, client, writing>>

PollWaits ==
  /\ pc = "poll" /\ running /\ state[Fd] = "run"
  /\ pc' = IF turn = "clear" THEN "poll" ELSE "off"
  /\ UNCHANGED <<port, device, stream, reading, client, writing, turn>>
PollEnds ==
  /\ pc = "poll" /\ running /\ running' = FALSE
  /\ \E ok \in BOOLEAN : Release(Fd, ok) /\ Finish(ok)
  /\ UNCHANGED <<device, out, sent, client, written, task>>
Polled ==
  /\ pc = "poll" /\ ~running
  /\ pc' = IF turn = "clear" THEN "gone" ELSE IF client = "none" THEN "off"
           ELSE IF turn = "second" THEN "parse" ELSE "send"
  /\ UNCHANGED <<port, device, stream, reading, client, writing, turn>>

\* _send(): the client is asked for bytes when the last ones have gone.
Send ==
  /\ pc = "send" /\ pc' = "parse"
  /\ \/ taken < written /\ UNCHANGED written
     \/ taken = written /\ \E k \in 0..TxSize : written + k <= Writes /\ written' = written + k
  /\ UNCHANGED <<port, device, stream, reading, client, taken, turn>>

\* _parse(): the client takes bytes or leaves them for the next run.
Parse ==
  /\ pc = "parse"
  /\ \/ /\ client = "both"
        /\ \E k \in 1..left : head' = head + k /\ left' = left - k /\ expects' = head + k
        /\ UNCHANGED pc
     \/ client = "both" /\ left > 0 /\ pc' = "off" /\ UNCHANGED reading
     \/ client = "sends" /\ left > 0 /\ left' = 0 /\ UNCHANGED <<head, expects, pc>>
     \/ left = 0 /\ pc' = (IF turn = "entry" THEN "start" ELSE "off") /\ UNCHANGED reading
  /\ UNCHANGED <<port, device, stream, client, writing, turn>>

StartOne ==
  /\ pc = "start" /\ turn' = "second" /\ Start
  /\ UNCHANGED <<device, reading, client, writing>>

TaskStep == PollWaits \/ PollEnds \/ Polled \/ Send \/ Parse \/ StartOne

-----------------------------------------------------------------------------
(* The client and the application, between two runs of the task.             *)

\* What the client before has not sent is dropped, and may still be on its way.
Changes(to) ==
  /\ client' = to /\ left' = 0 /\ expects' = Any
  /\ taken' = written /\ has' = MostOf(has, written)
  /\ UNCHANGED <<port, made, took, given, stream, head, written>>

Attach == pc = "off" /\ \E kind \in {"both", "sends"} : Changes(kind) /\ UNCHANGED task
Detach == pc = "off" /\ client # "none" /\ Changes("none") /\ UNCHANGED task

\* pifSpiFdStream_Clear(): the client goes and the transfer is polled to its end.
Clear == pc = "off" /\ Changes("none") /\ pc' = "poll" /\ turn' = "clear"

Next ==
  \/ EndTransfer \/ Makes \/ OtherStarts \/ OtherChecks
  \/ RunTask \/ TaskStep \/ Attach \/ Detach \/ Clear

Spec == Init /\ [][Next]_vars

RunOnFree == RunTask /\ use = None /\ hw = None
Reads == Parse /\ left' < left

\* As in DeviceStream, and the bus ends what is on it.
FairSpec ==
  /\ Spec
  /\ WF_vars(TaskStep) /\ WF_vars(RunTask) /\ SF_vars(RunOnFree)
  /\ SF_vars(Reads) /\ WF_vars(EndTransfer) /\ SF_vars(OtherChecks)

-----------------------------------------------------------------------------
\* A byte the client wrote leaves __p_tx only when the device has it, and everything before
\* it, whatever failed, came late or was handed over by another client.
TakenWasSent == taken <= has

\* The bytes a client reads follow each other: it is told of what a transfer lost, but for
\* idle bytes of the device that filled a transfer on their own.
GapsAreTold ==
  client = "both" /\ left > 0 =>
    expects = Any \/ (expects <= head /\ expects + 1..head \subseteq LookIdle)

\* The port is the stream's as long as the stream follows a transfer.
PortFollowed == (use = Fd) <=> running

\* A client that stays gets to read what the device makes, and its own bytes leave.
Waiting == client = "both" /\ took < made
HasBytes == taken < written
Served == (Waiting ~> ~Waiting) /\ (HasBytes ~> ~HasBytes)

-----------------------------------------------------------------------------
(* The inductive invariant these rest on.                                    *)

TypeOK ==
  /\ use \in {None, Fd, Other} /\ hw \in {None, Fd, Other}
  /\ state \in [{Fd, Other} -> {"idle", "run", "complete", "error"}]
  /\ made \in 0..Bytes /\ took \in 0..made /\ given \in 0..took /\ has \in Nat
  /\ running \in BOOLEAN /\ out \in Nat /\ sent \in Nat
  /\ head \in Nat /\ left \in Nat /\ expects \in Nat /\ faults \in Nat
  /\ taken \in Nat /\ written \in Nat /\ taken <= written
  /\ client \in {"both", "sends", "none"}
  /\ pc \in {"off", "poll", "send", "parse", "start", "gone"}
  /\ turn \in {"was", "entry", "second", "clear"}

\* The bus works for the device that has the port until its transfer is over; a transfer that
\* nobody follows any more may be on it while nobody has the port.
BusIsPort ==
  /\ \A d \in {Fd, Other} : state[d] # "idle" <=> use = d
  /\ \A d \in {Fd, Other} : use = d => hw = IF state[d] = "run" THEN d ELSE None

\* A transfer is started when all of the last one has been read, and the task goes on behind the
\* poll when it is over.
OneAtATime ==
  /\ running => left = 0 /\ pc \in {"off", "poll"}
  /\ pc = "start" => left = 0

\* What is on its way is what __p_tx begins with, or is of a client that has gone.
OnItsWay ==
  /\ running => \/ out = taken + sent /\ out <= written
                \/ taken = written /\ out <= taken
  /\ running /\ state[Fd] = "complete" => out <= has

\* What was taken from the device but is not the client's yet, or never will be.
Behind == IF running /\ state[Fd] = "complete" THEN took - given ELSE took

\* All that lies between the last byte the client read and the first that it is given next is
\* idle bytes, unless it was told.
ReadSoFar ==
  /\ left > 0 => head + left = took
  /\ hw = Fd /\ ~running => left = 0 /\ expects = Any
  /\ client = "both" /\ expects # Any /\ ~(running /\ state[Fd] = "error") =>
       LET next == IF left > 0 THEN head ELSE Behind
       IN expects <= next /\ expects + 1..next \subseteq LookIdle

Inv ==
  /\ TypeOK /\ BusIsPort /\ PortFollowed /\ OneAtATime /\ OnItsWay /\ ReadSoFar
  /\ TakenWasSent
=============================================================================
