----------------------------- MODULE CanStream -----------------------------
(* A byte stream over CAN (communication/pif_can_stream.c on pif_can.c), from the *)
(* client that writes, through the TX task, the mailboxes of the controller and   *)
(* the bus, to the interrupt, the RX task and the client that reads.  The bytes   *)
(* are numbered; a frame is its first byte and its length.                        *)
EXTENDS Naturals, Sequences, FiniteSetsExt

CONSTANTS
  Blocks,      \* sizes of what the client has to write at once
  Total,       \* bytes the client has to write at most
  Lengths,     \* lengths a frame can have (c_dlc_length)
  FrameSize,   \* _frame_size, one of Lengths
  TxCount, RxCount,   \* frames the queues hold
  RxSize,      \* bytes _rx_buffer holds
  Mailboxes,   \* frames the controller holds
  Signals      \* the controller calls pifCan_SigTxComplete()

VARIABLES
  ready,       \* bytes the client has had to write so far
  written, pend,   \* bytes taken from the client, and those of them in __tx_frame
  txq, mail,   \* __tx_queue and the frames in the controller
  bus,         \* _bus_state is not CBS_BUS_OFF
  tdue, tpc,   \* the TX task is to run, and where it is
  rxq,         \* __rx_queue
  buf,         \* _rx_buffer, as a sequence of bytes
  lost,        \* bytes counted in _rx_lost, of the controller and of the stream
  rdue, rpc, count,   \* the RX task is to run, where it is, and frames it may still take
  client,      \* a client is attached to the stream that reads
  got, last,   \* bytes it was given, and the last of them
  dropped      \* bytes that were dropped while no client read

sending == <<ready, written, pend, txq, tdue, tpc>>
receiving == <<rdue, rpc, count, client, got, last, buf, dropped>>
vars == <<sending, mail, bus, rxq, lost, receiving>>

Init ==
  /\ ready = 0 /\ written = 0 /\ pend = 0 /\ txq = <<>> /\ mail = <<>> /\ bus = TRUE
  /\ tdue = TRUE /\ tpc = "off" /\ rxq = <<>> /\ buf = <<>> /\ lost = 0
  /\ rdue = FALSE /\ rpc = "off" /\ count = 0 /\ client = TRUE /\ got = 0 /\ last = 0 /\ dropped = 0

Frame(first, length) == [first |-> first, length |-> length]
BytesOf(f) == [k \in 1..f.length |-> f.first + k - 1]

\* The length of the first n frames of q, and of all.
LengthTo(q, n) == LET sum[k \in 0..n] == IF k = 0 THEN 0 ELSE sum[k - 1] + q[k].length IN sum[n]
LengthOf(q) == LengthTo(q, Len(q))

-----------------------------------------------------------------------------
(* Sending.                                                                  *)

FloorLength(n) == Max({l \in Lengths : l <= n})
Room == Len(txq) < TxCount

\* pifTransport_TriggerSend(): the client has something new to write, at any time, and says so.
TriggerSend ==
  /\ \E b \in Blocks : ready + b <= Total /\ ready' = ready + b
  /\ tdue' = TRUE
  /\ UNCHANGED <<written, pend, txq, tpc, mail, bus, rxq, lost, receiving>>

\* _doTxTask(): nothing while the bus is off, else the client and then the queue.
RunTx ==
  /\ tdue /\ tpc = "off" /\ rpc = "off"
  /\ tdue' = FALSE /\ tpc' = IF bus THEN "flush" ELSE "off"
  /\ UNCHANGED <<ready, written, pend, txq, mail, bus, rxq, lost, receiving>>

\* _queueFrame(): the first n bytes that are pending.  pifCan_SendFrame() triggers the task.
QueueFrame(n) ==
  /\ txq' = Append(txq, Frame(written - pend + 1, n)) /\ pend' = pend - n
  /\ tdue' = TRUE

\* Mutated Flush: the client is asked though bytes are pending, which are given up.
FlushOnce ==
  /\ tpc \in {"flush", "flush again"}
  /\ IF pend > 0 /\ Room
       THEN QueueFrame(FloorLength(pend)) /\ UNCHANGED tpc
       ELSE /\ tpc' = IF tpc = "flush" THEN "ask" ELSE "hand"
            /\ pend' = (IF tpc = "flush" THEN 0 ELSE pend) /\ UNCHANGED <<txq, tdue>>
  /\ UNCHANGED <<ready, written, mail, bus, rxq, lost, receiving>>

\* _flush(), before and after the client is asked: what is pending goes first, in pieces
\* as large as a frame can be, and the client is asked only when all of it is queued.
Flush ==
  /\ tpc \in {"flush", "flush again"}
  /\ IF pend > 0 /\ Room
       THEN QueueFrame(FloorLength(pend)) /\ UNCHANGED tpc
       ELSE /\ tpc' = IF tpc = "flush" /\ pend = 0 /\ Room THEN "ask" ELSE "hand"
            /\ UNCHANGED <<txq, pend, tdue>>
  /\ UNCHANGED <<ready, written, mail, bus, rxq, lost, receiving>>

\* _actSend() of a client that writes all it has: a frame that is full is queued as more
\* bytes come.  A client that has written is asked again soon.
Write ==
  /\ tpc = "ask"
  /\ \/ /\ written < ready /\ pend < FrameSize
        /\ LET n == Min({FrameSize - pend, ready - written})
           IN written' = written + n /\ pend' = pend + n
        /\ tdue' = TRUE /\ UNCHANGED <<tpc, txq>>
     \/ /\ written < ready /\ pend = FrameSize /\ Room
        /\ QueueFrame(FrameSize) /\ UNCHANGED <<written, tpc>>
     \/ /\ written = ready \/ (pend = FrameSize /\ ~Room)
        /\ tpc' = "flush again" /\ UNCHANGED <<written, pend, txq, tdue>>
  /\ UNCHANGED <<ready, mail, bus, rxq, lost, receiving>>

\* act_send_frame(): a frame that is refused is tried again after a frame's time.
Hand ==
  /\ tpc = "hand"
  /\ IF txq = <<>> \/ Len(mail) = Mailboxes
       THEN tpc' = "off" /\ tdue' = (tdue \/ txq # <<>>) /\ UNCHANGED <<mail, txq>>
       ELSE /\ mail' = Append(mail, Head(txq)) /\ txq' = Tail(txq)
            /\ UNCHANGED <<tdue, tpc>>
  /\ UNCHANGED <<ready, written, pend, bus, rxq, lost, receiving>>

-----------------------------------------------------------------------------
(* The bus and its interrupts.                                               *)

\* A frame is through: pifCan_SigTxComplete() at the one end, pifCan_PutRxFrame() at the other.
Transmit ==
  /\ mail # <<>> /\ bus /\ mail' = Tail(mail)
  /\ tdue' = (tdue \/ Signals)
  /\ IF Len(rxq) < RxCount
       THEN rxq' = Append(rxq, Head(mail)) /\ rdue' = TRUE /\ UNCHANGED lost
       ELSE lost' = lost + Head(mail).length /\ UNCHANGED <<rxq, rdue>>
  /\ UNCHANGED <<ready, written, pend, txq, tpc, bus, rpc, count, client, got, last, buf, dropped>>

\* pifCan_SigBusState().
BusOff == bus /\ bus' = FALSE /\ UNCHANGED <<sending, mail, rxq, lost, receiving>>
BusRecovers ==
  /\ ~bus /\ bus' = TRUE /\ tdue' = TRUE
  /\ UNCHANGED <<ready, written, pend, txq, tpc, mail, rxq, lost, receiving>>

-----------------------------------------------------------------------------
(* Receiving.                                                                *)

\* The client reads k bytes of buf.
Reads(k) ==
  /\ got' = got + k /\ last' = IF k = 0 THEN last ELSE buf[k]
  /\ buf' = SubSeq(buf, k + 1, Len(buf))

RunRx ==
  /\ rdue /\ rpc = "off" /\ tpc = "off"
  /\ rdue' = FALSE /\ rpc' = "take" /\ count' = RxCount
  /\ UNCHANGED <<sending, mail, bus, rxq, lost, client, got, last, buf, dropped>>

\* _evtCanReceive(): the client is called when a frame does not fit, and if it still does
\* not, the frame is lost whole.
Take ==
  /\ rpc = "take" /\ count > 0 /\ rxq # <<>> /\ rpc' = "remove" /\ count' = count - 1
  /\ LET f == Head(rxq)
     IN IF ~client THEN dropped' = dropped + f.length /\ UNCHANGED <<lost, got, last, buf>>
        ELSE \E k \in 0..Len(buf) :
          /\ k > 0 => RxSize - Len(buf) < f.length
          /\ got' = got + k /\ last' = IF k = 0 THEN last ELSE buf[k]
          /\ LET rest == SubSeq(buf, k + 1, Len(buf))
             IN IF RxSize - Len(rest) < f.length
                  THEN buf' = rest /\ lost' = lost + f.length
                  ELSE buf' = rest \o BytesOf(f) /\ UNCHANGED lost
          /\ UNCHANGED dropped
  /\ UNCHANGED <<sending, mail, bus, rxq, rdue, client>>
TakeOff ==
  /\ rpc = "remove" /\ rxq' = Tail(rxq) /\ rpc' = "take"
  /\ UNCHANGED <<sending, mail, bus, lost, rdue, count, client, got, last, buf, dropped>>

\* _evtCanRxDone(), after the frames, or after as many as the queue holds: the task runs
\* again for bytes the client left and for frames.
RxDone ==
  /\ rpc = "take" /\ (rxq = <<>> \/ count = 0) /\ rpc' = "off"
  /\ IF client THEN \E k \in 0..Len(buf) : Reads(k) ELSE UNCHANGED <<got, last, buf>>
  /\ rdue' = (rdue \/ rxq # <<>> \/ buf' # <<>>)
  /\ UNCHANGED <<sending, mail, bus, rxq, lost, count, client, dropped>>

\* A client is attached or detached: the buffer is emptied.
Client ==
  /\ rpc = "off" /\ tpc = "off" /\ client' = ~client
  /\ dropped' = dropped + Len(buf) /\ buf' = <<>>
  /\ UNCHANGED <<sending, mail, bus, rxq, lost, rdue, rpc, count, got, last>>

TxWorks == RunTx \/ Flush \/ Write \/ Hand
RxWorks == RunRx \/ Take \/ TakeOff \/ RxDone

Next == TriggerSend \/ TxWorks \/ RxWorks \/ Transmit \/ BusOff \/ BusRecovers \/ Client

Spec == Init /\ [][Next]_vars

RunOnBus == RunTx /\ bus
ReadAll == RxDone /\ client /\ buf' = <<>>

\* Both tasks go on, the bus is not off for ever nor when the TX task looks each time, and
\* the client reads all at times.
FairSpec ==
  /\ Spec
  /\ WF_vars(TxWorks) /\ SF_vars(RunTx) /\ SF_vars(RunOnBus)
  /\ SF_vars(Transmit) /\ WF_vars(BusRecovers)
  /\ WF_vars(RxWorks) /\ SF_vars(RunRx) /\ SF_vars(ReadAll)

-----------------------------------------------------------------------------
\* What the client reads is in order, and no byte comes twice.
BytesInOrder ==
  \A k \in 1..Len(buf) : buf[k] > (IF k = 1 THEN last ELSE buf[k - 1])

\* Every byte that was written is on its way, was read, or is counted as lost; only with
\* no client bytes go uncounted.
LossIsCounted ==
  written = got + lost + dropped + Len(buf) + pend
            + LengthOf(txq) + LengthOf(mail)
            + LengthOf(IF rpc = "remove" THEN Tail(rxq) ELSE rxq)

\* evt_sending is called again after the time it returns, "or 0 for no need" (PifCanClient): it
\* returns 0 only when there is nothing to send, so that all a client has, and has triggered the
\* TX task for, is taken from it and leaves.
AllSent == written = ready /\ pend = 0 /\ txq = <<>> /\ mail = <<>>
BytesLeave == <>[]AllSent

\* Whatever the bus delivered is taken: no frame and no byte is left behind.
AllTaken == rxq = <<>> /\ buf = <<>>
BytesArrive == <>[]AllTaken

-----------------------------------------------------------------------------
(* The inductive invariant these rest on.                                    *)

Frames == [first : Nat \ {0}, length : Nat \ {0}]

\* The frames that have come and are not taken.
Arrived == IF rpc = "remove" THEN Tail(rxq) ELSE rxq

TypeOK ==
  /\ ready \in Nat /\ written \in 0..ready /\ pend \in 0..FrameSize /\ pend <= written
  /\ txq \in Seq(Frames) /\ mail \in Seq(Frames) /\ rxq \in Seq(Frames) /\ buf \in Seq(Nat)
  /\ lost \in Nat /\ dropped \in Nat /\ got \in Nat /\ last \in Nat /\ count \in 0..RxCount
  /\ bus \in BOOLEAN /\ tdue \in BOOLEAN /\ rdue \in BOOLEAN /\ client \in BOOLEAN
  /\ tpc \in {"off", "flush", "ask", "flush again", "hand"} /\ rpc \in {"off", "take", "remove"}
  /\ rpc = "remove" => rxq # <<>>

After(f) == f.first + f.length

\* The frames of q hold bytes one behind the other, all behind byte l and byte by byte behind
\* those of b, up to byte n.
Follows(q, b, l, n) ==
  /\ \A i, j \in 1..Len(q) : i < j => After(q[i]) <= q[j].first
  /\ \A i \in 1..Len(q) : /\ l < q[i].first /\ After(q[i]) <= n + 1
                          /\ \A k \in 1..Len(b) : b[k] < q[i].first

\* The frames of p come before those of q.
Before(p, q) == \A i \in 1..Len(p), j \in 1..Len(q) : After(p[i]) <= q[j].first

\* The bytes b between byte l and byte n, in order.
Between(b, l, n) ==
  /\ l <= n
  /\ \A k \in 1..Len(b) : l < b[k] /\ b[k] <= n
  /\ \A j, k \in 1..Len(b) : j < k => b[j] < b[k]

\* What was read, the buffer and the three queues follow each other, up to the bytes of the
\* client that are in no frame.
Line(l, b, r, m, t, n) ==
  /\ Between(b, l, n)
  /\ Follows(r, b, l, n) /\ Follows(m, b, l, n) /\ Follows(t, b, l, n)
  /\ Before(r, m) /\ Before(r, t) /\ Before(m, t)
InLine == Line(last, buf, Arrived, mail, txq, written - pend)

Inv == TypeOK /\ InLine /\ LossIsCounted

=============================================================================
