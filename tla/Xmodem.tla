------------------------------- MODULE Xmodem -------------------------------
(* An XMODEM transfer (protocol/pif_xmodem.c): the sender with the application   *)
(* of test_pif_transport.c on it, the receiver, and the line between them, which *)
(* loses or spoils up to Faults messages.  A message is a packet or a control    *)
(* byte; a packet arrives whole, with wrong contents, or cut short, and a cut    *)
(* one takes in what comes next.  A timeout comes when the other side will not   *)
(* answer any more, or, if Late, at any time.  An application that has cancelled *)
(* makes nothing of what it is told after that.                                  *)
EXTENDS Naturals, Sequences

CONSTANTS
  Start,       \* what asks to start: "C" in XT_CRC, "NAK" in XT_ORIGINAL
  Packets,     \* packets of the transfer
  Faults,      \* messages the line may spoil
  Retries,     \* PIF_XMODEM_EOT_RETRY
  Late,        \* an answer may take longer than its timeout
  MaxQueue     \* bound on the messages under way in one direction

VARIABLES
  stx, no, sfin, retry,   \* the sender's __tx.state, __p_data[1], __finish, __tx.retry
  rtx, rrx, last, rfin,   \* the receiver's __tx.state, __rx.state, last_packet_no, __finish
  toR, toS,    \* the line
  faults,      \* faults so far
  got,         \* packets passed to the receiver's application
  send, recv   \* what each application was told: "going", "finish" or "cancel"

sender == <<stx, no, sfin, retry, send>>
receiver == <<rtx, rrx, last, rfin, recv, got>>
vars == <<sender, receiver, toR, toS, faults>>

Packet(n, how) == [no |-> n, how |-> how]
Hows == {"whole", "wrong", "cut"}
IsPacket(m) == m.how \in Hows
Byte(b) == [no |-> 0, how |-> b]

\* Both applications have set up; the receiver's has called pifXmodem_ReadyReceive().
Init ==
  /\ stx = "idle" /\ no = 0 /\ sfin = FALSE /\ retry = 0 /\ send = "going"
  /\ rtx = "send C" /\ rrx = "idle" /\ last = 0 /\ rfin = FALSE /\ recv = "going"
  /\ toR = <<>> /\ toS = <<>> /\ faults = 0 /\ got = <<>>

-----------------------------------------------------------------------------
(* The sender.                                                               *)

\* pifXmodem_SendData() and pifXmodem_SendEot().
SendData(n) == stx' = "sending" /\ no' = n /\ UNCHANGED <<retry, send>>
SendEot == stx' = "EOT" /\ retry' = Retries /\ UNCHANGED <<no, send>>

\* The application: the next packet or EOT after an ACK, the same packet after a NAK; a
\* request to start finds it willing until the transfer is over.
Told(code) ==
  \/ code = "C" /\ send = "going" /\ SendData(1)
  \/ code = "C" /\ send # "going" /\ UNCHANGED <<stx, no, retry, send>>
  \/ code = "ACK" /\ no < Packets /\ SendData(no + 1)
  \/ code = "ACK" /\ no >= Packets /\ SendEot
  \/ code = "NAK" /\ SendData(no)
  \/ code = "CAN" /\ stx' = "idle" /\ send' = "cancel" /\ UNCHANGED <<no, retry>>

RetryEot ==
  IF retry > 0
    THEN stx' = "EOT" /\ retry' = retry - 1 /\ UNCHANGED <<no, send, sfin>>
    ELSE Told("CAN") /\ sfin' = FALSE

\* _evtParsing() while an answer is awaited.
Answer(code) ==
  \/ code = "ACK" /\ sfin /\ stx' = "idle" /\ sfin' = FALSE /\ send' = "finish" /\ UNCHANGED <<no, retry>>
  \/ code = "ACK" /\ ~sfin /\ Told("ACK") /\ UNCHANGED sfin
  \/ code = "NAK" /\ sfin /\ RetryEot
  \/ code = "NAK" /\ ~sfin /\ Told("NAK") /\ UNCHANGED sfin
  \/ code = "CAN" /\ Told("CAN") /\ sfin' = FALSE
  \/ code = "C" /\ UNCHANGED sender

\* Otherwise only a request to start says anything, and only to a sender that is idle.
SenderReads ==
  /\ toS # <<>> /\ toS' = Tail(toS)
  /\ LET code == Head(toS).how
     IN \/ stx = "wait" /\ Answer(code)
        \/ stx = "idle" /\ code = Start /\ Told("C") /\ sfin' = FALSE
        \/ stx # "wait" /\ ~(stx = "idle" /\ code = Start) /\ UNCHANGED sender
  /\ UNCHANGED <<receiver, toR, faults>>

\* _evtSending().
SenderSends ==
  /\ stx \in {"sending", "EOT", "CAN"} /\ Len(toR) < MaxQueue
  /\ toR' = Append(toR, IF stx = "sending" THEN Packet(no, "whole") ELSE Byte(stx))
  /\ stx' = IF stx = "CAN" THEN "idle" ELSE "wait"
  /\ sfin' = (sfin \/ stx = "EOT")
  /\ UNCHANGED <<no, retry, send, receiver, toS, faults>>

\* pifXmodem_SendCancel() by the sender's application, maybe in the midst of a packet.
SenderCancels ==
  /\ send = "going" /\ stx' = "CAN" /\ sfin' = FALSE /\ send' = "cancel"
  /\ \/ UNCHANGED toR
     \/ stx = "sending" /\ Len(toR) < MaxQueue /\ toR' = Append(toR, Packet(no, "cut"))
  /\ UNCHANGED <<no, retry, receiver, toS, faults>>

\* _txTimeout() of the sender.
SenderTimeout ==
  /\ stx = "wait"
  /\ Late \/ (toR = <<>> /\ toS = <<>> /\ rtx \in {"idle", "wait start"} /\ rrx = "idle")
  /\ IF sfin THEN RetryEot ELSE Told("NAK") /\ UNCHANGED sfin
  /\ UNCHANGED <<receiver, toR, toS, faults>>

-----------------------------------------------------------------------------
(* The receiver.                                                             *)

\* The first packet answers the request to start.
Started == IF rtx \in {"send C", "wait start"} THEN "idle" ELSE rtx

PassOn(n) == got' = IF recv = "cancel" THEN got ELSE Append(got, n)

\* A whole packet: one had before is acknowledged only, one out of sequence cancels.
Take(n) ==
  /\ rrx' = "idle"
  /\ \/ n = last /\ rtx' = "ACK" /\ UNCHANGED <<last, rfin, recv, got>>
     \/ /\ n = last + 1
        /\ last' = n /\ rtx' = "ACK" /\ PassOn(n) /\ UNCHANGED <<rfin, recv>>
     \/ /\ n \notin {last, last + 1}
        /\ last' = 0 /\ rtx' = "CAN" /\ recv' = "cancel" /\ UNCHANGED <<rfin, got>>

\* _parsingPacket() of what comes while nothing is being received.
Begin(m) ==
  \/ m.how = "whole" /\ Take(m.no)
  \/ m.how = "wrong" /\ rrx' = "purge" /\ rtx' = Started /\ UNCHANGED <<last, rfin, recv, got>>
  \/ m.how = "cut" /\ rrx' = "get" /\ rtx' = Started /\ UNCHANGED <<last, rfin, recv, got>>
  \/ /\ m.how = "EOT"
     /\ last' = 0 /\ rfin' = TRUE /\ rtx' = "ACK" /\ UNCHANGED <<rrx, recv, got>>
  \/ m.how = "CAN" /\ last' = 0 /\ recv' = "cancel" /\ UNCHANGED <<rrx, rtx, rfin, got>>

\* What comes behind a packet that was cut short fills it up, or is still too short to;
\* what comes during a purge pushes its end back.
ReceiverReads ==
  /\ toR # <<>> /\ toR' = Tail(toR)
  /\ \/ rrx = "idle" /\ Begin(Head(toR))
     \/ /\ rrx = "get"
        /\ rrx' \in (IF IsPacket(Head(toR)) THEN {"purge"} ELSE {"get", "purge"})
        /\ UNCHANGED <<rtx, last, rfin, recv, got>>
     \/ rrx = "purge" /\ UNCHANGED receiver
  /\ UNCHANGED <<sender, toS, faults>>

\* _rxTimeout(): the packet stalled or the line is quiet after a bad one.
RxTimeout ==
  /\ rrx \in {"get", "purge"} /\ (Late \/ toR = <<>>)
  /\ rrx' = "idle" /\ rtx' = "NAK"
  /\ UNCHANGED <<last, rfin, recv, got, sender, toR, toS, faults>>

\* Mutated StartTimeout: the request is made once.
StartOnce ==
  /\ rtx = "wait start"
  /\ Late \/ (toR = <<>> /\ toS = <<>> /\ stx \in {"idle", "wait"})
  /\ rtx' = "idle"
  /\ UNCHANGED <<rrx, last, rfin, recv, got, sender, toR, toS, faults>>

\* _txTimeout() of the receiver: the request is repeated, whatever the sender waits for.
StartTimeout ==
  /\ rtx = "wait start"
  /\ Late \/ (toR = <<>> /\ toS = <<>> /\ stx \in {"idle", "wait"})
  /\ rtx' = "send C"
  /\ UNCHANGED <<rrx, last, rfin, recv, got, sender, toR, toS, faults>>

\* _evtSending(): with the ACK of EOT the transfer is over.
ReceiverSends ==
  /\ rtx \in {"send C", "ACK", "NAK", "CAN"} /\ Len(toS) < MaxQueue
  /\ toS' = Append(toS, Byte(IF rtx = "send C" THEN Start ELSE rtx))
  /\ rtx' = IF rtx = "send C" THEN "wait start" ELSE "idle"
  /\ rfin' = (rfin /\ rtx \in {"NAK", "CAN"})
  /\ recv' = IF rtx = "ACK" /\ rfin /\ recv # "cancel" THEN "finish" ELSE recv
  /\ UNCHANGED <<rrx, last, got, sender, toR, faults>>

\* pifXmodem_SendCancel() by the receiver's application.
ReceiverCancels ==
  /\ recv = "going" /\ rtx' = "CAN" /\ rrx' = "idle" /\ last' = 0 /\ rfin' = FALSE
  /\ recv' = "cancel"
  /\ UNCHANGED <<got, sender, toR, toS, faults>>

-----------------------------------------------------------------------------
(* The line.                                                                 *)

Lose ==
  /\ faults < Faults /\ faults' = faults + 1
  /\ \/ toR # <<>> /\ toR' = Tail(toR) /\ UNCHANGED toS
     \/ toS # <<>> /\ toS' = Tail(toS) /\ UNCHANGED toR
  /\ UNCHANGED <<sender, receiver>>

Spoil ==
  /\ faults < Faults /\ faults' = faults + 1
  /\ toR # <<>> /\ Head(toR).how = "whole"
  /\ \E how \in {"wrong", "cut"} : toR' = <<Packet(Head(toR).no, how)>> \o Tail(toR)
  /\ UNCHANGED <<sender, receiver, toS>>

SenderWorks == SenderReads \/ SenderSends
ReceiverWorks == ReceiverReads \/ ReceiverSends \/ RxTimeout \/ StartTimeout

Next ==
  \/ SenderWorks \/ SenderTimeout \/ ReceiverWorks
  \/ Lose \/ Spoil \/ SenderCancels \/ ReceiverCancels

Spec == Init /\ [][Next]_vars

\* Both tasks go on, and the sender's timeout comes when no answer does.
FairSpec == Spec /\ WF_vars(SenderWorks) /\ SF_vars(SenderTimeout) /\ WF_vars(ReceiverWorks)

-----------------------------------------------------------------------------
All == [k \in 1..Packets |-> k]

\* The receiver's application gets the packets in order, each once, whatever the line
\* loses and however late an answer is.
InOrder == Len(got) <= Packets /\ got = SubSeq(All, 1, Len(got))

\* The sender sends no packet any more.
NoMore == stx = "EOT" \/ sfin \/ send # "going"

\* Every packet on the line is one of the transfer, and none is behind an EOT.
LineInOrder ==
  \A j \in 1..Len(toR) :
    /\ IsPacket(toR[j]) => toR[j].no \in 1..Packets
    /\ toR[j].how = "EOT" => NoMore /\ \A k \in 1..Len(toR) : k > j => ~IsPacket(toR[k])

\* What every step keeps: after its EOT the receiver, which begins anew, is sent no packet.
Inv ==
  /\ no \in 0..Packets /\ last \in Nat /\ sfin \in BOOLEAN
  /\ toR \in Seq([no : Nat, how : Hows \cup {"EOT", "CAN"}])
  /\ stx \in {"idle", "sending", "wait", "EOT", "CAN"}
  /\ stx \in {"sending", "wait", "EOT"} => no > 0
  /\ sfin => stx \in {"EOT", "wait"}
  /\ send # "going" => stx \in {"idle", "CAN"}
  /\ LineInOrder
  /\ \/ recv = "cancel" \/ last = Len(got)
     \/ last = 0 /\ NoMore /\ \A k \in 1..Len(toR) : ~IsPacket(toR[k])
  /\ got \in Seq(1..Packets) /\ Len(got) <= Packets /\ \A k \in 1..Len(got) : got[k] = k

\* "Called when the transfer has finished successfully.": a receiver that is told so has
\* every packet, and the sender is told so only after it.
FinishedMeansAll ==
  /\ recv = "finish" => got = All
  /\ send = "finish" => recv # "going"

\* "Cancels the transfer in progress": a transfer its receiver has cancelled is not one
\* the sender is told to have finished.
CancelEnds == recv = "cancel" => send # "finish"

\* A transfer that nobody cancels ends, and well, on a line that fails a few times only.
Over == "cancel" \in {send, recv} \/ (send = "finish" /\ recv = "finish")
TransferEnds == <>Over
=============================================================================
