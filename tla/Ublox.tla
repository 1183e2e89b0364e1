------------------------------- MODULE Ublox -------------------------------
(* Requests to a u-blox GPS receiver (gpl/source/gps/pif_gps_ublox.c): configuration messages,    *)
(* which it answers with ACK or NAK, and messages it does not answer, over a transport that loses  *)
(* and spoils bytes and that may be taken away.  A message is counted in units; a UBX frame of the *)
(* receiver is its two sync bytes, its body and its check.                                         *)
EXTENDS Integers, Sequences

CONSTANTS
  Ids,         \* message ids of the configuration messages
  Size,        \* units of a message
  Requests,    \* the bound on the requests that are accepted
  Faults,      \* the bound on bytes and answers that are lost or spoilt
  Detaches     \* the bound on taking the transport away

VARIABLES
  buf,         \* __tx.buffer: no message or one
  tx, pos,     \* __tx.state and __tx.pos
  st,          \* _request_state
  cfg,         \* __cfg_msg_id
  expects, due,    \* __request_response, and whether __request_timeout has passed
  rx,          \* __rx: the bytes of a frame so far
  attached, woken, \* __p_transport, and whether its task asks for bytes to send
  owed, line,  \* the receiver: messages to answer, and the bytes on their way back
  requests, faults, detaches,
  said         \* the answers the receiver gave, and the number of messages it got

vars == <<buf, tx, pos, st, cfg, expects, due, rx, attached, woken, owed, line, requests, faults,
          detaches, said>>
request == <<st, cfg, expects, due>>
sending == <<buf, tx, pos>>
transport == <<attached, woken, detaches>>
receiver == <<owed, said>>

Verdicts == {"ACK", "NAK"}
NoId == 0
Byte(kind) == [kind |-> kind, verdict |-> "?", id |-> NoId]
Body(v, id) == [kind |-> "body", verdict |-> v, id |-> id]
Frame(v, id) == <<Byte("B5"), Byte("62"), Body(v, id), Byte("ck")>>
Spoilt == Byte("?")

Init ==
  /\ buf = <<>> /\ tx = "IDLE" /\ pos = 0
  /\ st = "NONE" /\ cfg = NoId /\ expects = FALSE /\ due = FALSE
  /\ rx = <<>> /\ attached = TRUE /\ woken = FALSE
  /\ owed = <<>> /\ line = <<>> /\ requests = 0 /\ faults = 0 /\ detaches = 0
  /\ said = [answers |-> {}, got |-> 0]

-----------------------------------------------------------------------------
(* The requests.                                                             *)

\* _beginPossible()
BeginPossible == tx = "IDLE" /\ st # "SEND"

\* A configuration message has its id, one that is not answered has none.
Possible(id) == BeginPossible /\ requests < Requests /\ id \in Ids \cup {NoId}

\* _makeUbxPacket() and _makeNmeaPacket() behind pifGpsUblox_SendUbxMsg() and the NMEA
\* requests: the message is put whole into the empty buffer, and the request begins.
Begins(id) ==
  /\ Possible(id) /\ attached /\ buf = <<>>
  /\ requests' = requests + 1
  /\ buf' = <<[id |-> id, no |-> requests + 1]>> /\ woken' = TRUE
  /\ st' = "SEND" /\ cfg' = (IF id \in Ids THEN id ELSE cfg) /\ expects' = (id \in Ids) /\ due' = FALSE
  /\ UNCHANGED <<tx, pos, rx, attached, detaches, receiver, line, faults>>

\* A message that waits behind a request that was given up keeps the next one out, and there is
\* no transport: a UBX message fails, an NMEA one leaves the request state alone.
Fails(id) ==
  /\ Possible(id) /\ ~(attached /\ buf = <<>>)
  /\ IF id \in Ids THEN cfg' = id /\ st' = "FAILURE"
     ELSE UNCHANGED cfg /\ st' \in {st, "FAILURE"}
  /\ UNCHANGED <<sending, expects, due, rx, transport, receiver, line, requests, faults>>

TimePasses ==
  /\ st = "SEND" /\ ~due /\ due' = TRUE
  /\ UNCHANGED <<sending, st, cfg, expects, rx, transport, receiver, line, requests, faults>>

\* Mutated CheckRequest: a message that is not answered is over when nothing is being sent.
CheckIdle ==
  /\ st = "SEND" /\ ((~expects /\ tx = "IDLE") \/ due) /\ st' = "TIMEOUT"
  /\ UNCHANGED <<sending, cfg, expects, due, rx, transport, receiver, line, requests, faults>>

\* pifGpsUblox_CheckRequest()
CheckRequest ==
  /\ st = "SEND" /\ ((~expects /\ buf = <<>>) \/ due) /\ st' = "TIMEOUT"
  /\ UNCHANGED <<sending, cfg, expects, due, rx, transport, receiver, line, requests, faults>>

-----------------------------------------------------------------------------
(* Sending.                                                                  *)

\* The receiver got the last unit of a message; it owes a configuration message an answer.
Deliver ==
  /\ said' = [said EXCEPT !.got = buf[1].no]
  /\ owed' = IF buf[1].id \in Ids THEN Append(owed, buf[1].id) ELSE owed

\* _evtSending(), GUTS_IDLE
Take ==
  /\ tx = "IDLE"
  /\ IF buf = <<>> THEN woken' = FALSE /\ UNCHANGED <<tx, pos>>
                   ELSE tx' = "SENDING" /\ pos' = 0 /\ UNCHANGED woken
  /\ UNCHANGED <<buf, receiver>>

\* GUTS_SENDING
Hand ==
  /\ tx = "SENDING"
  /\ \E n \in 1..(Size - pos) :
       /\ pos' = pos + n
       /\ IF pos + n = Size THEN tx' = "WAIT_SENDED" /\ Deliver ELSE UNCHANGED <<tx, receiver>>
  /\ UNCHANGED <<buf, woken>>

\* GUTS_WAIT_SENDED
Drop == tx = "WAIT_SENDED" /\ buf' = <<>> /\ tx' = "IDLE" /\ UNCHANGED <<pos, woken, receiver>>

Send ==
  /\ attached /\ woken /\ (Take \/ Hand \/ Drop)
  /\ UNCHANGED <<request, rx, attached, detaches, line, requests, faults>>

-----------------------------------------------------------------------------
(* The answers.                                                              *)

\* The receiver answers, or the answer is lost as a whole.
Answer ==
  /\ owed # <<>> /\ owed' = Tail(owed)
  /\ \E v \in Verdicts :
       /\ said' = [said EXCEPT !.answers = @ \cup {[verdict |-> v, id |-> Head(owed)]}]
       /\ \/ line' = line \o Frame(v, Head(owed)) /\ UNCHANGED faults
          \/ faults < Faults /\ faults' = faults + 1 /\ UNCHANGED line
  /\ UNCHANGED <<sending, request, rx, transport, requests>>

\* A byte is lost or spoilt.
Spoil ==
  /\ faults < Faults /\ faults' = faults + 1 /\ line # <<>>
  /\ line' \in {Tail(line), <<Byte("B5")>> \o Tail(line), <<Spoilt>> \o Tail(line)}
  /\ UNCHANGED <<sending, request, rx, transport, receiver, requests>>

\* Mutated Accept: the answer is not looked at, but for its verdict.
AcceptAny(body) ==
  IF st = "SEND" /\ body.verdict \in Verdicts THEN st' = body.verdict ELSE UNCHANGED st

\* _parsingPacket(), an ACK or NAK.
Accept(body) ==
  IF st = "SEND" /\ body.id = cfg /\ body.verdict \in Verdicts
  THEN st' = body.verdict ELSE UNCHANGED st

\* What the parser makes of a byte where it expects one of the body.
AsBody(byte) == IF byte.kind = "body" THEN byte ELSE Spoilt

\* _parsingPacket(), a byte: a wrong second sync byte, a length that is too big and a wrong check
\* end the frame; without one the byte is of an NMEA sentence.
Parse(byte) ==
  CASE Len(rx) = 0 -> rx' = (IF byte.kind = "B5" THEN <<byte>> ELSE <<>>) /\ UNCHANGED st
    [] Len(rx) = 1 -> rx' = (IF byte.kind = "62" THEN Append(rx, byte) ELSE <<>>) /\ UNCHANGED st
    [] Len(rx) = 2 ->
         /\ UNCHANGED st
         /\ \/ rx' = Append(rx, AsBody(byte))
            \/ AsBody(byte) = Spoilt /\ rx' = <<>>
    [] OTHER ->
         /\ rx' = <<>>
         /\ IF byte.kind = "ck" /\ rx[3] # Spoilt THEN Accept(rx[3]) ELSE UNCHANGED st

\* _evtParsing()
Receive ==
  /\ attached /\ line # <<>> /\ line' = Tail(line) /\ Parse(Head(line))
  /\ UNCHANGED <<sending, cfg, expects, due, transport, receiver, requests, faults>>

\* _evtAbortRx(): the transport found an error.
AbortRx ==
  /\ attached /\ rx # <<>> /\ faults < Faults /\ faults' = faults + 1 /\ rx' = <<>>
  /\ UNCHANGED <<sending, request, transport, receiver, line, requests>>

-----------------------------------------------------------------------------
(* The transport.                                                            *)

\* pifGpsUblox_DetachTransport(): what was being sent stays as it is.
Detach ==
  /\ attached /\ detaches < Detaches /\ detaches' = detaches + 1
  /\ attached' = FALSE /\ woken' = FALSE
  /\ UNCHANGED <<sending, request, rx, receiver, line, requests, faults>>

\* pifGpsUblox_AttachTransport(): nobody asks for the rest of a message.
Attach ==
  /\ ~attached /\ attached' = TRUE
  /\ UNCHANGED <<sending, request, rx, woken, detaches, receiver, line, requests, faults>>

Next ==
  \/ \E id \in Ids \cup {NoId} : Begins(id) \/ Fails(id)
  \/ TimePasses \/ CheckRequest \/ Send \/ Answer \/ Spoil \/ Receive \/ AbortRx \/ Detach \/ Attach

Spec == Init /\ [][Next]_vars

\* Time passes, the application asks how far its request is, the tasks of the transport run, and
\* a transport that was taken away comes back.
FairSpec ==
  /\ Spec /\ WF_vars(TimePasses) /\ SF_vars(CheckRequest) /\ WF_vars(Send) /\ WF_vars(Receive)
  /\ WF_vars(Attach)

-----------------------------------------------------------------------------
TypeOK ==
  /\ Len(buf) <= 1 /\ tx \in {"IDLE", "SENDING", "WAIT_SENDED"} /\ pos \in 0..Size
  /\ st \in {"NONE", "SEND", "NAK", "ACK", "TIMEOUT", "FAILURE"} /\ cfg \in Ids \cup {NoId}
  /\ expects \in BOOLEAN /\ due \in BOOLEAN /\ attached \in BOOLEAN /\ woken \in BOOLEAN

\* A request ends with an answer that the receiver gave to a message with its id, whatever the
\* line made of it, and in time without one only when the receiver has the message whole.
AnswerIsTrue ==
  /\ st \in Verdicts => [verdict |-> st, id |-> cfg] \in said.answers
  /\ st = "TIMEOUT" /\ ~due => said.got = requests

\* What looks like an answer is one, on its way and in the parser.
IsSaid(byte) ==
  byte.verdict \in Verdicts => [verdict |-> byte.verdict, id |-> byte.id] \in said.answers
BytesAreSaid ==
  /\ \A k \in 1..Len(line) : IsSaid(line[k])
  /\ \A k \in 1..Len(rx) : IsSaid(rx[k])

\* The buffer holds the last message, and the receiver has it when the buffer does not.
LastMessage ==
  /\ buf = <<>> => said.got = requests /\ tx = "IDLE"
  /\ buf # <<>> => Len(buf) = 1 /\ buf[1].no = requests
  /\ tx = "WAIT_SENDED" => said.got = requests

Frames == Seq([kind : {"B5", "62", "body", "ck", "?"}, verdict : Verdicts \cup {"?"},
               id : Ids \cup {NoId}])

\* What every step keeps.
Inv ==
  /\ line \in Frames /\ rx \in Frames /\ owed \in Seq(Ids) /\ requests \in Nat
  /\ said \in [answers : SUBSET [verdict : Verdicts, id : Ids], got : Nat]
  /\ BytesAreSaid /\ LastMessage /\ AnswerIsTrue

\* A request ends, whatever is lost.
RequestOn == st = "SEND"
RequestEnds == RequestOn ~> ~RequestOn

\* Once its time is over the next request is taken: "One is refused while the previous one is
\* still being sent or still waiting for its answer" (pif_gps_ublox.c:521).  Not checked by a run:
\* it fails once the transport was taken away during a sending.
SendsAgain == []<>BeginPossible
=============================================================================
