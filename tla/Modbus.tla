------------------------------- MODULE Modbus -------------------------------
(* A Modbus line (protocol/pif_modbus_*.c): one master, whose application polls  *)
(* its slaves in turn, and slaves that hear every frame, each other's answers    *)
(* too.  In RTU a slave finds the end of a frame from its contents alone, so it  *)
(* follows the frames of the others; in ASCII a colon starts each.  Up to Faults *)
(* times a station hears a frame wrong or an answer is slow.                     *)
EXTENDS Naturals, Sequences, FiniteSets

CONSTANTS
  Slaves,
  Polls,       \* the requests the application makes, over and over
  Faults,
  Ids          \* requests are told apart modulo Ids

VARIABLES
  ascii,       \* the framing of the line
  mst, err,    \* the master's __state and _error
  poll, id,    \* the request it is at and its name
  taken,       \* name of the request whose answer it has whole, None
  rx,          \* each slave's __rx.state between two frames
  resp,        \* the slaves with __rx.response: the next frame is another's answer
  ans,         \* the answer each slave has in its buffer, NoFrame
  exec,        \* name of the request each slave carried out last
  faults

None == 99
Broadcast == 0
master == <<mst, err, poll, id, taken>>
slaves == <<rx, resp, ans, exec>>
vars == <<ascii, master, slaves, faults>>

Request == Polls[poll]
Frame(kind, to, op, n) == [kind |-> kind, to |-> to, op |-> op, id |-> n]
NoFrame == Frame("none", None, "none", None)

Init ==
  /\ ascii \in BOOLEAN
  /\ mst = "idle" /\ err = "none" /\ poll = Len(Polls) /\ id = 0 /\ taken = None
  /\ rx = [s \in Slaves |-> "idle"] /\ resp = {} /\ ans = [s \in Slaves |-> NoFrame]
  /\ exec = [s \in Slaves |-> None] /\ faults = 0

-----------------------------------------------------------------------------
(* What a slave makes of a frame.  Hearing is [rx, resp, take]: its state after  *)
(* the frame, the flag, and whether the frame is a request it carries out.       *)

Hearing(state, flag, take) == [rx |-> state, resp |-> flag, take |-> take]
Mine(s, f) == f.kind = "request" /\ f.to \in {s, Broadcast}

\* The frame's length does not fit its shape: the bytes run out, or the CRC fails and
\* the rest is ignored till the line is silent.
Misfit(flag) == {Hearing("ignore", flag, FALSE), Hearing("short", flag, FALSE)}

\* Mutated HearAnswer: after the answer another one is due.
HearAnswers(f) ==
  IF f.op = "unknown" /\ f.kind = "request" THEN {Hearing("ignore", TRUE, FALSE)}
  ELSE IF f.kind = "request" /\ f.op = "read" THEN Misfit(TRUE)
  ELSE {Hearing("idle", TRUE, FALSE)}

\* _setFrameLength() when the answer of another slave is due.  A write has the same
\* shape as its answer.
HearAnswer(f) ==
  IF f.op = "unknown" /\ f.kind = "request" THEN {Hearing("ignore", TRUE, FALSE)}
  ELSE IF f.kind = "request" /\ f.op = "read" THEN Misfit(TRUE)
  ELSE {Hearing("idle", FALSE, FALSE)}

\* _setFrameLength() when a request is due, and _completeFrame().
HearRequest(s, f) ==
  IF f.kind = "request" /\ f.op = "unknown"
    THEN {Hearing(IF f.to = s THEN "illegal" ELSE "ignore", FALSE, FALSE)}
  ELSE IF f.kind = "exception" THEN {Hearing("ignore", FALSE, FALSE)}
  ELSE IF f.kind = "answer" /\ f.op = "read" THEN Misfit(FALSE)
  ELSE {Hearing("idle", ~Mine(s, f), Mine(s, f))}

\* _parsingPacket() of an RTU slave.
HearRtu(s, f, whole) ==
  IF rx[s] \in {"ignore", "illegal"} THEN {Hearing("ignore", s \in resp, FALSE)}
  ELSE IF rx[s] = "short" \/ ~whole THEN Misfit(s \in resp)
  ELSE IF s \in resp THEN HearAnswer(f) ELSE HearRequest(s, f)

\* _parsingPacket() of an ASCII slave; a function it lacks is answered with an exception.
HearAscii(s, f, whole) == {Hearing("idle", FALSE, whole /\ Mine(s, f))}

\* Mutated Answer: a broadcast is answered too.
AnswerAlways(s, f) ==
  Frame(IF f.op = "unknown" THEN "exception" ELSE "answer", s, f.op, f.id)

\* The answer to a request that is carried out: none to a broadcast.
Answer(s, f) ==
  IF f.to = Broadcast THEN NoFrame
  ELSE Frame(IF f.op = "unknown" THEN "exception" ELSE "answer", s, f.op, f.id)

\* The buffer is the one the answer waits in: a frame that is received into it spoils
\* the answer.
Spoilt(s) == IF ans[s] = NoFrame THEN NoFrame ELSE Frame("noise", s, "noise", None)

\* All slaves but the one that speaks hear the frame, those in bad wrong.
Heard(f, speaker, bad) ==
  LET ears == Slaves \ {speaker}
      whole(s) == s \notin bad /\ f.kind # "noise"
      Hear(s) == IF ascii THEN HearAscii(s, f, whole(s)) ELSE HearRtu(s, f, whole(s))
      all == UNION {Hear(s) : s \in ears} \cup {Hearing("idle", FALSE, FALSE)}
  IN \E h \in [ears -> all] :
       /\ \A s \in ears : h[s] \in Hear(s)
       /\ rx' = [s \in Slaves |-> IF s \in ears THEN h[s].rx ELSE rx[s]]
       /\ resp' = {s \in Slaves : IF s \in ears THEN h[s].resp ELSE s \in resp}
       /\ exec' = [s \in Slaves |-> IF s \in ears /\ h[s].take /\ f.op # "unknown" THEN f.id ELSE exec[s]]
       /\ ans' = [s \in Slaves |-> IF s = speaker THEN NoFrame
                                   ELSE IF h[s].take THEN Answer(s, f) ELSE Spoilt(s)]

Spoil(bad) == faults + Cardinality(bad) <= Faults /\ faults' = faults + Cardinality(bad)

-----------------------------------------------------------------------------
(* The slaves between two frames.                                            *)

\* No byte for 300 ms: what is incomplete is dropped and no answer is due any more.
Quiet(s) == IF rx[s] = "illegal" THEN "illegal" ELSE "idle"
Expire == rx' = [s \in Slaves |-> Quiet(s)] /\ resp' = {}

\* 3.5 characters of silence end a frame that is ignored; a request with a function the
\* slave lacks is answered now.
Silence(s) ==
  /\ rx[s] \in {"ignore", "illegal"}
  /\ rx' = [rx EXCEPT ![s] = "idle"]
  /\ ans' = [ans EXCEPT ![s] = IF rx[s] = "illegal" THEN Frame("exception", s, "unknown", id) ELSE @]
  /\ resp' = IF rx[s] = "illegal" THEN resp ELSE resp \ {s}
  /\ UNCHANGED <<ascii, exec, master, faults>>

\* The answer is slower than the other slaves wait for it, though not than the master.
SlowAnswer ==
  /\ faults < Faults /\ faults' = faults + 1
  /\ \E s \in Slaves : ans[s] # NoFrame
  /\ Expire /\ UNCHANGED <<ascii, ans, exec, master>>

-----------------------------------------------------------------------------
(* The master.                                                               *)

\* A request function, called when the last one is over (_canRequest(), _request()).  The
\* application leaves a gap between two requests in which every slave sees the silence.
MakeRequest ==
  /\ mst = "idle" /\ mst' = "request"
  /\ \A s \in Slaves : rx[s] \notin {"ignore", "illegal"}
  /\ poll' = (poll % Len(Polls)) + 1 /\ id' = (id + 1) % Ids
  /\ err' = "none" /\ taken' = None
  /\ UNCHANGED <<ascii, slaves, faults>>

\* _evtSending(): the request goes out, then the wait for the answer starts.
SendRequest ==
  /\ mst = "request" /\ mst' = "wait"
  /\ \E bad \in SUBSET Slaves :
       Spoil(bad) /\ Heard(Frame("request", Request.to, Request.op, id), None, bad)
  /\ UNCHANGED <<ascii, err, poll, id, taken>>

RequestOut ==
  /\ mst = "wait"
  /\ mst' = IF Request.to = Broadcast THEN "delay" ELSE "response"
  /\ UNCHANGED <<ascii, err, poll, id, taken, slaves, faults>>

\* pifModbus_CheckResponse(): nothing in a read's answer names the request.
CheckResponse(f) ==
  IF f.to # Request.to \/ f.op # Request.op THEN "invalid"
  ELSE IF f.kind = "exception" THEN "exception" ELSE "none"

Awaiting == mst \in {"wait", "response"} /\ Request.to # Broadcast

\* The master's _error after a frame.
Verdict(f, whole) == IF whole THEN CheckResponse(f) ELSE "CRC"

\* A slave sends its answer (_evtSending() of the slave); the master takes it when one is
\* awaited (_evtParsing()), and waits on when it is cut short.
SendAnswer(s) ==
  /\ ans[s] # NoFrame
  /\ \E bad \in SUBSET ((Slaves \ {s}) \cup {Broadcast}) :
       /\ Spoil(bad) /\ Heard(ans[s], s, bad)
       /\ \/ (~Awaiting \/ Broadcast \in bad) /\ UNCHANGED <<mst, err, taken>>
          \/ /\ Awaiting /\ mst' = "delay"
             /\ err' = Verdict(ans[s], Broadcast \notin bad)
             /\ taken' = IF Broadcast \in bad THEN None ELSE ans[s].id
  /\ UNCHANGED <<ascii, poll, id>>

\* _checkTimeout(): no answer for 500 ms, which is longer than any slave takes.
Timeout ==
  /\ mst = "response"
  /\ \A s \in Slaves : ans[s] = NoFrame /\ rx[s] # "illegal"
  /\ mst' = "error" /\ err' = "timeout" /\ Expire
  /\ UNCHANGED <<ascii, poll, id, taken, ans, exec, faults>>

\* pifModbusRtuMaster_Check(), pifModbusAsciiMaster_Check().
Check ==
  /\ mst \in {"delay", "error"} /\ mst' = "idle"
  /\ UNCHANGED <<ascii, err, poll, id, taken, slaves, faults>>

MasterWorks == MakeRequest \/ SendRequest \/ RequestOut \/ Check
Next ==
  \/ MasterWorks \/ Timeout \/ SlowAnswer
  \/ \E s \in Slaves : Silence(s) \/ SendAnswer(s)

Spec == Init /\ [][Next]_vars

\* The master and its application go on, a slave that has an answer sends it, and the line
\* is silent at times.
FairSpec ==
  /\ Spec /\ WF_vars(MasterWorks) /\ WF_vars(Timeout)
  /\ \A s \in Slaves : SF_vars(Silence(s)) /\ WF_vars(SendAnswer(s))

-----------------------------------------------------------------------------
Ended == mst = "delay" /\ err = "none"

\* What a request ends with, when it ends well, is the answer to that request, given
\* after the slave carried it out; and a broadcast is not answered.
AnswerIsOwn ==
  Ended => IF Request.to = Broadcast THEN taken = None
           ELSE taken = id /\ (Request.op = "write" => exec[Request.to] = id)

\* Two stations do not talk at once: while an answer waits to go out, no other does, and
\* the master is not about to send.
OneTalker ==
  \A s \in Slaves : ans[s] # NoFrame =>
    mst \in {"wait", "response"} /\ \A t \in Slaves \ {s} : ans[t] = NoFrame

\* On a line that fails a few times only, every slave answers well again and again:
\* whatever a slave took a frame it heard wrong for, it finds the start of a request.
Answerable == {k \in 1..Len(Polls) : Polls[k].op \in {"read", "write"} /\ Polls[k].to # Broadcast}
Answered(k) == poll = k /\ Ended
SlavesRecover == \A k \in Answerable : []<>Answered(k)

-----------------------------------------------------------------------------
(* The inductive invariant AnswerIsOwn and OneTalker rest on.                *)

TypeOK ==
  /\ mst \in {"idle", "request", "wait", "response", "delay", "error"}
  /\ rx \in [Slaves -> {"idle", "ignore", "short", "illegal"}] /\ resp \subseteq Slaves
  /\ DOMAIN ans = Slaves /\ DOMAIN exec = Slaves

\* Only the slave that was asked may speak, and only while the master waits for it.
Speaks(s) == ans[s] # NoFrame \/ rx[s] = "illegal"
OnlyAsked == \A s \in Slaves : Speaks(s) => mst \in {"wait", "response"} /\ Request.to = s

\* What it is about to send is the answer to the request, which it has carried out; it refuses
\* a function it lacks, and that alone.
AnswersRequest ==
  \A s \in Slaves :
    /\ rx[s] = "illegal" => Request.op = "unknown" /\ ans[s] = NoFrame
    /\ ans[s] # NoFrame =>
         /\ ans[s] = Answer(s, [to |-> s, op |-> Request.op, id |-> id])
         /\ Request.op # "unknown" => exec[s] = id

\* Until it hears of an answer the master has none.
NoneYet == mst \in {"request", "wait", "response"} => taken = None

Inv == TypeOK /\ OnlyAsked /\ AnswersRequest /\ NoneYet /\ AnswerIsOwn /\ OneTalker
=============================================================================
