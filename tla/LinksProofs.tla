---------------------------- MODULE LinksProofs ----------------------------
(* Proofs about the links: the receiving side of a UART, for every size of the *)
(* buffer, every flow control and every client; a Modbus line, for every set of *)
(* slaves, every order of requests and any number of faults; and MSP, for every *)
(* room and size of answers.                                                   *)
EXTENDS UartRx, Protocols, Sequences, TLAPS

-----------------------------------------------------------------------------
(* The receiving side of a UART.                                             *)

\* The two facts that make the wakeup safe.  A state from which the interrupt wakes
\* nobody ("first", "next") is either watched by a trigger, or by a run that has not
\* yet decided what it returns; and an idle state means that no byte waits, but for
\* the moment between the change to idle and the look at the buffer after it.
Watched ==
  /\ rx_state # "idle" /\ pc \in {"wait", "check"} => trigger
  /\ rx_state # "idle" /\ pc = "end" => trigger \/ period = "short"
  /\ rx_state = "idle" => fill = 0 \/ pc = "check"

RxInv == TypeOK /\ Watched

\* Every interrupt and every step of the task keeps the types.
LEMMA TypeStep == ASSUME TypeOK, [Next]_vars PROVE TypeOK'
<1> USE SizeAssumption DEF TypeOK, user, task, flow
<1>1. CASE UNCHANGED vars
  BY <1>1 DEF vars
<1>2. ASSUME NEW n \in {1, 2}, PutRx(n) PROVE TypeOK'
  <2>1. fill' \in 0..Size
    BY <1>2 DEF PutRx
  <2>2. flight' \in 0..Flight
    <3>1. CASE peer
      BY <1>2, <3>1 DEF PutRx
    <3>2. CASE ~peer
      <4>1. n \in Nat /\ flight >= n /\ flight' = flight - n
        BY <1>2, <3>2 DEF PutRx
      <4> QED
        BY <4>1
    <3> QED
      BY <3>1, <3>2
  <2>3. rx_state' \in {"idle", "first", "next"} /\ trigger' \in BOOLEAN
    BY <1>2 DEF PutRx, Wake
  <2>4. UNCHANGED <<user, task, fc_state, peer>>
    BY <1>2 DEF PutRx
  <2> QED
    BY <2>1, <2>2, <2>3, <2>4
<1>3. CASE Release BY <1>3 DEF Release
<1>4. CASE FlowControl
  <2>1. ASSUME NEW told \in BOOLEAN PROVE Tell(told) =>
          fc_state' \in BOOLEAN /\ peer' \in BOOLEAN /\ flight' \in 0..Flight
    <3> SUFFICES ASSUME Tell(told) PROVE fc_state' \in BOOLEAN /\ peer' \in BOOLEAN /\ flight' \in 0..Flight
      OBVIOUS
    <3>1. PICK heard \in BOOLEAN :
            /\ peer' = IF heard THEN told ELSE peer
            /\ flight' = IF heard /\ ~told /\ peer THEN Flight
                         ELSE IF heard /\ told THEN 0 ELSE flight
      BY DEF Tell
    <3>2. fc_state' \in BOOLEAN
      BY DEF Tell
    <3>3. peer' \in BOOLEAN
      BY <3>1
    <3>4. flight' \in {Flight, 0, flight}
      BY <3>1
    <3> QED
      BY <3>2, <3>3, <3>4
  <2>2. fc_state' \in BOOLEAN /\ peer' \in BOOLEAN /\ flight' \in 0..Flight
    BY <1>4, <2>1 DEF FlowControl, flow
  <2>3. period' \in {"own", "short"}
    BY <1>4 DEF FlowControl
  <2> QED
    BY <1>4, <2>2, <2>3 DEF FlowControl
<1>5. CASE ParseEnd BY <1>5 DEF ParseEnd
<1>6. CASE KeepPolling BY <1>6 DEF KeepPolling
<1>7. CASE GoIdle BY <1>7 DEF GoIdle
<1>8. CASE CheckBuffer BY <1>8 DEF CheckBuffer
<1>9. CASE StayIdle BY <1>9 DEF StayIdle
<1>10. CASE RunEnd BY <1>10 DEF RunEnd
<1>11. ASSUME NEW n \in 1..Size, Receive(n) PROVE TypeOK'
  BY <1>11 DEF Receive
<1>12. CASE AbortRx BY <1>12 DEF AbortRx
<1> QED
  BY <1>1, <1>2, <1>3, <1>4, <1>5, <1>6, <1>7, <1>8, <1>9, <1>10, <1>11, <1>12 DEF Next, Task

\* Every step keeps the wakeup.
LEMMA WatchedStep == ASSUME RxInv, [Next]_vars PROVE Watched'
<1> USE SizeAssumption DEF RxInv, TypeOK, Watched, user, task, flow
<1>1. CASE UNCHANGED vars
  BY <1>1 DEF vars
<1>2. ASSUME NEW n \in {1, 2}, PutRx(n) PROVE Watched'
  BY <1>2 DEF PutRx, Wake
<1>3. CASE Release BY <1>3 DEF Release
<1>4. CASE FlowControl BY <1>4 DEF FlowControl
<1>5. CASE ParseEnd BY <1>5 DEF ParseEnd
<1>6. CASE KeepPolling BY <1>6 DEF KeepPolling
<1>7. CASE GoIdle BY <1>7 DEF GoIdle
<1>8. CASE CheckBuffer BY <1>8 DEF CheckBuffer
<1>9. CASE StayIdle BY <1>9 DEF StayIdle
<1>10. CASE RunEnd BY <1>10 DEF RunEnd
<1>11. ASSUME NEW n \in 1..Size, Receive(n) PROVE Watched'
  BY <1>11 DEF Receive
<1>12. CASE AbortRx BY <1>12 DEF AbortRx
<1> QED
  BY <1>1, <1>2, <1>3, <1>4, <1>5, <1>6, <1>7, <1>8, <1>9, <1>10, <1>11, <1>12 DEF Next, Task

LEMMA RxInvariant == Spec => []RxInv
<1>1. Init => RxInv
  <2>1. 0 \in 0..Size /\ 0 \in 0..Flight
    BY SizeAssumption
  <2> QED
    BY <2>1 DEF Init, RxInv, TypeOK, Watched
<1>2. RxInv /\ [Next]_vars => RxInv'
  BY TypeStep, WatchedStep DEF RxInv
<1> QED
  BY <1>1, <1>2, PTL DEF Spec

\* The receive state, the buffer and the flow control keep their types: the fill
\* size stays within the buffer.
THEOREM TypeCorrect == Spec => []TypeOK
<1>1. RxInv => TypeOK
  BY DEF RxInv
<1> QED
  BY <1>1, RxInvariant, PTL

\* No byte is left behind: between two runs of the RX task (_doRxTask), a byte in the
\* buffer or a state that keeps the interrupt from waking has a trigger pending.
THEOREM NoByteLeftBehind == Spec => []RxAwake
<1>1. RxInv => RxAwake
  BY DEF RxInv, TypeOK, Watched, RxAwake
<1> QED
  BY <1>1, RxInvariant, PTL
-----------------------------------------------------------------------------
(* A Modbus line.                                                            *)

\* What a slave makes of a frame: it carries a request out only if that is for it, and is then
\* ready for the next frame; it refuses nothing but a request to it with a function it lacks.
LEMMA HearingFacts ==
  ASSUME NEW s \in LineSlaves, NEW f, NEW whole \in BOOLEAN,
         NEW h \in IF lineAscii THEN Line!HearAscii(s, f, whole) ELSE Line!HearRtu(s, f, whole)
  PROVE  /\ h.rx \in {"idle", "ignore", "short", "illegal"}
         /\ h.take => Line!Mine(s, f) /\ h.rx = "idle"
         /\ h.rx = "illegal" => f.kind = "request" /\ f.op = "unknown" /\ f.to = s
<1>1. CASE lineAscii
  <2>1. h = Line!Hearing("idle", FALSE, whole /\ Line!Mine(s, f))
    BY <1>1 DEF Line!HearAscii
  <2>2. h.rx = "idle" /\ h.take = (whole /\ Line!Mine(s, f))
    BY <2>1 DEF Line!Hearing
  <2> QED
    BY <2>2
<1>2. CASE ~lineAscii
  <2>1. h \in Line!HearRtu(s, f, whole)
    BY <1>2
  <2>2. h \in {Line!Hearing("ignore", s \in lineResp, FALSE)} \cup Line!Misfit(s \in lineResp)
              \cup Line!HearAnswer(f) \cup Line!HearRequest(s, f)
    BY <2>1, Zenon DEF Line!HearRtu
  <2>3. CASE h \in Line!HearRequest(s, f)
    BY <2>3 DEF Line!HearRequest, Line!Misfit, Line!Hearing
  <2>4. CASE h \in Line!HearAnswer(f)
    BY <2>4 DEF Line!HearAnswer, Line!Misfit, Line!Hearing
  <2>5. CASE h \in {Line!Hearing("ignore", s \in lineResp, FALSE)} \cup Line!Misfit(s \in lineResp)
    BY <2>5 DEF Line!Misfit, Line!Hearing
  <2> QED
    BY <2>2, <2>3, <2>4, <2>5
<1> QED
  BY <1>1, <1>2

\* What a frame leaves each slave with: the speaker has nothing more to say, and another one
\* either carries the frame out or not.
LEMMA HeardFacts ==
  ASSUME NEW f, NEW speaker, NEW bad, Line!TypeOK, Line!Heard(f, speaker, bad)
  PROVE  /\ lineRx' \in [LineSlaves -> {"idle", "ignore", "short", "illegal"}]
         /\ lineResp' \subseteq LineSlaves
         /\ DOMAIN lineAns' = LineSlaves /\ DOMAIN lineExec' = LineSlaves
         /\ \A s \in LineSlaves : s = speaker =>
              /\ lineRx'[s] = lineRx[s] /\ lineAns'[s] = Line!NoFrame
              /\ lineExec'[s] = lineExec[s]
         /\ \A s \in LineSlaves : s # speaker =>
              /\ lineRx'[s] = "illegal" => f.kind = "request" /\ f.op = "unknown" /\ f.to = s
              /\ \/ /\ Line!Mine(s, f) /\ lineRx'[s] = "idle" /\ lineAns'[s] = Line!Answer(s, f)
                    /\ f.op # "unknown" => lineExec'[s] = f.id
                 \/ lineAns'[s] = Line!Spoilt(s) /\ lineExec'[s] = lineExec[s]
<1> DEFINE ears == LineSlaves \ {speaker}
           whole(s) == s \notin bad /\ f.kind # "noise"
           Hear(s) == IF lineAscii THEN Line!HearAscii(s, f, whole(s))
                      ELSE Line!HearRtu(s, f, whole(s))
           all == UNION {Hear(s) : s \in ears} \cup {Line!Hearing("idle", FALSE, FALSE)}
<1>1. PICK h \in [ears -> all] :
        /\ \A s \in ears : h[s] \in Hear(s)
        /\ lineRx' = [s \in LineSlaves |-> IF s \in ears THEN h[s].rx ELSE lineRx[s]]
        /\ lineResp' = {s \in LineSlaves : IF s \in ears THEN h[s].resp ELSE s \in lineResp}
        /\ lineExec' = [s \in LineSlaves |->
             IF s \in ears /\ h[s].take /\ f.op # "unknown" THEN f.id ELSE lineExec[s]]
        /\ lineAns' = [s \in LineSlaves |->
             IF s = speaker THEN Line!NoFrame
             ELSE IF h[s].take THEN Line!Answer(s, f) ELSE Line!Spoilt(s)]
  BY Zenon DEF Line!Heard
<1>2. ASSUME NEW s \in ears
      PROVE  /\ h[s].rx \in {"idle", "ignore", "short", "illegal"}
             /\ h[s].take => Line!Mine(s, f) /\ h[s].rx = "idle"
             /\ h[s].rx = "illegal" => f.kind = "request" /\ f.op = "unknown" /\ f.to = s
  <2>1. h[s] \in Hear(s) /\ s \in LineSlaves /\ whole(s) \in BOOLEAN
    BY <1>1
  <2> HIDE DEF whole
  <2> QED
    BY <2>1, HearingFacts
<1> HIDE DEF Hear, all
<1>3. lineRx' \in [LineSlaves -> {"idle", "ignore", "short", "illegal"}]
  <2>1. \A s \in LineSlaves :
          (IF s \in ears THEN h[s].rx ELSE lineRx[s]) \in {"idle", "ignore", "short", "illegal"}
    BY <1>2 DEF Line!TypeOK
  <2> QED
    BY <1>1, <2>1
<1>4. lineResp' \subseteq LineSlaves /\ DOMAIN lineAns' = LineSlaves /\ DOMAIN lineExec' = LineSlaves
  BY <1>1
<1>5. ASSUME NEW s \in LineSlaves, s = speaker
      PROVE  /\ lineRx'[s] = lineRx[s] /\ lineAns'[s] = Line!NoFrame
             /\ lineExec'[s] = lineExec[s]
  BY <1>1, <1>5
<1>6. ASSUME NEW s \in LineSlaves, s # speaker
      PROVE  /\ lineRx'[s] = "illegal" => f.kind = "request" /\ f.op = "unknown" /\ f.to = s
             /\ \/ /\ Line!Mine(s, f) /\ lineRx'[s] = "idle" /\ lineAns'[s] = Line!Answer(s, f)
                   /\ f.op # "unknown" => lineExec'[s] = f.id
                \/ lineAns'[s] = Line!Spoilt(s) /\ lineExec'[s] = lineExec[s]
  <2>1. s \in ears
    BY <1>6
  <2>2. /\ lineRx'[s] = h[s].rx
        /\ lineAns'[s] = IF h[s].take THEN Line!Answer(s, f) ELSE Line!Spoilt(s)
        /\ lineExec'[s] = IF h[s].take /\ f.op # "unknown" THEN f.id ELSE lineExec[s]
    BY <1>1, <1>6, <2>1
  <2> QED
    BY <1>2, <2>1, <2>2
<1> QED
  BY <1>3, <1>4, <1>5, <1>6

LEMMA LineInit == ASSUME Line!Init PROVE Line!Inv
<1>1. Line!TypeOK /\ \A s \in LineSlaves : ~Line!Speaks(s)
  BY DEF Line!Init, Line!TypeOK, Line!Speaks
<1>2. lineMst = "idle"
  BY DEF Line!Init
<1> QED
  BY <1>1, <1>2 DEF Line!Inv, Line!OnlyAsked, Line!AnswersRequest, Line!NoneYet, Line!AnswerIsOwn,
     Line!OneTalker, Line!Ended, Line!Speaks

\* The master sends when nobody speaks, and the slave it asks answers or refuses.
LEMMA RequestIsAsked == ASSUME Line!Inv, Line!SendRequest PROVE Line!Inv'
<1> DEFINE f == Line!Frame("request", Line!Request.to, Line!Request.op, lineId)
<1>1. /\ lineMst = "request" /\ lineMst' = "wait"
      /\ lineAscii' = lineAscii /\ lineErr' = lineErr /\ linePoll' = linePoll /\ lineId' = lineId
      /\ lineTaken' = lineTaken
  BY DEF Line!SendRequest
<1>2. PICK bad : Line!Heard(f, Line!None, bad)
  BY DEF Line!SendRequest
<1>3. f.kind = "request" /\ f.to = Line!Request.to /\ f.op = Line!Request.op /\ f.id = lineId
  BY DEF Line!Frame
<1>4. Line!Request' = Line!Request
  BY <1>1 DEF Line!Request
<1>5. \A s \in LineSlaves : lineAns[s] = Line!NoFrame /\ lineRx[s] # "illegal"
  BY <1>1 DEF Line!Inv, Line!OnlyAsked, Line!Speaks
<1> HIDE DEF f
<1>6. Line!TypeOK'
  BY <1>1, <1>2, HeardFacts DEF Line!Inv, Line!TypeOK
<1>7. ASSUME NEW s \in LineSlaves, lineRx'[s] = "illegal"
      PROVE  Line!Request.to = s /\ Line!Request.op = "unknown" /\ lineAns'[s] = Line!NoFrame
  <2>1. s # Line!None
    BY <1>2, <1>5, <1>7, HeardFacts DEF Line!Inv
  <2>2. lineAns'[s] = Line!Spoilt(s) /\ f.op = "unknown" /\ f.to = s
    BY <1>2, <1>7, <2>1, HeardFacts DEF Line!Inv
  <2> QED
    BY <1>3, <1>5, <2>2 DEF Line!Spoilt
<1>8. ASSUME NEW s \in LineSlaves, lineAns'[s] # Line!NoFrame
      PROVE  /\ Line!Request.to = s
             /\ lineAns'[s] = Line!Answer(s, [to |-> s, op |-> Line!Request.op, id |-> lineId])
             /\ Line!Request.op # "unknown" => lineExec'[s] = lineId
  <2>1. Line!Spoilt(s) = Line!NoFrame
    BY <1>5 DEF Line!Spoilt
  <2>2. /\ Line!Mine(s, f) /\ lineAns'[s] = Line!Answer(s, f)
        /\ f.op # "unknown" => lineExec'[s] = f.id
    BY <1>2, <1>8, <2>1, HeardFacts DEF Line!Inv
  <2>3. f.to = s
    BY <1>8, <2>2 DEF Line!Mine, Line!Answer
  <2> QED
    BY <1>3, <2>2, <2>3 DEF Line!Answer
<1>9. Line!OnlyAsked' /\ Line!AnswersRequest'
  BY <1>1, <1>4, <1>7, <1>8 DEF Line!OnlyAsked, Line!AnswersRequest, Line!Speaks
<1>10. Line!NoneYet' /\ Line!AnswerIsOwn'
  BY <1>1 DEF Line!Inv, Line!NoneYet, Line!AnswerIsOwn, Line!Ended
<1>11. Line!OneTalker'
  BY <1>1, <1>8 DEF Line!OneTalker
<1> QED
  BY <1>6, <1>9, <1>10, <1>11 DEF Line!Inv

\* The slave that was asked sends, nobody takes its answer for a request, and the master has it.
LEMMA AnswerIsHeard ==
  ASSUME Line!Inv, NEW s \in LineSlaves, Line!SendAnswer(s)
  PROVE  Line!Inv'
<1> DEFINE f == lineAns[s]
<1>1. /\ f # Line!NoFrame /\ lineAscii' = lineAscii /\ linePoll' = linePoll /\ lineId' = lineId
      /\ lineMst \in {"wait", "response"} /\ Line!Request.to = s /\ lineTaken = Line!None
      /\ f = Line!Answer(s, [to |-> s, op |-> Line!Request.op, id |-> lineId])
      /\ Line!Request.op # "unknown" => lineExec[s] = lineId
  BY DEF Line!SendAnswer, Line!Inv, Line!OnlyAsked, Line!Speaks, Line!AnswersRequest, Line!NoneYet
<1>2. s # Line!Broadcast
  BY LineAssumption DEF Line!Broadcast
<1>3. f.kind \in {"answer", "exception"} /\ f.id = lineId
  BY <1>1, <1>2 DEF Line!Answer, Line!Frame
<1>4. Line!Request' = Line!Request
  BY <1>1 DEF Line!Request
<1>5. PICK bad :
        /\ Line!Heard(f, s, bad)
        /\ \/ (~Line!Awaiting \/ Line!Broadcast \in bad)
              /\ lineMst' = lineMst /\ lineErr' = lineErr /\ lineTaken' = lineTaken
           \/ /\ Line!Awaiting /\ lineMst' = "delay"
              /\ lineErr' = Line!Verdict(f, Line!Broadcast \notin bad)
              /\ lineTaken' = IF Line!Broadcast \in bad THEN Line!None ELSE f.id
  BY DEF Line!SendAnswer
<1>6. ASSUME NEW t \in LineSlaves, t # s
      PROVE  lineAns[t] = Line!NoFrame /\ lineRx[t] # "illegal"
  BY <1>1, <1>6 DEF Line!Inv, Line!OnlyAsked, Line!Speaks
<1>7. lineRx[s] # "illegal"
  BY <1>1 DEF Line!Inv, Line!AnswersRequest
<1> HIDE DEF f
<1>8. Line!TypeOK'
  <2>1. /\ lineRx' \in [LineSlaves -> {"idle", "ignore", "short", "illegal"}]
        /\ lineResp' \subseteq LineSlaves
        /\ DOMAIN lineAns' = LineSlaves /\ DOMAIN lineExec' = LineSlaves
    BY <1>5, HeardFacts DEF Line!Inv
  <2>2. lineMst' \in {"idle", "request", "wait", "response", "delay", "error"}
    BY <1>1, <1>5
  <2> QED
    BY <2>1, <2>2 DEF Line!TypeOK
<1>9. ASSUME NEW t \in LineSlaves
      PROVE  lineAns'[t] = Line!NoFrame /\ lineRx'[t] # "illegal"
  <2>1. CASE t = s
    BY <1>5, <1>7, <2>1, HeardFacts DEF Line!Inv
  <2>2. CASE t # s
    <3>1. ~Line!Mine(t, f) /\ f.kind # "request"
      BY <1>3 DEF Line!Mine
    <3>2. Line!Spoilt(t) = Line!NoFrame
      BY <1>6, <2>2 DEF Line!Spoilt
    <3> QED
      BY <1>5, <2>2, <3>1, <3>2, HeardFacts DEF Line!Inv
  <2> QED
    BY <2>1, <2>2
<1>10. lineExec'[s] = lineExec[s]
  BY <1>5, HeardFacts DEF Line!Inv
<1>11. Line!OnlyAsked' /\ Line!AnswersRequest' /\ Line!OneTalker'
  BY <1>9 DEF Line!OnlyAsked, Line!AnswersRequest, Line!OneTalker, Line!Speaks
<1>12. Line!NoneYet'
  BY <1>1, <1>5 DEF Line!Inv, Line!NoneYet
<1>13. Line!AnswerIsOwn'
  <2>1. SUFFICES ASSUME Line!Ended'
                 PROVE  lineTaken' = lineId /\ (Line!Request.op = "write" => lineExec'[s] = lineId)
    BY <1>1, <1>2, <1>4 DEF Line!AnswerIsOwn
  <2>2. lineMst' = "delay" /\ lineErr' = "none"
    BY <2>1 DEF Line!Ended
  <2>3. /\ lineErr' = Line!Verdict(f, Line!Broadcast \notin bad)
        /\ lineTaken' = IF Line!Broadcast \in bad THEN Line!None ELSE f.id
    BY <1>1, <1>5, <2>2
  <2>4. Line!Broadcast \notin bad
    BY <2>2, <2>3 DEF Line!Verdict
  <2> QED
    BY <1>1, <1>3, <1>10, <2>3, <2>4
<1> QED
  BY <1>8, <1>11, <1>12, <1>13 DEF Line!Inv

\* Every step of the master, of a slave and of the line keeps the invariant.
LEMMA LineStep == ASSUME Line!Inv, [Line!Next]_(Line!vars) PROVE Line!Inv'
<1> USE DEF Line!Inv
<1>1. CASE Line!SendRequest
  BY <1>1, RequestIsAsked
<1>2. ASSUME NEW s \in LineSlaves, Line!SendAnswer(s) PROVE Line!Inv'
  BY <1>2, AnswerIsHeard
<1>3. CASE Line!MakeRequest
  <2>1. \A s \in LineSlaves : ~Line!Speaks(s)
    BY <1>3 DEF Line!MakeRequest, Line!OnlyAsked
  <2>2. \A s \in LineSlaves : ~Line!Speaks(s)'
    BY <1>3, <2>1 DEF Line!MakeRequest, Line!Speaks, Line!slaves
  <2>3. Line!TypeOK'
    BY <1>3 DEF Line!MakeRequest, Line!TypeOK, Line!slaves
  <2>4. lineMst' = "request" /\ lineTaken' = Line!None
    BY <1>3 DEF Line!MakeRequest
  <2> QED
    BY <2>2, <2>3, <2>4 DEF Line!OnlyAsked, Line!AnswersRequest, Line!NoneYet, Line!AnswerIsOwn,
       Line!OneTalker, Line!Ended, Line!Speaks
<1>4. CASE Line!RequestOut
  <2>1. Line!Request' = Line!Request /\ UNCHANGED <<lineRx, lineAns, lineExec, lineId, lineTaken>>
    BY <1>4 DEF Line!RequestOut, Line!Request, Line!slaves
  <2>2. Line!TypeOK'
    BY <1>4 DEF Line!RequestOut, Line!TypeOK, Line!slaves
  <2>3. CASE Line!Request.to = Line!Broadcast
    <3>1. \A s \in LineSlaves : ~Line!Speaks(s)
      BY <2>3, LineAssumption DEF Line!OnlyAsked, Line!Broadcast
    <3>2. \A s \in LineSlaves : ~Line!Speaks(s)'
      BY <2>1, <3>1 DEF Line!Speaks
    <3>3. lineMst' = "delay" /\ lineTaken' = Line!None
      BY <1>4, <2>3 DEF Line!RequestOut, Line!NoneYet
    <3> QED
      BY <2>1, <2>2, <2>3, <3>2, <3>3 DEF Line!OnlyAsked, Line!AnswersRequest, Line!NoneYet,
         Line!AnswerIsOwn, Line!OneTalker, Line!Ended, Line!Speaks
  <2>4. CASE Line!Request.to # Line!Broadcast
    <3>1. lineMst = "wait" /\ lineMst' = "response"
      BY <1>4, <2>4 DEF Line!RequestOut
    <3> QED
      BY <2>1, <2>2, <3>1 DEF Line!OnlyAsked, Line!AnswersRequest, Line!NoneYet,
         Line!AnswerIsOwn, Line!OneTalker, Line!Ended, Line!Speaks
  <2> QED
    BY <2>3, <2>4
<1>5. CASE Line!Check
  <2>1. Line!Request' = Line!Request /\ UNCHANGED <<lineRx, lineAns, lineExec, lineId, lineTaken>>
    BY <1>5 DEF Line!Check, Line!Request, Line!slaves
  <2>2. Line!TypeOK'
    BY <1>5 DEF Line!Check, Line!TypeOK, Line!slaves
  <2>3. lineMst \in {"delay", "error"} /\ lineMst' = "idle"
    BY <1>5 DEF Line!Check
  <2> QED
    BY <2>1, <2>2, <2>3 DEF Line!OnlyAsked, Line!AnswersRequest, Line!NoneYet,
       Line!AnswerIsOwn, Line!OneTalker, Line!Ended, Line!Speaks
<1>6. ASSUME Line!Expire, UNCHANGED <<lineAns, lineExec>>
      PROVE  /\ lineRx' \in [LineSlaves -> {"idle", "ignore", "short", "illegal"}]
             /\ lineResp' \subseteq LineSlaves
             /\ \A s \in LineSlaves : lineRx'[s] = "illegal" <=> lineRx[s] = "illegal"
  BY <1>6 DEF Line!Expire, Line!Quiet, Line!TypeOK
<1>7. CASE Line!Timeout
  <2>1. \A s \in LineSlaves : lineRx'[s] # "illegal" /\ lineAns'[s] = Line!NoFrame
    BY <1>6, <1>7 DEF Line!Timeout
  <2>2. lineMst' = "error" /\ lineErr' = "timeout"
    BY <1>7 DEF Line!Timeout
  <2>3. Line!TypeOK'
    BY <1>6, <1>7 DEF Line!Timeout, Line!TypeOK
  <2> QED
    BY <2>1, <2>2, <2>3 DEF Line!OnlyAsked, Line!AnswersRequest, Line!NoneYet,
       Line!AnswerIsOwn, Line!OneTalker, Line!Ended, Line!Speaks
<1>8. CASE Line!SlowAnswer
  <2>1. /\ UNCHANGED <<lineMst, lineErr, linePoll, lineId, lineTaken, lineAns, lineExec>>
        /\ Line!Expire
    BY <1>8 DEF Line!SlowAnswer, Line!master
  <2>2. Line!TypeOK'
    BY <1>6, <2>1 DEF Line!TypeOK
  <2>3. \A s \in LineSlaves : lineRx'[s] = "illegal" <=> lineRx[s] = "illegal"
    BY <1>6, <2>1
  <2> QED
    BY <2>1, <2>2, <2>3 DEF Line!OnlyAsked, Line!AnswersRequest, Line!NoneYet,
       Line!AnswerIsOwn, Line!OneTalker, Line!Ended, Line!Speaks, Line!Request
<1>9. ASSUME NEW s \in LineSlaves, Line!Silence(s) PROVE Line!Inv'
  <2>1. /\ UNCHANGED <<lineMst, lineErr, linePoll, lineId, lineTaken, lineExec>>
        /\ lineRx' = [lineRx EXCEPT ![s] = "idle"]
        /\ lineAns' = [lineAns EXCEPT ![s] =
                         IF lineRx[s] = "illegal" THEN Line!Frame("exception", s, "unknown", lineId) ELSE @]
        /\ lineResp' \subseteq LineSlaves
    BY <1>9 DEF Line!Silence, Line!master, Line!TypeOK
  <2>2. Line!TypeOK'
    BY <2>1 DEF Line!TypeOK
  <2>3. lineRx'[s] = "idle" /\ \A t \in LineSlaves \ {s} : lineRx'[t] = lineRx[t] /\ lineAns'[t] = lineAns[t]
    BY <2>1 DEF Line!TypeOK
  <2>4. CASE lineRx[s] = "illegal"
    <3>1. /\ lineMst \in {"wait", "response"} /\ Line!Request.to = s /\ Line!Request.op = "unknown"
      BY <2>4 DEF Line!OnlyAsked, Line!AnswersRequest, Line!Speaks
    <3>2. lineAns'[s] = Line!Answer(s, [to |-> s, op |-> Line!Request.op, id |-> lineId])
      <4>1. lineAns'[s] = Line!Frame("exception", s, "unknown", lineId)
        BY <2>1, <2>4 DEF Line!TypeOK
      <4>2. s # Line!Broadcast
        BY LineAssumption DEF Line!Broadcast
      <4> QED
        BY <3>1, <4>1, <4>2 DEF Line!Answer
    <3>3. \A t \in LineSlaves \ {s} : lineAns[t] = Line!NoFrame /\ lineRx[t] # "illegal"
      BY <3>1 DEF Line!OnlyAsked, Line!Speaks
    <3> QED
      BY <2>1, <2>2, <2>3, <3>1, <3>2, <3>3 DEF Line!OnlyAsked, Line!AnswersRequest, Line!NoneYet,
         Line!AnswerIsOwn, Line!OneTalker, Line!Ended, Line!Speaks, Line!Request
  <2>5. CASE lineRx[s] # "illegal"
    <3>1. lineAns'[s] = lineAns[s]
      BY <2>1, <2>5 DEF Line!TypeOK
    <3> QED
      BY <2>1, <2>2, <2>3, <2>5, <3>1 DEF Line!OnlyAsked, Line!AnswersRequest, Line!NoneYet,
         Line!AnswerIsOwn, Line!OneTalker, Line!Ended, Line!Speaks, Line!Request
  <2> QED
    BY <2>4, <2>5
<1>10. CASE UNCHANGED Line!vars
  BY <1>10 DEF Line!vars, Line!master, Line!slaves, Line!TypeOK, Line!OnlyAsked, Line!AnswersRequest,
     Line!NoneYet, Line!AnswerIsOwn, Line!OneTalker, Line!Ended, Line!Speaks, Line!Request
<1> QED
  BY <1>1, <1>2, <1>3, <1>4, <1>5, <1>7, <1>8, <1>9, <1>10 DEF Line!Next, Line!MasterWorks

\* A request that ends well ends with its own answer, given after the slave carried it out, and
\* two stations never talk at once: for every set of slaves, every order of requests, both
\* framings and any number of faults.
THEOREM LineAnswers == Line!Spec => [](Line!AnswerIsOwn /\ Line!OneTalker)
<1>1. Line!Inv => Line!AnswerIsOwn /\ Line!OneTalker
  BY DEF Line!Inv
<1> QED
  BY <1>1, LineInit, LineStep, PTL DEF Line!Spec

-----------------------------------------------------------------------------
(* MSP.  What waits in the buffer after the first p units, behind the unit u   *)
(* that was given last, each follows on the one before it.                     *)

Prev(b, p, u, i) == IF i = p + 1 THEN u ELSE b[i - 1]
Turn(b, p, u) == \A i \in (p + 1)..Len(b) : Host!Follows(Prev(b, p, u, i), b[i])
Whole(b, p, u, m) ==
  Prev(b, p, u, Len(b) + 1)[2] = MspSize /\ Prev(b, p, u, Len(b) + 1)[1] <= m
Unit == Nat \X (1..MspSize)
Kind == {"$", "M<", "body", "check", "broken"}
Byte == [of : Nat, kind : Kind]
Units(n) == [k \in 1..MspSize |-> <<n, k>>]

LEMMA Joined ==
  ASSUME NEW S, NEW b \in Seq(S), NEW a \in Seq(S)
  PROVE  /\ b \o a \in Seq(S) /\ Len(b \o a) = Len(b) + Len(a)
         /\ \A i \in 1..Len(b) : (b \o a)[i] = b[i]
         /\ \A k \in 1..Len(a) : (b \o a)[Len(b) + k] = a[k]
<1>1. Len(b) \in Nat /\ Len(a) \in Nat
  OBVIOUS
<1>2. \A k \in 1..Len(a) : Len(b) + k \in 1..(Len(b) + Len(a)) /\ ~(Len(b) + k <= Len(b))
                             /\ (Len(b) + k) - Len(b) = k
  BY <1>1
<1>3. \A i \in 1..Len(b) : i \in 1..(Len(b) + Len(a)) /\ i <= Len(b)
  BY <1>1
<1> QED
  BY <1>1, <1>2, <1>3

\* An answer to a later question follows on a buffer that ends with a whole one.
LEMMA AnswerFollows ==
  ASSUME NEW b \in Seq(Unit), NEW p \in 0..Len(b), NEW u \in Unit, NEW m \in Nat, NEW n \in Nat,
         m < n, Turn(b, p, u), Whole(b, p, u, m)
  PROVE  /\ b \o Units(n) \in Seq(Unit) /\ Len(b \o Units(n)) = Len(b) + MspSize
         /\ Turn(b \o Units(n), p, u) /\ Whole(b \o Units(n), p, u, n)
<1> DEFINE c == b \o Units(n)
<1>1. Units(n) \in Seq(Unit) /\ Len(Units(n)) = MspSize /\ \A k \in 1..MspSize : Units(n)[k] = <<n, k>>
  BY MspAssumption DEF Units, Unit
<1>2. /\ c \in Seq(Unit) /\ Len(c) = Len(b) + MspSize
      /\ \A i \in 1..Len(b) : c[i] = b[i]
      /\ \A k \in 1..MspSize : c[Len(b) + k] = <<n, k>>
  <2> HIDE DEF Unit, Units
  <2> QED
    <3>0. Units(n) \in Seq(Unit)
      BY <1>1
    <3>1. /\ c \in Seq(Unit) /\ Len(c) = Len(b) + Len(Units(n))
          /\ \A i \in 1..Len(b) : c[i] = b[i]
          /\ \A k \in 1..Len(Units(n)) : c[Len(b) + k] = Units(n)[k]
      BY ONLY <3>0, b \in Seq(Unit), Joined
    <3> HIDE DEF c
    <3> QED
      BY <1>1, <3>1
<1> HIDE DEF c
<1>3. ASSUME NEW i \in (p + 1)..Len(c) PROVE Host!Follows(Prev(c, p, u, i), c[i])
  <2>1. CASE i <= Len(b)
    <3>1. i \in (p + 1)..Len(b) /\ c[i] = b[i]
      BY <1>2, <2>1
    <3>2. Prev(c, p, u, i) = Prev(b, p, u, i)
      BY <1>2, <3>1 DEF Prev
    <3> QED
      BY <3>1, <3>2 DEF Turn
  <2>2. CASE i = Len(b) + 1
    <3>1. c[i] = <<n, 1>>
      <4>1. 1 \in 1..MspSize
        BY MspAssumption
      <4> QED
        BY <1>2, <2>2, <4>1
    <3>2. Prev(c, p, u, i) = Prev(b, p, u, i)
      BY <1>2, <2>2 DEF Prev
    <3>3. Prev(b, p, u, i) \in Unit
      BY <2>2 DEF Prev
    <3>4. Prev(b, p, u, i)[2] = MspSize /\ Prev(b, p, u, i)[1] <= m
      BY <2>2 DEF Whole
    <3> HIDE DEF Prev
    <3> QED
      BY <3>1, <3>2, <3>3, <3>4, MspAssumption DEF Host!Follows, Unit
  <2>3. CASE i > Len(b) + 1
    <3> DEFINE k == i - Len(b)
    <3>1. k \in 2..MspSize /\ i = Len(b) + k
      <4>1. Len(b) \in Nat /\ i \in Int /\ i <= Len(b) + MspSize
        BY <1>2, MspAssumption
      <4> QED
        BY <2>3, <4>1, MspAssumption
    <3> HIDE DEF k
    <3>2. c[i] = <<n, k>> /\ c[i - 1] = <<n, k - 1>>
      <4>1. k \in 1..MspSize /\ k - 1 \in 1..MspSize /\ i - 1 = Len(b) + (k - 1)
        BY <3>1, MspAssumption
      <4> QED
        BY <1>2, <3>1, <4>1
    <3>3. Prev(c, p, u, i) = c[i - 1]
      BY <2>3 DEF Prev
    <3> QED
      BY <3>1, <3>2, <3>3, MspAssumption DEF Host!Follows
  <2> QED
    BY <1>2, <2>1, <2>2, <2>3
<1>4. Whole(c, p, u, n)
  <2>1. c[Len(c)] = <<n, MspSize>> /\ Len(c) + 1 # p + 1
    BY <1>2, MspAssumption
  <2> QED
    BY <1>2, <2>1 DEF Whole, Prev
<1> QED
  BY <1>2, <1>3, <1>4 DEF c, Turn

\* What is taken follows on what was given, and what is left on what was taken, whether it is
\* removed or not.
LEMMA TakenFollow ==
  ASSUME NEW b \in Seq(Unit), NEW p \in 0..Len(b), NEW u \in Unit, NEW m \in Nat,
         NEW k \in 1..(Len(b) - p), Turn(b, p, u), Whole(b, p, u, m)
  PROVE  LET steps == <<u>> \o SubSeq(b, p + 1, p + k)
             rest  == SubSeq(b, p + k + 1, Len(b))
         IN /\ steps[Len(steps)] = b[p + k] /\ b[p + k] \in Unit
            /\ \A i \in 1..Len(SubSeq(b, p + 1, p + k)) : Host!Follows(steps[i], steps[i + 1])
            /\ Turn(b, p + k, b[p + k]) /\ Whole(b, p + k, b[p + k], m)
            /\ rest \in Seq(Unit) /\ Turn(rest, 0, b[p + k]) /\ Whole(rest, 0, b[p + k], m)
<1> DEFINE given == SubSeq(b, p + 1, p + k)
           steps == <<u>> \o given
           rest  == SubSeq(b, p + k + 1, Len(b))
           v     == b[p + k]
<1>1. /\ p + k \in 1..Len(b) /\ v \in Unit
      /\ \A i \in 1..Len(b) : b[i] \in Unit
  OBVIOUS
<1> HIDE DEF Unit
<1>2. /\ given \in Seq(Unit) /\ Len(given) = k
      /\ \A i \in 1..k : given[i] = b[p + i]
  OBVIOUS
<1>3. /\ rest \in Seq(Unit) /\ Len(rest) = Len(b) - (p + k)
      /\ \A i \in 1..(Len(b) - (p + k)) : rest[i] = b[p + k + i]
  BY <1>1
<1> HIDE DEF given, rest
<1>4. /\ Len(steps) = k + 1 /\ steps[1] = u
      /\ \A i \in 1..k : steps[i + 1] = b[p + i]
  BY <1>2
<1> HIDE DEF steps
<1>5. steps[Len(steps)] = v
  BY <1>4
<1>6. ASSUME NEW i \in 1..k PROVE Host!Follows(steps[i], steps[i + 1])
  <2>1. p + i \in (p + 1)..Len(b) /\ steps[i + 1] = b[p + i]
    BY <1>4
  <2>2. steps[i] = Prev(b, p, u, p + i)
    <3>1. CASE i = 1
      BY <1>4, <3>1 DEF Prev
    <3>2. CASE i # 1
      <4>1. i - 1 \in 1..k /\ steps[(i - 1) + 1] = b[p + (i - 1)]
        BY <1>4, <3>2
      <4>2. (i - 1) + 1 = i /\ p + (i - 1) = (p + i) - 1 /\ p + i # p + 1
        BY <3>2
      <4> QED
        BY <4>1, <4>2 DEF Prev
    <3> QED
      BY <3>1, <3>2
  <2> QED
    BY <2>1, <2>2 DEF Turn
<1>7. ASSUME NEW i \in (p + k + 1)..(Len(b) + 1) PROVE Prev(b, p + k, v, i) = Prev(b, p, u, i)
  <2>1. i # p + 1 /\ (i = p + k + 1 => i - 1 = p + k)
    OBVIOUS
  <2> QED
    BY <2>1 DEF Prev
<1>8. Turn(b, p + k, v)
  <2>1. SUFFICES ASSUME NEW i \in ((p + k) + 1)..Len(b)
                 PROVE  Host!Follows(Prev(b, p + k, v, i), b[i])
    BY DEF Turn
  <2>2. i \in (p + k + 1)..(Len(b) + 1) /\ i \in (p + 1)..Len(b)
    OBVIOUS
  <2> QED
    BY <1>7, <2>2 DEF Turn
<1>9. Whole(b, p + k, v, m)
  <2>1. Len(b) + 1 \in (p + k + 1)..(Len(b) + 1)
    BY <1>1
  <2> QED
    BY <1>7, <2>1 DEF Whole
<1>10. ASSUME NEW i \in 1..(Len(rest) + 1) PROVE Prev(rest, 0, v, i) = Prev(b, p + k, v, p + k + i)
  <2>1. CASE i = 1
    BY <2>1 DEF Prev
  <2>2. CASE i # 1
    <3>1. i - 1 \in 1..(Len(b) - (p + k)) /\ p + k + (i - 1) = (p + k + i) - 1 /\ i # 0 + 1
          /\ p + k + i # (p + k) + 1
      BY <1>3, <2>2
    <3> QED
      BY <1>3, <3>1 DEF Prev
  <2> QED
    BY <2>1, <2>2
<1>11. Turn(rest, 0, v)
  <2>1. SUFFICES ASSUME NEW i \in (0 + 1)..Len(rest)
                 PROVE  Host!Follows(Prev(rest, 0, v, i), rest[i])
    BY DEF Turn
  <2>2. i \in 1..(Len(rest) + 1) /\ p + k + i \in ((p + k) + 1)..Len(b) /\ rest[i] = b[p + k + i]
    BY <1>3
  <2> QED
    BY <1>8, <1>10, <2>2 DEF Turn
<1>12. Whole(rest, 0, v, m)
  <2>1. Len(rest) \in Nat /\ Len(b) \in Nat /\ p + k \in Nat /\ Len(rest) = Len(b) - (p + k)
    BY <1>1, <1>3
  <2>2. Len(rest) + 1 \in 1..(Len(rest) + 1) /\ p + k + (Len(rest) + 1) = Len(b) + 1
    BY <2>1
  <2> QED
    BY <1>9, <1>10, <2>2 DEF Whole
<1> QED
  BY <1>1, <1>2, <1>3, <1>5, <1>6, <1>8, <1>9, <1>11, <1>12 DEF steps, given, rest

\* The invariant in these terms.
MspParts ==
  /\ mspMade \in Nat /\ mspAsked \in Nat /\ mspSent \in 0..3
  /\ mspRx \in Seq(Byte)
  /\ mspBuf \in Seq(Unit) /\ mspWire.unit \in Unit
  /\ mspTx \in {"IDLE", "SENDING"} /\ mspPos \in 0..Len(mspBuf) /\ mspLength \in 0..Len(mspBuf)
  /\ Host!AtFront /\ mspMade < mspAsked /\ mspWire.whole
  /\ Turn(mspBuf, mspPos, mspWire.unit) /\ Whole(mspBuf, mspPos, mspWire.unit, mspMade)

LEMMA MspSame == Host!Inv <=> MspParts
BY DEF Host!Inv, MspParts, Host!TypeOK, Host!QuestionsOver, Host!WholeAnswers, Host!InTurn,
   Host!EndsWhole, Host!Before, Turn, Whole, Prev, Unit, Byte, Kind

LEMMA MspInit == ASSUME Host!Init PROVE MspParts
<1>1. Len(<< >>) = 0 /\ << >> \in Seq(Unit) /\ << >> \in Seq(Byte)
  OBVIOUS
<1>2. <<0, MspSize>> \in Unit
  BY MspAssumption DEF Unit
<1>3. Turn(<< >>, 0, <<0, MspSize>>) /\ Whole(<< >>, 0, <<0, MspSize>>, 0)
  BY <1>1 DEF Turn, Whole, Prev
<1> QED
  BY <1>1, <1>2, <1>3 DEF Host!Init, MspParts, Host!AtFront

\* What the buffer holds now, and what was answered.
Kept ==
  /\ UNCHANGED <<mspTx, mspPos, mspLength, mspWire>>
  /\ \/ mspBuf' = mspBuf /\ mspMade' = mspMade
     \/ \E n \in Nat : n = mspAsked /\ mspSent = 3 /\ mspMade' = n /\ mspBuf' = mspBuf \o Units(n)

\* A byte begins a packet, goes on with it, breaks it off or ends it, and only the end of a
\* question is answered.
LEMMA ParseFacts ==
  ASSUME MspParts, NEW byte \in Byte, Host!Parse(byte),
         UNCHANGED <<mspTx, mspPos, mspLength, mspWire>>,
         byte.of = mspAsked, byte.kind = "check" => mspSent = 3
  PROVE  Kept /\ mspRx' \in Seq(Byte)
<1> DEFINE got == Append(mspRx, byte)
<1>1. mspRx \in Seq(Byte) /\ got \in Seq(Byte) /\ << >> \in Seq(Byte)
  BY DEF MspParts
<1>2. \/ mspRx' \in {<< >>, mspRx, got} /\ mspMade' = mspMade /\ mspBuf' = mspBuf
      \/ /\ Len(got) = 4 /\ got = Host!Frame(byte.of) /\ mspRx' = << >>
         /\ Host!MakeAnswer(byte.of)
  BY Zenon DEF Host!Parse, Host!answers
<1>3. CASE mspRx' \in {<< >>, mspRx, got} /\ mspMade' = mspMade /\ mspBuf' = mspBuf
  BY <1>1, <1>3 DEF Kept
<1>4. CASE /\ Len(got) = 4 /\ got = Host!Frame(byte.of) /\ mspRx' = << >>
           /\ Host!MakeAnswer(byte.of)
  <2>1. Len(got) = Len(mspRx) + 1 /\ got[Len(mspRx) + 1] = byte /\ Len(mspRx) \in Nat
    BY <1>1
  <2>6. Len(mspRx) + 1 = 4
    BY <1>4, <2>1
  <2>2. Host!Frame(byte.of)[4].kind = "check"
    BY DEF Host!Frame, Host!Kinds
  <2>3. mspSent = 3
    BY <1>4, <2>1, <2>6, <2>2
  <2>4. \/ mspMade' = byte.of /\ mspBuf' = mspBuf \o Units(byte.of)
        \/ mspMade' = mspMade /\ mspBuf' = mspBuf
    BY <1>4, Zenon DEF Host!MakeAnswer, Units
  <2>5. byte.of \in Nat
    BY DEF Byte
  <2> QED
    BY <1>1, <1>4, <2>3, <2>4, <2>5 DEF Kept
<1> QED
  BY <1>2, <1>3, <1>4

LEMMA HostSendsStep == ASSUME MspParts, Host!HostSends PROVE MspParts'
<1>1. /\ UNCHANGED <<mspTx, mspPos, mspLength, mspWire>>
      /\ IF mspSent = 3 THEN mspAsked' = mspAsked + 1 /\ mspSent' = 0
         ELSE mspSent' = mspSent + 1 /\ mspAsked' = mspAsked
      /\ \/ Host!Parse(Host!Frame(mspAsked)[mspSent + 1])
         \/ UNCHANGED <<mspRx, mspMade, mspBuf>>
         \/ Host!Parse([of |-> mspAsked, kind |-> "broken"])
  BY DEF Host!HostSends, Host!sending, Host!answers
<1>2. /\ mspAsked' \in Nat /\ mspSent' \in 0..3 /\ mspAsked <= mspAsked'
      /\ mspSent = 3 => mspAsked < mspAsked'
  BY <1>1 DEF MspParts
<1>3. Kept /\ mspRx' \in Seq(Byte)
  <2>1. CASE UNCHANGED <<mspRx, mspMade, mspBuf>>
    BY <1>1, <2>1 DEF Kept, MspParts
  <2>2. CASE Host!Parse([of |-> mspAsked, kind |-> "broken"])
    <3> DEFINE byte == [of |-> mspAsked, kind |-> "broken"]
    <3>1. byte \in Byte /\ byte.of = mspAsked /\ byte.kind # "check"
      BY DEF MspParts, Byte, Kind
    <3> HIDE DEF byte
    <3>2. Host!Parse(byte)
      BY <2>2 DEF byte
    <3> QED
      BY <1>1, <3>1, <3>2, ParseFacts
  <2>3. CASE Host!Parse(Host!Frame(mspAsked)[mspSent + 1])
    <3>1. mspSent \in 0..3 /\ mspSent + 1 \in 1..4 /\ mspAsked \in Nat
      BY DEF MspParts
    <3>2. /\ Host!Frame(mspAsked)[mspSent + 1] = [of |-> mspAsked, kind |-> Host!Kinds[mspSent + 1]]
      BY <3>1 DEF Host!Frame
    <3>3. Host!Kinds[mspSent + 1] \in Kind /\ (Host!Kinds[mspSent + 1] = "check" => mspSent = 3)
      <4>1. mspSent \in {0, 1, 2, 3}
        BY <3>1
      <4>2. mspSent + 1 \in {1, 2, 3, 4} /\ (mspSent + 1 = 4 => mspSent = 3)
        BY <4>1
      <4>3. Host!Kinds[1] = "$" /\ Host!Kinds[2] = "M<" /\ Host!Kinds[3] = "body" /\ Host!Kinds[4] = "check"
        BY DEF Host!Kinds
      <4> QED
        BY <4>2, <4>3 DEF Kind
    <3> QED
      BY <1>1, <2>3, <3>1, <3>2, <3>3, ParseFacts DEF Byte
  <2> QED
    BY <1>1, <2>1, <2>2, <2>3
<1>4. CASE mspBuf' = mspBuf /\ mspMade' = mspMade
  BY <1>2, <1>3, <1>4 DEF Kept, MspParts, Host!AtFront
<1>5. CASE \E n \in Nat : n = mspAsked /\ mspSent = 3 /\ mspMade' = n /\ mspBuf' = mspBuf \o Units(n)
  <2>1. /\ mspSent = 3 /\ mspMade' = mspAsked /\ mspBuf' = mspBuf \o Units(mspAsked)
        /\ mspAsked \in Nat /\ mspMade < mspAsked
    BY <1>5 DEF MspParts
  <2>2. /\ mspBuf' \in Seq(Unit) /\ Len(mspBuf') = Len(mspBuf) + MspSize
        /\ Turn(mspBuf', mspPos, mspWire.unit) /\ Whole(mspBuf', mspPos, mspWire.unit, mspMade')
    BY <2>1, AnswerFollows DEF MspParts
  <2>3. mspPos \in 0..Len(mspBuf') /\ mspLength \in 0..Len(mspBuf')
    BY <2>2, MspAssumption DEF MspParts
  <2> QED
    BY <1>2, <1>3, <2>1, <2>2, <2>3 DEF Kept, MspParts, Host!AtFront
<1> QED
  BY <1>3, <1>4, <1>5 DEF Kept

LEMMA SendStep == ASSUME MspParts, Host!Send PROVE MspParts'
<1>1. PICK k \in 1..(Len(mspBuf) - mspPos) : Host!SendTaken(k)
  BY DEF Host!Send
<1>2. /\ UNCHANGED <<mspAsked, mspSent, mspRx, mspMade>>
      /\ mspTx = "SENDING"
  BY DEF Host!Send, Host!host
<1> DEFINE given == SubSeq(mspBuf, mspPos + 1, mspPos + k)
           steps == <<mspWire.unit>> \o given
           rest  == SubSeq(mspBuf, mspPos + k + 1, Len(mspBuf))
           v     == mspBuf[mspPos + k]
<1>3. /\ steps[Len(steps)] = v /\ v \in Unit
      /\ \A i \in 1..Len(given) : Host!Follows(steps[i], steps[i + 1])
      /\ Turn(mspBuf, mspPos + k, v) /\ Whole(mspBuf, mspPos + k, v, mspMade)
      /\ rest \in Seq(Unit) /\ Turn(rest, 0, v) /\ Whole(rest, 0, v, mspMade)
  BY TakenFollow DEF MspParts
<1>4. mspWire'.unit = v /\ mspWire'.whole
  <2>1. mspWire' = [unit |-> Host!Last(steps), whole |-> mspWire.whole /\
                      \A i \in 1..Len(given) : Host!Follows(steps[i], steps[i + 1])]
    BY <1>1 DEF Host!SendTaken
  <2>2. Host!Last(steps) = steps[Len(steps)]
    BY DEF Host!Last
  <2> QED
    BY <1>3, <2>1, <2>2 DEF MspParts
<1>5. \/ mspBuf' = rest /\ mspTx' = "IDLE" /\ mspPos' = 0 /\ mspLength' = 0
      \/ mspPos' = mspPos + k /\ UNCHANGED <<mspBuf, mspTx, mspLength>>
  BY <1>1, Zenon DEF Host!SendTaken
<1>6. mspPos + k \in 0..Len(mspBuf) /\ Len(rest) \in Nat /\ 0 \in 0..Len(rest)
  BY <1>3 DEF MspParts
<1> HIDE DEF rest, v
<1>7. CASE mspBuf' = rest /\ mspTx' = "IDLE" /\ mspPos' = 0 /\ mspLength' = 0
  BY <1>2, <1>3, <1>4, <1>6, <1>7 DEF MspParts, Host!AtFront
<1>8. CASE mspPos' = mspPos + k /\ UNCHANGED <<mspBuf, mspTx, mspLength>>
  BY <1>2, <1>3, <1>4, <1>6, <1>8 DEF MspParts, Host!AtFront
<1> QED
  BY <1>5, <1>7, <1>8

\* Every step of the host, of the line and of the client keeps the invariant.
LEMMA MspStep == ASSUME MspParts, [Host!Next]_(Host!vars) PROVE MspParts'
<1>1. CASE Host!HostSends
  BY <1>1, HostSendsStep
<1>2. CASE Host!Send
  BY <1>2, SendStep
<1>3. CASE Host!Timeout
  <2>1. << >> \in Seq(Byte)
    OBVIOUS
  <2> QED
    BY <1>3, <2>1 DEF Host!Timeout, Host!host, Host!answers, Host!sending, MspParts, Host!AtFront
<1>4. CASE Host!Held
  BY <1>4 DEF Host!Held, Host!host, Host!answers, Host!sending, MspParts, Host!AtFront
<1>5. CASE Host!Begin
  <2>1. /\ UNCHANGED <<mspAsked, mspSent, mspRx, mspMade, mspBuf, mspWire>>
        /\ mspTx = "IDLE"
        /\ \/ mspTx' = "SENDING" /\ mspPos' = 0 /\ mspLength' = Len(mspBuf)
           \/ UNCHANGED <<mspTx, mspPos, mspLength>>
    BY <1>5, Zenon DEF Host!Begin, Host!host, Host!answers
  <2>2. mspPos = 0 /\ Len(mspBuf) \in 0..Len(mspBuf)
    BY <2>1 DEF MspParts, Host!AtFront
  <2> QED
    BY <2>1, <2>2 DEF MspParts, Host!AtFront
<1>6. CASE UNCHANGED Host!vars
  BY <1>6 DEF Host!vars, MspParts, Host!AtFront
<1> QED
  BY <1>1, <1>2, <1>3, <1>4, <1>5, <1>6 DEF Host!Next

\* MSP gives the transport whole answers, in the order of their questions and each once: for
\* every room, every size of answers and any number of questions and faults.
THEOREM MspAnswers == Host!Spec => []Host!WholeAnswers
<1>1. MspParts => Host!WholeAnswers
  BY DEF MspParts, Host!WholeAnswers
<1> QED
  BY <1>1, MspInit, MspStep, PTL DEF Host!Spec

-----------------------------------------------------------------------------
(* Both.                                                                     *)

\* What the two protocols promise, of every behaviour of the two.
THEOREM ProtocolsHold == ProtocolsSpec => []AnswersAreOwn
<1>1. ProtocolsInit => Line!Init /\ Host!Init
  BY DEF ProtocolsInit
<1>2. [ProtocolsNext]_protocolVars => [Line!Next]_(Line!vars) /\ [Host!Next]_(Host!vars)
  BY DEF ProtocolsNext, protocolVars, lineVars, mspVars, Line!vars, Line!master, Line!slaves, Host!vars
<1>3. ProtocolsSpec => Line!Spec /\ Host!Spec
  BY <1>1, <1>2, PTL DEF ProtocolsSpec, Line!Spec, Host!Spec
<1>4. (Line!AnswerIsOwn /\ Line!OneTalker) /\ Host!WholeAnswers => AnswersAreOwn
  BY DEF AnswersAreOwn
<1> QED
  BY <1>3, <1>4, LineAnswers, MspAnswers, PTL
=============================================================================
