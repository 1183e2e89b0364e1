-------------------------------- MODULE Msp --------------------------------
(* The MultiWii protocol (protocol/pif_msp.c) between a host that asks, without waiting for the  *)
(* answers, and a client that answers in evt_receive, over a line that loses or breaks bytes.    *)
(* A frame is "$", "M<", its body and its check; what an answer is made of is counted in units.  *)
EXTENDS Integers, Sequences, SequencesExt

CONSTANTS
  Questions,   \* the bound on the questions of the host
  Faults,      \* the bound on the bytes that are lost or broken
  Room,        \* units the answer buffer holds
  Size,        \* units of an answer: a header, its data and its check
  Periodic     \* the transmit task runs by its period, not only when it is triggered

VARIABLES
  asked, sent,     \* the host: questions begun, and bytes of the last of them that it has sent
  faults,
  rx,              \* __rx: the bytes since "$"; <<>> is MRS_IDLE
  made,            \* the questions that were answered
  buf,             \* what the answer buffer holds: <<question, unit>>
  tx, pos, length, \* __tx: state, pos and length
  trigger,         \* the transmit task is released
  wire             \* the last unit given to the transport, and whether each followed its own

vars == <<asked, sent, faults, rx, made, buf, tx, pos, length, trigger, wire>>
host == <<asked, sent, faults>>
answers == <<made, buf>>
sending == <<tx, pos, length, wire>>

Kinds == <<"$", "M<", "body", "check">>
Frame(n) == [k \in 1..4 |-> [of |-> n, kind |-> Kinds[k]]]

Init ==
  /\ asked = 1 /\ sent = 0 /\ faults = 0
  /\ rx = <<>> /\ made = 0 /\ buf = <<>>
  /\ tx = "IDLE" /\ pos = 0 /\ length = 0 /\ trigger = FALSE
  /\ wire = [unit |-> <<0, Size>>, whole |-> TRUE]

-----------------------------------------------------------------------------
(* The receiver.                                                             *)

\* pifMsp_MakeAnswer(), the pifMsp_AddAnswer functions and pifMsp_SendAnswer() in evt_receive: a
\* put session, which one that finds no room rolls back.
MakeAnswer(n) ==
  IF Len(buf) + Size <= Room
  THEN made' = n /\ buf' = buf \o [k \in 1..Size |-> <<n, k>>]
  ELSE UNCHANGED <<made, buf>>

\* _parsingPacket() and pifMsp_ParsingPacket(): "$" begins a packet, anything else there is not
\* of one; a byte that is wrong in its place or a wrong check drops the packet; a whole one goes
\* to evt_receive, and _evtParsing() triggers the sending.
Parse(byte) ==
  LET got == Append(rx, byte)
  IN CASE rx = <<>> /\ byte.kind # "$" -> UNCHANGED <<rx, answers, trigger>>
       [] Len(got) = 2 /\ byte.kind # "M<" -> rx' = <<>> /\ UNCHANGED <<answers, trigger>>
       [] Len(got) = 4 /\ got # Frame(byte.of) -> rx' = <<>> /\ UNCHANGED <<answers, trigger>>
       [] Len(got) = 4 /\ got = Frame(byte.of) ->
            rx' = <<>> /\ MakeAnswer(byte.of) /\ trigger' = TRUE
       [] OTHER -> rx' = got /\ UNCHANGED <<answers, trigger>>

\* Mutated Timeout: a packet is waited for as long as it takes.
TimeoutNever == FALSE /\ UNCHANGED vars

\* _evtTimerRxTimeout(): PIF_MSP_RECEIVE_TIMEOUT after "$" the packet is dropped.
Timeout ==
  /\ rx # <<>> /\ rx' = <<>>
  /\ UNCHANGED <<host, answers, sending, trigger>>

\* The host sends a byte, which may be lost or broken on its way.
HostSends ==
  /\ asked <= Questions
  /\ IF sent = 3 THEN asked' = asked + 1 /\ sent' = 0 ELSE sent' = sent + 1 /\ UNCHANGED asked
  /\ \/ Parse(Frame(asked)[sent + 1]) /\ UNCHANGED faults
     \/ /\ faults < Faults /\ faults' = faults + 1
        /\ UNCHANGED <<rx, answers, trigger>> \/ Parse([of |-> asked, kind |-> "broken"])
  /\ UNCHANGED sending

-----------------------------------------------------------------------------
(* The sender.                                                               *)

Follows(a, b) == IF a[2] < Size THEN b = <<a[1], a[2] + 1>> ELSE b[1] > a[1] /\ b[2] = 1

\* _evtSending() while a packet is being received: nothing is sent, and it is not asked for again.
Held ==
  /\ rx # <<>> /\ (Periodic \/ trigger)
  /\ trigger' = FALSE
  /\ UNCHANGED <<host, rx, answers, sending>>

\* _evtSending() in MTS_IDLE: what the buffer holds now is sent.
Begin ==
  /\ rx = <<>> /\ (Periodic \/ trigger)
  /\ tx = "IDLE"
  /\ IF buf # <<>>
     THEN tx' = "SENDING" /\ pos' = 0 /\ length' = Len(buf) /\ trigger' = TRUE
     ELSE trigger' = FALSE /\ UNCHANGED <<tx, pos, length>>
  /\ UNCHANGED <<host, rx, answers, wire>>

\* The transport takes k units, of answers that were made since too; once all that was there at
\* the beginning is gone, what was taken is removed.
SendTaken(k) ==
  LET given == SubSeq(buf, pos + 1, pos + k)
      steps == <<wire.unit>> \o given
  IN /\ wire' = [unit |-> Last(steps), whole |-> wire.whole /\
                   \A i \in 1..Len(given) : Follows(steps[i], steps[i + 1])]
     /\ IF pos + k >= length
        THEN buf' = SubSeq(buf, pos + k + 1, Len(buf)) /\ tx' = "IDLE" /\ pos' = 0 /\ length' = 0
        ELSE pos' = pos + k /\ UNCHANGED <<buf, tx, length>>

\* _evtSending() in MTS_SENDING: the transport keeps what it took and asks again as it drains.
Send ==
  /\ rx = <<>> /\ (Periodic \/ trigger)
  /\ tx = "SENDING"
  /\ \E k \in 1..Len(buf) - pos : SendTaken(k)
  /\ trigger' = TRUE
  /\ UNCHANGED <<host, rx, made>>

Next == HostSends \/ Timeout \/ Held \/ Begin \/ Send

Spec == Init /\ [][Next]_vars

\* The timer runs, the transmit task is released while it asks for it, and the line drains.
FairSpec == Spec /\ WF_vars(Timeout) /\ SF_vars(Begin) /\ SF_vars(Send)

-----------------------------------------------------------------------------
(* What the module promises.                                                 *)

\* What the transport is given is whole answers, in the order of their questions and each once:
\* not half of one that found no room, nor one sent twice because it was made during a sending.
WholeAnswers == wire.whole

\* An answer leaves, however the packet that comes after its question breaks off.
AnswersWait == buf # <<>>
AnswersLeave == AnswersWait ~> ~AnswersWait

-----------------------------------------------------------------------------
(* The inductive invariant WholeAnswers rests on.                                                *)

TypeOK ==
  /\ made \in Nat /\ asked \in Nat /\ sent \in 0..3
  /\ rx \in Seq([of : Nat, kind : {"$", "M<", "body", "check", "broken"}])
  /\ buf \in Seq(Nat \X (1..Size)) /\ wire.unit \in Nat \X (1..Size)
  /\ tx \in {"IDLE", "SENDING"} /\ pos \in 0..Len(buf) /\ length \in 0..Len(buf)

\* A sending has begun at the front of the buffer.
AtFront == tx = "IDLE" => pos = 0 /\ length = 0

\* What is still to be given follows on what was given, unit by unit, and ends with a whole answer
\* to a question that is over.
Before(i) == IF i = pos + 1 THEN wire.unit ELSE buf[i - 1]
InTurn == \A i \in (pos + 1)..Len(buf) : Follows(Before(i), buf[i])
EndsWhole == Before(Len(buf) + 1)[2] = Size /\ Before(Len(buf) + 1)[1] <= made
QuestionsOver == made < asked

Inv == TypeOK /\ AtFront /\ InTurn /\ EndsWhole /\ QuestionsOver /\ WholeAnswers
=============================================================================
