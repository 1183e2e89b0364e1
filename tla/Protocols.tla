----------------------------- MODULE Protocols -----------------------------
(* Two protocols of questions and answers side by side: a Modbus line with its master and slaves,  *)
(* and a MultiWii client with its host.  Neither touches what the other one keeps, so that a step  *)
(* is one of one of them.  What each promises is stated here of all behaviours, and proved in      *)
(* LinksProofs.                                                                                    *)
EXTENDS Integers

CONSTANTS
  LineSlaves, LinePolls, LineFaults, LineIds,
  MspQuestions, MspFaults, MspRoom, MspSize, MspPeriodic

\* No slave has the address that stands for all of them.
ASSUME LineAssumption == 0 \notin LineSlaves

\* An answer has a header and a check.
ASSUME MspAssumption == MspSize \in Nat /\ MspSize > 0 /\ MspRoom \in Nat

VARIABLES
  \* the Modbus line
  lineAscii, lineMst, lineErr, linePoll, lineId, lineTaken, lineRx, lineResp, lineAns, lineExec,
  lineFaulted,
  \* the MultiWii client and its host
  mspAsked, mspSent, mspFaulted, mspRx, mspMade, mspBuf, mspTx, mspPos, mspLength, mspTrigger,
  mspWire

lineVars ==
  <<lineAscii, lineMst, lineErr, linePoll, lineId, lineTaken, lineRx, lineResp, lineAns, lineExec,
    lineFaulted>>
mspVars ==
  <<mspAsked, mspSent, mspFaulted, mspRx, mspMade, mspBuf, mspTx, mspPos, mspLength, mspTrigger,
    mspWire>>
protocolVars == <<lineVars, mspVars>>

Line == INSTANCE Modbus WITH
  Slaves <- LineSlaves, Polls <- LinePolls, Faults <- LineFaults, Ids <- LineIds,
  ascii <- lineAscii, mst <- lineMst, err <- lineErr, poll <- linePoll, id <- lineId,
  taken <- lineTaken, rx <- lineRx, resp <- lineResp, ans <- lineAns, exec <- lineExec,
  faults <- lineFaulted

Host == INSTANCE Msp WITH
  Questions <- MspQuestions, Faults <- MspFaults, Room <- MspRoom, Size <- MspSize,
  Periodic <- MspPeriodic, asked <- mspAsked, sent <- mspSent, faults <- mspFaulted,
  rx <- mspRx, made <- mspMade, buf <- mspBuf, tx <- mspTx, pos <- mspPos,
  length <- mspLength, trigger <- mspTrigger, wire <- mspWire

-----------------------------------------------------------------------------
ProtocolsInit == Line!Init /\ Host!Init

ProtocolsNext ==
  \/ Line!Next /\ UNCHANGED mspVars
  \/ Host!Next /\ UNCHANGED lineVars

ProtocolsSpec == ProtocolsInit /\ [][ProtocolsNext]_protocolVars

-----------------------------------------------------------------------------
\* Modbus: a request that ends well ends with its own answer, given after the slave carried it
\* out, and two stations never talk at once.  MSP: answers are given to the transport whole, in
\* the order of their questions and each once.
AnswersAreOwn == Line!AnswerIsOwn /\ Line!OneTalker /\ Host!WholeAnswers
=============================================================================
