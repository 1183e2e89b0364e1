----------------------------- MODULE MCProtocols -----------------------------
(* The protocols and tasks that depend on fairness, for TLC: a behaviour is one of one component    *)
(* on an instance of it, so that one run checks them all.  The sending side of the UART and the     *)
(* components of Releases and Protocols have variables of their own, which the others leave alone.  *)
(* The UART has a buffer of three bytes, frames of one and two bytes, and a hardware with a data    *)
(* and a shift register, of every kind but one, where a start that is refused while XON or XOFF     *)
(* goes out takes away the mark of the transfer that runs.                                          *)
EXTENDS UartTx, Releases, Protocols

VARIABLE part        \* the component that runs, chosen once

allVars == <<vars, releaseVars, protocolVars, part>>

AllPorts == BOOLEAN \X {"none", "host", "device"} \X BOOLEAN \X BOOLEAN
MostPorts == {p \in AllPorts : ~(p[2] = "device" /\ p[4])}

\* While another component runs, there is one UART.
OneUart == Init /\ port = <<FALSE, "none", FALSE, FALSE>>

\* What the application of the Modbus master asks for: each kind of request, to a slave
\* that answers, to all of them, and with a function no slave has.
Ask(to, op) == [to |-> to, op |-> op]
Polls ==
  <<Ask(1, "read"), Ask(2, "write"), Ask(0, "write"), Ask(1, "unknown"), Ask(2, "read")>>

\* And there is one kind of Modbus line.
OneLine == ~lineAscii

-----------------------------------------------------------------------------
(* What a component does not use stays as it is.                             *)

KeepUart == UNCHANGED <<part, releaseVars, protocolVars>>
KeepTrigger == UNCHANGED <<part, vars, stepVars, echoVars, protocolVars>>
KeepSteps == UNCHANGED <<part, vars, trigVars, echoVars, protocolVars>>
KeepSonar == UNCHANGED <<part, vars, trigVars, stepVars, protocolVars>>
KeepLine == UNCHANGED <<part, vars, releaseVars, mspVars>>
KeepMsp == UNCHANGED <<part, vars, releaseVars, lineVars>>

AllInit ==
  /\ ReleasesInit /\ ProtocolsInit
  /\ \/ part = "modbus" /\ OneUart
     \/ /\ OneLine
        /\ \/ part = "uart tx" /\ Init
           \/ part \in {"trigger", "sequence", "hc sr04", "msp"} /\ OneUart

AllNext ==
  \/ part = "modbus" /\ Line!Next /\ KeepLine
  \/ part = "msp" /\ Host!Next /\ KeepMsp
  \/ part = "uart tx" /\ Next /\ KeepUart
  \/ part = "trigger" /\ Trigger!Next /\ KeepTrigger
  \/ part = "sequence" /\ Steps!Next /\ KeepSteps
  \/ part = "hc sr04" /\ Sonar!Next /\ KeepSonar

-----------------------------------------------------------------------------
(* The fairness each module justifies.  A behaviour stays in one component, so   *)
(* that fairness of a disjunction over them is fairness of each.                 *)

Weak1 ==
  \/ part = "modbus" /\ Line!MasterWorks /\ KeepLine
  \/ part = "msp" /\ Host!Timeout /\ KeepMsp
  \/ part = "uart tx" /\ Task /\ KeepUart
  \/ part = "trigger" /\ Trigger!Pass /\ KeepTrigger
  \/ part = "sequence" /\ Steps!Poll /\ KeepSteps
  \/ part = "hc sr04" /\ Sonar!Release /\ KeepSonar

Weak2 ==
  \/ part = "modbus" /\ Line!Timeout /\ KeepLine
  \/ part = "uart tx" /\ Interrupt /\ KeepUart
  \/ part = "trigger" /\ Trigger!Tick /\ KeepTrigger
  \/ part = "sequence" /\ Steps!Return /\ KeepSteps
  \/ part = "hc sr04" /\ (Sonar!DoTask \/ Sonar!Report \/ Sonar!Fire \/ Sonar!StopDrops) /\ KeepSonar

Weak3 ==
  \/ part = "modbus" /\ Line!SendAnswer(1) /\ KeepLine
  \/ part = "uart tx" /\ Tick /\ KeepUart
  \/ part = "sequence" /\ (Steps!Next0 \/ Steps!Delay \/ Steps!Wait) /\ KeepSteps
  \/ part = "hc sr04" /\ Sonar!Rise /\ KeepSonar

Weak4 ==
  \/ part = "modbus" /\ Line!SendAnswer(2) /\ KeepLine
  \/ part = "sequence" /\ Steps!Tick /\ KeepSteps
  \/ part = "hc sr04" /\ Sonar!Fall /\ KeepSonar

Weak5 ==
  \/ part = "hc sr04" /\ Sonar!Expire /\ KeepSonar

Strong1 ==
  \/ part = "modbus" /\ Line!Silence(1) /\ KeepLine
  \/ part = "msp" /\ Host!Begin /\ KeepMsp
  \/ part = "uart tx" /\ Start /\ KeepUart

Strong2 ==
  \/ part = "modbus" /\ Line!Silence(2) /\ KeepLine
  \/ part = "msp" /\ Host!Send /\ KeepMsp

AllFairSpec ==
  /\ AllInit /\ [][AllNext]_allVars
  /\ WF_allVars(Weak1) /\ WF_allVars(Weak2) /\ WF_allVars(Weak3) /\ WF_allVars(Weak4) /\ WF_allVars(Weak5)
  /\ SF_allVars(Strong1) /\ SF_allVars(Strong2)

-----------------------------------------------------------------------------
(* The properties, as the modules state them.  P ~> ~P is written []<>~P, which     *)
(* is the same and which TLC checks without a tableau.                        *)

\* A release of a task an interrupt asked for happens, and a step of a sequence that is pending
\* runs.
ReleaseHappens ==
  /\ []<>~(part = "trigger" /\ Trigger!Owed)
  /\ (part = "sequence" /\ Steps!Pending) ~> (part = "sequence" => Steps!Over)

\* MSP: an answer leaves, however the next packet breaks off.
AnswersLeave == []<>~(part = "msp" /\ Host!AnswersWait)

\* Modbus: every slave answers again and again, whatever it heard wrong.
MastersAnswered == \A k \in Line!Answerable : []<>(part = "modbus" => Line!Answered(k))

\* HC-SR04: the sensor is measured again and again, whatever edges are missed.
EchoesMeasured == []<>~(part = "hc sr04" /\ Sonar!Measuring)

\* UART: bytes that may be sent leave, and a half duplex line is given back.
LineServed == BytesLeave /\ LineReturns
=============================================================================
