------------------------------ MODULE Releases ------------------------------
(* What releases a task in time, and what an interrupt has measured when it does, side by side:   *)
(* the trigger of a task that interrupts and timeouts share, a sequence of steps on a task of its *)
(* own, and a range sensor.  None of them touches what another one keeps, so that a step is one   *)
(* of one of them.  What each promises is stated here of all behaviours, and proved in            *)
(* ReleasesProofs.                                                                                *)
EXTENDS Integers

CONSTANTS
  TrigIsrDelays, TrigTimes, TrigFar,
  StepDelays, StepLongest,
  EchoMisses

\* Times are measured as far as a timeout is long, and an interrupt sets the trigger of a task
\* that has timeouts without a delay, as pifTask_SetTrigger() asks of its callers.
ASSUME TriggerAssumption ==
  TrigFar \in Nat /\ TrigTimes \subseteq 0..TrigFar /\ TrigIsrDelays \subseteq {0}

\* Delays are counts of milliseconds, one of them or the poll of a wait is the longest, and a step
\* takes its time.
ASSUME StepAssumption ==
  /\ StepDelays \subseteq Nat /\ StepLongest \in Nat
  /\ \E m \in StepDelays \cup {1} : \A d \in StepDelays \cup {1} : d <= m

VARIABLES
  \* the trigger
  trigFlag, trigDelay, trigAge, trigReading, trigLeft, trigTodo, trigArg, trigPc, trigOwed,
  \* the sequence
  stepState, stepLeft, stepTimed, stepHandler, stepEvent, stepPaused, stepPeriod, stepSince,
  stepPc, stepRaised,
  \* the range sensor
  echoState, echoExpired, echoPaused, echoTrigger, echoPc, echoLine, echoRose, echoStarted,
  echoDistance, echoReported, echoMisses

trigVars ==
  <<trigFlag, trigDelay, trigAge, trigReading, trigLeft, trigTodo, trigArg, trigPc, trigOwed>>
stepVars ==
  <<stepState, stepLeft, stepTimed, stepHandler, stepEvent, stepPaused, stepPeriod, stepSince,
    stepPc, stepRaised>>
echoVars ==
  <<echoState, echoExpired, echoPaused, echoTrigger, echoPc, echoLine, echoRose, echoStarted,
    echoDistance, echoReported, echoMisses>>
releaseVars == <<trigVars, stepVars, echoVars>>

Trigger == INSTANCE TaskTrigger WITH
  IsrDelays <- TrigIsrDelays, Times <- TrigTimes, Far <- TrigFar, flag <- trigFlag,
  delay <- trigDelay, age <- trigAge, reading <- trigReading, left <- trigLeft,
  todo <- trigTodo, arg <- trigArg, pc <- trigPc, owed <- trigOwed

Steps == INSTANCE Sequence WITH
  Delays <- StepDelays, Longest <- StepLongest, state <- stepState, left <- stepLeft,
  timed <- stepTimed, handler <- stepHandler, event <- stepEvent, paused <- stepPaused,
  period <- stepPeriod, since <- stepSince, pc <- stepPc, raised <- stepRaised

Sonar == INSTANCE HcSr04 WITH
  Misses <- EchoMisses, state <- echoState, expired <- echoExpired, paused <- echoPaused,
  trigger <- echoTrigger, pc <- echoPc, line <- echoLine, rose <- echoRose,
  started <- echoStarted, distance <- echoDistance, reported <- echoReported,
  misses <- echoMisses

-----------------------------------------------------------------------------
ReleasesInit == Trigger!Init /\ Steps!Init /\ Sonar!Init

ReleasesNext ==
  \/ Trigger!Next /\ UNCHANGED <<stepVars, echoVars>>
  \/ Steps!Next /\ UNCHANGED <<trigVars, echoVars>>
  \/ Sonar!Next /\ UNCHANGED <<trigVars, stepVars>>

ReleasesSpec == ReleasesInit /\ [][ReleasesNext]_releaseVars

-----------------------------------------------------------------------------
\* Trigger: a timeout that runs has its task triggered in time, whatever the others and the
\* interrupts did to the trigger they share.  Sequence: the task is released when the step is due
\* and not paused before, and a signal raised since the wait began is seen.  Range sensor: a
\* distance is that of one echo.
ReleasedInTime ==
  Trigger!TimeoutArmed /\ Steps!ReleasedInTime /\ Steps!SignalKept /\ Sonar!OneEcho
=============================================================================
