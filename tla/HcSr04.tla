------------------------------- MODULE HcSr04 -------------------------------
(* The HC-SR04 distance sensor (sensor/range/pif_hc_sr04.c): a task triggers a measurement and   *)
(* reports it, an interrupt takes the two edges of the echo at any moment between two accesses   *)
(* of the task, and other tasks start and stop it.  An echo may be missing, or an edge missed.   *)
(* The scheduler is modelled by what its loop does: a trigger is taken before the pause is.      *)
EXTENDS Naturals

CONSTANT
  Misses       \* the bound on echoes and edges that are missing

VARIABLES
  state,       \* __state
  expired,     \* PIF_HC_SR04_ECHO_TIMEOUT_US have passed since __trigger_time_us
  paused, trigger,   \* the task: _pause and __trigger
  pc,          \* "out", "task", "report", "fire" or "stop": what the task, or a stop, is about to do
  line,        \* the sensor: "low", "sent" after a trigger pulse, or "high"
  rose,        \* the rising edge that was taken is the one of the echo on the line
  started,     \* the measurements were started and have not been stopped since
  distance,    \* __distance: "none", "true", or "false" when its edges are of two echoes
  reported,    \* evt_read was called since the last trigger pulse and the last stop
  misses

vars == <<state, expired, paused, trigger, pc, line, rose, started, distance, reported, misses>>
task == <<paused, trigger, pc, started>>
sensor == <<line, rose, misses>>

Init ==
  /\ state = "READY" /\ expired = FALSE /\ paused = TRUE /\ trigger = FALSE /\ pc = "out"
  /\ line = "low" /\ rose = FALSE /\ started = FALSE /\ distance = "none" /\ reported = FALSE
  /\ misses = 0

-----------------------------------------------------------------------------
(* The task.                                                                 *)

\* The scheduler releases the task: by its trigger, paused or not, or by its period.
Release ==
  /\ pc = "out" /\ (trigger \/ ~paused)
  /\ trigger' = FALSE /\ pc' = "task"
  /\ UNCHANGED <<state, expired, paused, started, distance, reported, sensor>>

\* Mutated DoTask: an echo that never comes or never ends is waited for.
DoTaskWaits ==
  /\ pc = "task"
  /\ pc' = CASE state = "READY" -> "fire"
             [] state = "LOW"   -> "report"
             [] OTHER           -> "out"
  /\ UNCHANGED <<state, expired, paused, trigger, started, distance, reported, sensor>>

\* _doTask() looks at the state.
DoTask ==
  /\ pc = "task"
  /\ pc' = CASE state = "READY"                             -> "fire"
             [] state = "LOW"                               -> "report"
             [] state \in {"TRIGGER", "HIGH"} /\ expired    -> "fire"
             [] OTHER                                       -> "out"
  /\ UNCHANGED <<state, expired, paused, trigger, started, distance, reported, sensor>>

\* The distance is reported.
Report ==
  /\ pc = "report" /\ pc' = "out"
  /\ state' = "READY" /\ reported' = TRUE
  /\ UNCHANGED <<expired, paused, trigger, started, distance, sensor>>

\* pifHcSr04_Trigger(): a sensor that is still at an echo ignores the pulse.
Fire ==
  /\ pc = "fire" /\ pc' = "out"
  /\ state' = "TRIGGER" /\ expired' = FALSE
  /\ IF line = "low" THEN line' = "sent" /\ rose' = FALSE ELSE UNCHANGED <<line, rose>>
  /\ reported' = FALSE
  /\ UNCHANGED <<paused, trigger, started, distance, misses>>

-----------------------------------------------------------------------------
(* Other tasks.                                                              *)

\* pifHcSr04_StartTrigger().
StartTrigger ==
  /\ pc = "out" /\ ~started
  /\ state' = "READY" /\ paused' = FALSE /\ started' = TRUE
  /\ UNCHANGED <<expired, trigger, pc, distance, reported, sensor>>

\* pifHcSr04_StopTrigger(), up to pifTask_Pause() and after it.
StopTrigger ==
  /\ pc = "out" /\ started
  /\ paused' = TRUE /\ started' = FALSE /\ pc' = "stop" /\ reported' = FALSE
  /\ UNCHANGED <<state, expired, trigger, distance, sensor>>

StopDrops ==
  /\ pc = "stop" /\ pc' = "out"
  /\ state' = "READY"
  /\ UNCHANGED <<expired, paused, trigger, started, distance, reported, sensor>>

-----------------------------------------------------------------------------
(* The interrupt, the sensor and time.                                       *)

\* The echo begins: pifHcSr04_sigReceiveEcho(ON).
Rise ==
  /\ line = "sent" /\ line' = "high"
  /\ IF state = "TRIGGER" THEN state' = "HIGH" /\ expired' = FALSE /\ rose' = TRUE
     ELSE UNCHANGED <<state, expired, rose>>
  /\ UNCHANGED <<task, distance, reported, misses>>

\* The echo ends: pifHcSr04_sigReceiveEcho(OFF).
Fall ==
  /\ line = "high" /\ line' = "low"
  /\ IF state = "HIGH"
     THEN /\ state' = "LOW" /\ trigger' = TRUE
          /\ distance' = IF rose THEN "true" ELSE "false"
     ELSE UNCHANGED <<state, trigger, distance>>
  /\ UNCHANGED <<expired, paused, pc, started, reported, rose, misses>>

\* The echo does not come, or an edge of it is missed.
Miss ==
  /\ line # "low" /\ misses < Misses
  /\ line' \in IF line = "sent" THEN {"low", "high"} ELSE {"low"}
  /\ misses' = misses + 1
  /\ UNCHANGED <<state, expired, task, distance, reported, rose>>

\* The timeout passes: it is longer than any echo.
Expire ==
  /\ line = "low" /\ state \in {"TRIGGER", "HIGH"}
  /\ expired' = TRUE
  /\ UNCHANGED <<state, task, distance, reported, sensor>>

Next ==
  \/ Release \/ DoTask \/ Report \/ Fire \/ StartTrigger \/ StopTrigger \/ StopDrops
  \/ Rise \/ Fall \/ Miss \/ Expire

Spec == Init /\ [][Next]_vars

\* The scheduler releases the task and the task goes on, the sensor answers, and time passes.
FairSpec ==
  /\ Spec /\ WF_vars(Release) /\ WF_vars(DoTask \/ Report \/ Fire \/ StopDrops)
  /\ WF_vars(Rise) /\ WF_vars(Fall) /\ WF_vars(Expire)

-----------------------------------------------------------------------------
(* What the module promises.                                                 *)

\* A distance is measured between the two edges of one echo, whatever edges are missed and
\* wherever a stop, a start or a timeout falls.
OneEcho == distance # "false"

\* A missing echo or a missed edge holds nothing up: while it is not stopped, the sensor is
\* measured again and again.
Measuring == started /\ ~reported
Measures == Measuring ~> ~Measuring

\* pif_hc_sr04.h: "Stops the periodic trigger. A measurement on its way is dropped."
StopIsFinal == reported => started

\* The inductive invariant OneEcho rests on: an echo that is being measured is the one whose
\* rising edge was taken.
EchoIsOwn == state = "HIGH" => rose
Inv == EchoIsOwn /\ OneEcho
=============================================================================
