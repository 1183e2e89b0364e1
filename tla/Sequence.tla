------------------------------ MODULE Sequence ------------------------------
(* A sequence of steps on a task of its own (core/pif_sequence.c): each step picks what follows  *)
(* it, the task asks for its next release through what it returns, other tasks start and stop    *)
(* the sequence, and an interrupt may raise the signal at any moment, during a step too.  Time   *)
(* is counted in milliseconds, which PIF_SEQUENCE_WAIT_POLL_US is one of.                        *)
EXTENDS Integers, FiniteSetsExt

CONSTANTS
  Delays,      \* what a step asks for: delays, and timeouts of a wait, 0 for none
  Longest      \* the bound on how long a step runs

VARIABLES
  state,       \* __state
  left,        \* __wait_ms less the time since __start_ms, 0 once it has passed
  timed,       \* __wait_ms of a wait is not 0
  handler,     \* __on_timeout is not NULL
  event,       \* __event
  paused, period, since,   \* the task: _pause, __period and the time since its last release
  pc,          \* "out", "step" while a step runs and "return" after it
  raised       \* the signal was raised since the wait began

vars == <<state, left, timed, handler, event, paused, period, since, pc, raised>>
sequence == <<state, left, timed, handler>>

WaitPoll == 1
Longer == Max(Delays \cup {WaitPoll})

Init ==
  /\ state = "idle" /\ left = 0 /\ timed = FALSE /\ handler = FALSE /\ event = FALSE
  /\ paused = TRUE /\ period = WaitPoll /\ since = 0 /\ pc = "out" /\ raised = FALSE

-----------------------------------------------------------------------------
(* The task.                                                                 *)

TimedOut == timed /\ left = 0

\* The pending step may run: at once, after its delay, or at the signal or the timeout of a wait.
Due ==
  \/ state = "run"
  \/ (state = "delay" /\ left = 0)
  \/ (state = "wait" /\ (event \/ (TimedOut /\ handler)))

\* _poll() up to the step: the sequence is idle while the step runs, and a wait that timed out
\* with nothing to run ends.
Poll ==
  /\ pc = "out" /\ ~paused /\ since >= period
  /\ since' = 0
  /\ event' = (event /\ state # "wait")
  /\ IF Due THEN state' = "idle" /\ pc' = "step"
     ELSE state' = (IF state = "wait" /\ TimedOut THEN "idle" ELSE state) /\ pc' = "return"
  /\ UNCHANGED <<left, timed, handler, paused, period, raised>>

\* _nextPoll() while the sequence is not idle.
NextPoll ==
  CASE state = "run"   -> 0
    [] state = "delay" -> left
    [] state = "wait"  -> IF event \/ TimedOut THEN 0 ELSE WaitPoll

\* The end of _doTask(): the task is released again when the pending step is due, or pauses.
Return ==
  /\ pc = "return"
  /\ pc' = "out"
  /\ paused' = (paused \/ state = "idle")
  /\ period' = IF state = "idle" THEN WaitPoll ELSE NextPoll
  /\ UNCHANGED <<sequence, event, since, raised>>

-----------------------------------------------------------------------------
(* The calls of a step.                                                      *)

Chosen(s, wait) ==
  /\ pc = "step" /\ pc' = "return"
  /\ state' = s /\ left' = wait
  /\ UNCHANGED <<paused, period, since>>

\* A step that picks nothing, or pifSequence_Next().
Next0 == \E s \in {"idle", "run"} : Chosen(s, 0) /\ UNCHANGED <<timed, handler, event, raised>>

\* pifSequence_Delay().
Delay == \E wait \in Delays : Chosen("delay", wait) /\ UNCHANGED <<timed, handler, event, raised>>

\* pifSequence_Wait(): signals raised before are discarded.
Wait == \E wait \in Delays, h \in BOOLEAN :
  /\ Chosen("wait", wait)
  /\ timed' = (wait > 0) /\ handler' = h
  /\ event' = FALSE /\ raised' = FALSE

-----------------------------------------------------------------------------
(* Other tasks, an interrupt, and time.                                      *)

\* Mutated Start: the task stays paused.
StartPaused ==
  /\ pc = "out" /\ state = "idle"
  /\ state' = "run" /\ period' = WaitPoll
  /\ UNCHANGED <<left, timed, handler, event, paused, since, pc, raised>>

\* pifSequence_Start(): the period may be a long delay left from before a stop.
Start ==
  /\ pc = "out" /\ state = "idle"
  /\ state' = "run" /\ period' = WaitPoll /\ paused' = FALSE
  /\ UNCHANGED <<left, timed, handler, event, since, pc, raised>>

\* pifSequence_Stop(), by another task or by the step that runs.
Stop ==
  /\ pc \in {"out", "step"}
  /\ state' = "idle" /\ paused' = TRUE
  /\ pc' = IF pc = "step" THEN "return" ELSE pc
  /\ UNCHANGED <<left, timed, handler, event, period, since, raised>>

\* pifSequence_Signal().
Signal ==
  /\ event' = TRUE
  /\ raised' = (raised \/ state = "wait")
  /\ UNCHANGED <<sequence, paused, period, since, pc>>

\* A millisecond passes: between releases, or while a step runs.
Tick ==
  /\ IF pc = "out" THEN paused \/ since < period ELSE since < Longest
  /\ left' = IF left > 0 THEN left - 1 ELSE 0
  /\ since' = IF since < Longer THEN since + 1 ELSE since
  /\ UNCHANGED <<state, timed, handler, event, paused, period, pc, raised>>

Next == Poll \/ Return \/ Next0 \/ Delay \/ Wait \/ Start \/ Stop \/ Signal \/ Tick

Spec == Init /\ [][Next]_vars

\* The scheduler releases the task, steps return, and time passes.
FairSpec ==
  /\ Spec
  /\ WF_vars(Poll) /\ WF_vars(Return) /\ WF_vars(Next0 \/ Delay \/ Wait) /\ WF_vars(Tick)

-----------------------------------------------------------------------------
(* What the module promises.                                                 *)

\* While a step is pending the task is not paused, and its next release comes no later than the
\* step is due: not after a stop and a start that left a long period behind, nor after a step
\* that took its time.  A signal is looked for every WaitPoll.
ReleasedInTime ==
  pc = "out" /\ state # "idle" =>
    /\ ~paused
    /\ period - since <= CASE state = "run"   -> WaitPoll
                           [] state = "delay" -> left
                           [] state = "wait"  -> WaitPoll

\* A signal raised since the wait began, from an interrupt during the step that began it too, is
\* still there when the wait is looked at.
SignalKept == state = "wait" /\ raised => event

\* A pending step that does not wait for a signal that never comes runs, unless the sequence is
\* stopped or its wait ends with nothing to run.
Pending ==
  pc # "step" /\ (state \in {"run", "delay"} \/ (state = "wait" /\ (raised \/ timed)))
Over == pc = "step" \/ state = "idle"
StepFollows == Pending ~> Over

-----------------------------------------------------------------------------
(* The inductive invariant ReleasedInTime and SignalKept rest on.                                *)

TypeOK ==
  /\ state \in {"idle", "run", "delay", "wait"} /\ left \in 0..Longer
  /\ timed \in BOOLEAN /\ handler \in BOOLEAN /\ event \in BOOLEAN
  /\ paused \in BOOLEAN /\ period \in 0..Longer /\ since \in 0..Longer
  /\ pc \in {"out", "step", "return"} /\ raised \in BOOLEAN

\* Only a stop pauses the task while its run goes on, and it leaves nothing pending.
Unpaused ==
  /\ pc = "step" => ~paused
  /\ pc = "return" /\ state # "idle" => ~paused

Inv == TypeOK /\ Unpaused /\ ReleasedInTime /\ SignalKept
=============================================================================
