---------------------------- MODULE TaskTrigger ----------------------------
(* One task that only triggers release (TM_EXTERNAL), access by access: the main *)
(* context sets its trigger with three stores and tests it with several reads,   *)
(* and an interrupt may set it between any two of them.  The task has timeouts   *)
(* (PifTaskTimeout), which share that one trigger.  A time is what is left of it *)
(* or what has passed since.                                                     *)
EXTENDS Integers

CONSTANTS
  IsrDelays,   \* delays an interrupt sets a trigger with
  Times,       \* lengths of a timeout
  Far          \* the bound on a time that is measured

VARIABLES
  flag, delay, \* __trigger, __trigger_delay
  age,         \* time since __trigger_time
  reading,     \* time since the reading at the top of the pass (pif_timer1us)
  left,        \* what is left of each timeout, Stopped when it is not running
  todo, arg,   \* the next store of pifTask_SetTrigger() and its delay
  pc,          \* where the pass is: "top", then the tests, then the run
  owed         \* what is left till the release the interrupt asked for last

Timeout == 1..2
Stopped == -1
vars == <<flag, delay, age, reading, left, todo, arg, pc, owed>>
trigger == <<flag, delay, age>>
store == <<todo, arg>>

Init ==
  /\ flag = FALSE /\ delay = 0 /\ age = 0 /\ reading = 0
  /\ left = [k \in Timeout |-> Stopped]
  /\ todo = "none" /\ arg = 0 /\ pc = "top" /\ owed = Stopped

-----------------------------------------------------------------------------
(* Setting the trigger.                                                      *)

\* pifTask_SetTrigger() in the main context: the time, the flag and the delay.
StoreTime == todo = "time" /\ age' = 0 /\ todo' = "flag" /\ UNCHANGED <<flag, delay>>
StoreFlag == todo = "flag" /\ flag' = TRUE /\ todo' = "delay" /\ UNCHANGED <<age, delay>>
StoreDelay == todo = "delay" /\ delay' = arg /\ todo' = "none" /\ UNCHANGED <<age, flag>>

SetTrigger == (StoreTime \/ StoreFlag \/ StoreDelay) /\ UNCHANGED <<arg, reading, left, pc, owed>>

\* pifTask_SetTrigger() in an interrupt.
Interrupt(d) ==
  /\ flag' = TRUE /\ delay' = d /\ age' = 0 /\ owed' = d
  /\ UNCHANGED <<reading, left, todo, arg, pc>>

\* _triggerBefore(): a nearer trigger is left alone.
TriggerBefore(d) ==
  IF flag /\ delay - age <= d
    THEN UNCHANGED store
    ELSE todo' = "time" /\ arg' = d

-----------------------------------------------------------------------------
(* The timeouts, started and stopped by other code of the main context.      *)

Start(k, t) ==
  /\ pc = "top" /\ todo = "none"
  /\ left' = [left EXCEPT ![k] = t]
  /\ TriggerBefore(t)
  /\ UNCHANGED <<trigger, reading, pc, owed>>

Stop(k) ==
  /\ pc = "top" /\ todo = "none" /\ left[k] # Stopped
  /\ left' = [left EXCEPT ![k] = Stopped]
  /\ UNCHANGED <<trigger, reading, store, pc, owed>>

\* pifTask_CancelTrigger(), as XMODEM does when its timeouts are stopped.
Cancel ==
  /\ pc = "top" /\ todo = "none" /\ \A k \in Timeout : left[k] = Stopped
  /\ flag' = FALSE /\ delay' = 0 /\ owed' = Stopped
  /\ UNCHANGED <<age, reading, left, store, pc>>

-----------------------------------------------------------------------------
(* A pass of pifTaskManager_Loop() over the task.                            *)

Main == todo = "none"

Read ==
  /\ pc = "top" /\ Main /\ pc' = "flag" /\ reading' = 0
  /\ UNCHANGED <<trigger, left, store, owed>>

TestFlag ==
  /\ pc = "flag"
  /\ pc' = IF flag THEN "delay" ELSE "top"
  /\ UNCHANGED <<trigger, reading, left, store, owed>>

\* A trigger set after the reading has not aged at all.
Due == age - reading >= 0 /\ age - reading >= delay

TestDelay ==
  /\ pc = "delay"
  /\ pc' = IF delay # 0 /\ Due THEN "due" ELSE "now"
  /\ UNCHANGED <<trigger, reading, left, store, owed>>

EndDelay ==
  /\ pc = "due" /\ delay' = 0 /\ pc' = "now"
  /\ UNCHANGED <<flag, age, reading, left, store, owed>>

\* Mutated TestNow: the flag is cleared whether or not the delay is over.
TestCleared ==
  /\ pc = "now"
  /\ pc' = IF delay = 0 THEN "clear" ELSE "top"
  /\ flag' = FALSE
  /\ UNCHANGED <<delay, age, reading, left, store, owed>>

TestNow ==
  /\ pc = "now"
  /\ pc' = IF delay = 0 THEN "clear" ELSE "top"
  /\ UNCHANGED <<trigger, reading, left, store, owed>>

\* The flag is cleared and the task is run: the release that is due is had.
Clear ==
  /\ pc = "clear" /\ flag' = FALSE /\ pc' = "run1"
  /\ owed' = IF owed = 0 THEN Stopped ELSE owed
  /\ UNCHANGED <<delay, age, reading, left, store>>

\* The run asks each timeout (pifTaskTimeout_IsExpired()): one that is over is done
\* with, one that is still running brings the trigger forward.
Check(k) ==
  /\ pc = (IF k = 1 THEN "run1" ELSE "run2") /\ Main
  /\ pc' = IF k = 1 THEN "run2" ELSE "top"
  /\ IF left[k] > 0
       THEN TriggerBefore(left[k]) /\ UNCHANGED left
       ELSE left' = [left EXCEPT ![k] = Stopped] /\ UNCHANGED store
  /\ UNCHANGED <<trigger, reading, owed>>

Pass ==
  \/ Read \/ TestFlag \/ TestDelay \/ EndDelay \/ TestNow \/ Clear \/ SetTrigger
  \/ \E k \in Timeout : Check(k)

-----------------------------------------------------------------------------
Later(n) == IF n > 0 THEN n - 1 ELSE n

\* A unit of time, which is long against the stores of one call.
Tick ==
  /\ Main
  /\ age' = IF age < Far THEN age + 1 ELSE age
  /\ reading' = IF reading < Far /\ age < Far THEN reading + 1 ELSE reading
  /\ left' = [k \in Timeout |-> Later(left[k])]
  /\ owed' = Later(owed)
  /\ UNCHANGED <<flag, delay, store, pc>>

Next ==
  \/ Pass \/ Tick \/ Cancel
  \/ \E d \in IsrDelays : Interrupt(d)
  \/ \E k \in Timeout : Stop(k) \/ \E t \in Times : Start(k, t)

Spec == Init /\ [][Next]_vars

\* The loop goes on and so does time.
FairSpec == Spec /\ WF_vars(Pass) /\ WF_vars(Tick)

-----------------------------------------------------------------------------
\* Between two passes, a timeout that runs has a trigger pending that is due no later
\* than it is, whatever the other timeout and the interrupts did to the shared trigger.
TimeoutArmed ==
  pc = "top" /\ Main =>
    \A k \in Timeout : left[k] # Stopped => flag /\ delay - age <= left[k]

\* A release an interrupt asked for happens: "Releases the task once after the delay."
Owed == owed # Stopped
ReleaseHappens == Owed ~> ~Owed

-----------------------------------------------------------------------------
(* The inductive invariant TimeoutArmed rests on.                            *)

TypeOK ==
  /\ flag \in BOOLEAN /\ delay \in 0..Far /\ age \in 0..Far /\ arg \in 0..Far
  /\ left \in [Timeout -> Stopped..Far]
  /\ todo \in {"none", "time", "flag", "delay"}
  /\ pc \in {"top", "flag", "delay", "due", "now", "clear", "run1", "run2"}

\* The stores of a trigger are a run's or another task's, never in the midst of the tests.
StoresApart == ~Main => pc \in {"top", "run2"}
Stored == todo = "flag" => age = 0
StoredTwice == todo = "delay" => age = 0 /\ flag

\* A timeout has the trigger, or is about to have it: what is being stored is due no later than
\* it.  The run that takes the trigger asks the timeouts in turn, and has asked the first one.
Armed(k) ==
  left[k] # Stopped => IF Main THEN flag /\ delay - age <= left[k] ELSE arg <= left[k]
Asked == IF pc = "run1" THEN {} ELSE IF pc = "run2" THEN {1} ELSE Timeout
AllArmed == \A k \in Asked : Armed(k)

Inv == TypeOK /\ StoresApart /\ Stored /\ StoredTwice /\ AllArmed
=============================================================================
