---------------------------- MODULE TaskManager ----------------------------
(***************************************************************************)
(* The cooperative scheduler of PIF: one pass of pifTaskManager_Loop() at a *)
(* time, cut where it reads the 1 us timer or calls out, with interrupts    *)
(* that set triggers between any two steps.                                 *)
(*                                                                         *)
(* Time.  The code keeps timer readings and only ever uses differences of   *)
(* two of them.  The model keeps the differences to the current time: the   *)
(* "age" of a reading grows by one with every Tick and stops at Cap, above  *)
(* every period and delay.  A difference a - b of the code is the age of b  *)
(* minus the age of a; where it is negative the code's unsigned subtraction *)
(* has wrapped, and the operators below say what the code makes of it.      *)
(*                                                                         *)
(* Readings that only the statistics use are left out, and so is the 32 bit *)
(* wrap of a wait longer than 35 minutes.                                   *)
(***************************************************************************)
EXTENDS Integers, Sequences

CONSTANTS
  Ring,           \* the tasks in the order s_tasks links them
  Timers,         \* the timer callbacks in the order s_timers links them
  Idle,           \* the idle callback
  Realtime,       \* g_realtime_task, or NoTask
  NoTask,
  Mode,           \* _mode of every task
  DefaultPeriod,  \* _default_period of every task, 0 for TM_EXTERNAL
  IdlePeriod,     \* s_idle_period
  MaxSkip,        \* max_skip of every task and timer callback
  MaxRun,         \* longest run of every task and callback
  Returns,        \* what the loop of every task may return
  Cost,           \* longest time the scheduler takes from a reading to a dispatch
  GuardMin, GuardMax, GuardUp, GuardDown,
  Clients,        \* the interrupts and applications the scheduler may serve
  Cap,            \* where an age stops growing
  Forever         \* 0xFFFFFFFF, the slack when nothing has to be protected

Task == {Ring[i] : i \in DOMAIN Ring}
Timer == {Timers[i] : i \in DOMAIN Timers}
Owner == Task \cup Timer \cup {Idle}

ASSUME RingAssumption ==
  /\ Ring \in Seq(Task)
  /\ Len(Ring) > 0
  /\ Timers \in Seq(Timer)
  /\ NoTask \notin Owner
  /\ Idle \notin Task \cup Timer
  /\ Task \cap Timer = {}
  /\ Realtime \in Task \cup {NoTask}
  /\ Mode \in [Task -> {"external", "period", "realtime"}]
  /\ \A t \in Task : Mode[t] = "realtime" <=> t = Realtime

ASSUME TimeAssumption ==
  /\ DefaultPeriod \in [Task -> Nat]
  /\ \A t \in Task : Mode[t] = "period" => DefaultPeriod[t] > 0
  /\ IdlePeriod \in Nat
  /\ MaxSkip \in [Owner -> Nat]
  /\ MaxRun \in [Owner -> Nat]
  /\ Returns \in [Task -> SUBSET Nat]
  /\ Cost \in Nat
  /\ Cap \in Nat
  /\ Forever \in Nat

\* A client: triggers holds the pairs <<task, delay>> interrupts give to
\* pifTask_SetTrigger(), runTriggers the <<caller, task, delay>> the loop of caller
\* gives to it, cutins the tasks given to pifTask_SetCutinTrigger(), controls those
\* the application pauses, resumes, restarts and cancels, declares the pairs
\* <<task, length>> given to pifTask_SetNextBlockTime(), and idle says whether
\* pifTaskManager_SetIdle() gave an idle callback.
ASSUME ClientAssumption ==
  \A c \in Clients :
    /\ c.triggers \subseteq Task \X Nat
    /\ c.runTriggers \subseteq Task \X Task \X Nat
    /\ c.cutins \subseteq Task
    /\ c.controls \subseteq Task
    /\ c.declares \subseteq Task \X Nat
    /\ c.idle \in BOOLEAN

\* An age that has stopped growing is past everything it is compared with.
ASSUME CapAssumption ==
  /\ \A t \in Task : \A p \in Returns[t] \cup {DefaultPeriod[t]} : 2 * p + Cost < Cap
  /\ \A c \in Clients : /\ \A p \in c.triggers : p[2] + Cost < Cap
                        /\ \A p \in c.runTriggers : p[3] + Cost < Cap
  /\ IdlePeriod <= Cap

ASSUME GuardAssumption ==
  /\ GuardMin \in Nat
  /\ GuardUp \in Nat
  /\ GuardDown \in Nat
  /\ GuardMax \in Nat
  /\ GuardMin <= GuardMax

VARIABLES
  client,     \* who uses the scheduler
  pc,         \* where the main context is in a pass
  cur,        \* whose run is selected or going on
  trig,       \* the local "trigger": the run selected comes from a trigger
  verdict,    \* how the run going on was let start
  allow,      \* the block time it was judged by
  ran,        \* how long it has been going on
  read,       \* age of pif_timer1us, the reading of the pass
  slack,      \* time left before the realtime release, from that reading
  unseen,     \* the release was brought forward after the slack was taken
  it,         \* s_it_current, a position in Ring
  left,       \* visits left in this pass
  tm,         \* position of the timer callback loop in Timers
  age,        \* age of __pretime; not kept for TM_EXTERNAL, which never uses it
  period,     \* __period
  pause,      \* _pause
  trigger,    \* __trigger
  wait,       \* age of __trigger_time while a delay is pending, else 0
  delay,      \* __trigger_delay
  skipCount,  \* __skip_count
  skipAge,    \* age of __skip_time while __skip_count is not 0, else 0
  est,        \* _block_time._max
  declared,   \* __next_block_time
  cutin,      \* g_task_cutin
  guard,      \* s_task_guard
  runEnd,     \* age of s_run_end while s_run_since_release, else 0
  runSince,   \* s_run_since_release
  idleAge     \* age of s_idle_pretime, up to IdlePeriod

pass == <<pc, cur, trig, verdict, allow, ran, read, slack, unseen, it, left, tm>>
requests == <<trigger, wait, delay, cutin>>
skips == <<skipCount, skipAge>>
grid == <<age, period, pause>>
margin == <<guard, runEnd, runSince>>
vars == <<client, pass, requests, skips, grid, margin, est, declared, idleAge>>

Running == {"run", "timerRun", "idleRun"}

(***************************************************************************)
(* The realtime release and the slack before it                            *)
(***************************************************************************)

Minimum(a, b) == IF a < b THEN a ELSE b
Maximum(a, b) == IF a > b THEN a ELSE b
Older(a) == IF a < Cap THEN a + 1 ELSE Cap

\* pif_timer1us - __pretime >= __period.  A __pretime later than the reading
\* wraps to a difference longer than every period.
DueByPeriod(t) ==
  LET diff == age[t] - read
  IN  diff < 0 \/ diff >= period[t]

\* Mutated Expired: the sign of the difference is not looked at.
ExpiredUnsigned(t) ==
  /\ trigger[t]
  /\ delay[t] = 0 \/ wait[t] - read < 0 \/ wait[t] - read >= delay[t]

\* The delay of a pending trigger is over.  A trigger time later than the
\* reading is recognised by its sign and counts as not over.
Expired(t) ==
  /\ trigger[t]
  /\ \/ delay[t] = 0
     \/ LET diff == wait[t] - read
        IN  diff >= 0 /\ diff >= delay[t]

\* _realtimeSlack(), for a reading taken now.
RealtimeSlack ==
  IF Realtime = NoTask THEN Forever
  ELSE IF pause[Realtime] THEN Forever
  ELSE LET byTrigger == IF ~trigger[Realtime] THEN Forever
                        ELSE IF wait[Realtime] >= delay[Realtime] THEN 0
                        ELSE delay[Realtime] - wait[Realtime]
           byPeriod == IF period[Realtime] = 0 THEN Forever
                       ELSE IF age[Realtime] >= period[Realtime] THEN 0
                       ELSE period[Realtime] - age[Realtime]
       IN  Minimum(byTrigger, byPeriod)

\* Mutated HeldBack: no bound.
HeldBackForever(o) == TRUE

\* The consecutive refusals of o have not reached their bound yet.
HeldBack(o) ==
  IF MaxSkip[o] > 0
  THEN skipCount[o] + 1 < MaxSkip[o]
  ELSE skipCount[o] = 0 \/ skipAge[o] - read < period[Realtime]

\* What a run of o is judged by.
BlockTime(o) == IF o \in Task /\ declared[o] > 0 THEN declared[o] ELSE est[o]

\* _fitsInSlack(): "free", "fit" and "lapse" let the run start, "hold" is a
\* counted refusal and "refuse" one that is not counted.
Judged(o) ==
  LET block == BlockTime(o)
  IN  IF Realtime = NoTask THEN "free"
      ELSE IF slack = 0 THEN "refuse"
      ELSE IF slack > guard /\ block <= slack - guard THEN "fit"
      ELSE IF period[Realtime] = 0 THEN "refuse"
      ELSE IF block >= period[Realtime] THEN "lapse"
      ELSE IF o = Idle THEN "refuse"
      ELSE IF HeldBack(o) THEN "hold"
      ELSE "lapse"

Granted(o) == Judged(o) \in {"free", "fit", "lapse"}

\* Mutated NextCount: refusals are not counted.
CountKept(o) == skipCount[o]

NextCount(o) == IF MaxSkip[o] > 0 THEN skipCount[o] + 1 ELSE 1

\* What the judgement leaves in __skip_count and __skip_time.
CountJudged(o) ==
  LET first == Judged(o) = "hold" /\ MaxSkip[o] = 0 /\ skipCount[o] = 0
      cleared == \/ Judged(o) = "fit"
                 \/ Judged(o) = "lapse" /\ BlockTime(o) < period[Realtime]
  IN  /\ skipCount' = [skipCount EXCEPT ![o] =
                         IF cleared THEN 0
                         ELSE IF Judged(o) = "hold" THEN NextCount(o) ELSE @]
      /\ skipAge' = [skipAge EXCEPT ![o] =
                       IF cleared THEN 0 ELSE IF first THEN read ELSE @]

\* Starting the run of o under the judgement just made.
Admit(o) ==
  /\ cur' = o
  /\ verdict' = Judged(o)
  /\ allow' = BlockTime(o)

(***************************************************************************)
(* One pass of pifTaskManager_Loop()                                       *)
(***************************************************************************)

Init ==
  /\ client \in Clients
  /\ pc = "loop"
  /\ cur = NoTask
  /\ trig = FALSE
  /\ verdict = "none"
  /\ allow = 0
  /\ ran = 0
  /\ read = 0
  /\ slack = Forever
  /\ unseen = FALSE
  /\ it = 1
  /\ left = 0
  /\ tm = 1
  /\ age = [t \in Task |-> 0]
  /\ period = DefaultPeriod
  /\ pause = [t \in Task |-> Mode[t] = "external"]
  /\ trigger = [t \in Task |-> FALSE]
  /\ wait = [t \in Task |-> 0]
  /\ delay = [t \in Task |-> 0]
  /\ skipCount = [o \in Owner |-> 0]
  /\ skipAge = [o \in Owner |-> 0]
  /\ est = [o \in Owner |-> 0]
  /\ declared = [t \in Task |-> 0]
  /\ cutin = NoTask
  /\ guard = GuardMin
  /\ runEnd = 0
  /\ runSince = FALSE
  /\ idleAge = 0

\* The pass takes its reading, and the slack from it.
LoopRead ==
  /\ pc = "loop"
  /\ pc' = "timer"
  /\ read' = 0
  /\ slack' = RealtimeSlack
  /\ unseen' = FALSE
  /\ tm' = 1
  /\ trig' = FALSE
  /\ UNCHANGED <<client, cur, verdict, allow, ran, it, left, requests, skips, grid,
                 margin, est, declared, idleAge>>

\* A timer callback is let run.
TimerStart ==
  /\ pc = "timer"
  /\ tm <= Len(Timers)
  /\ Granted(Timers[tm])
  /\ Admit(Timers[tm])
  /\ CountJudged(Timers[tm])
  /\ ran' = 0
  /\ pc' = "timerRun"
  /\ UNCHANGED <<client, trig, read, slack, unseen, it, left, tm, requests, grid,
                 margin, est, declared, idleAge>>

\* A timer callback is held back in this pass.
TimerRefused ==
  /\ pc = "timer"
  /\ tm <= Len(Timers)
  /\ ~Granted(Timers[tm])
  /\ CountJudged(Timers[tm])
  /\ tm' = tm + 1
  /\ UNCHANGED <<client, pc, cur, trig, verdict, allow, ran, read, slack, unseen, it,
                 left, requests, grid, margin, est, declared, idleAge>>

\* pifTask_UpdateBlockTime(): the longest of a moving window of runs, so the
\* run just measured or a longer one the window still holds.  A run may also
\* have been left out by pifTask_IgnoreBlockTime().
Measured(o, length) ==
  est' \in {[est EXCEPT ![o] = e] : e \in length .. Maximum(length, est[o])}
             \cup (IF o \in Task THEN {est} ELSE {})

\* _markRunEnd()
MarkRunEnd ==
  /\ runEnd' = 0
  /\ runSince' = TRUE

\* A timer callback returns.  The reading after it replaces that of the pass,
\* and its length counts from the one before, which is the reading of the pass.
TimerEnd ==
  /\ pc = "timerRun"
  /\ Measured(cur, read)
  /\ MarkRunEnd
  /\ read' = 0
  /\ slack' = RealtimeSlack
  /\ unseen' = FALSE
  /\ tm' = tm + 1
  /\ pc' = "timer"
  /\ UNCHANGED <<client, cur, trig, verdict, allow, ran, it, left, requests, skips,
                 grid, guard, declared, idleAge>>

AtSelect == pc = "timer" /\ tm > Len(Timers)

\* A cut in is taken before anything else.
SelectCutin ==
  /\ AtSelect
  /\ cutin # NoTask
  /\ cur' = cutin
  /\ cutin' = NoTask
  /\ trig' = TRUE
  /\ verdict' = "cutin"
  /\ allow' = 0
  /\ pc' = "dispatch"
  /\ UNCHANGED <<client, ran, read, slack, unseen, it, left, tm, trigger, wait, delay,
                 skips, grid, margin, est, declared, idleAge>>

\* _processingRealTime() releases the realtime task by its trigger, paused or
\* not, or by its period.
RealtimeByPeriod ==
  /\ ~Expired(Realtime)
  /\ ~pause[Realtime]
  /\ period[Realtime] > 0
  /\ DueByPeriod(Realtime)

\* Taking a trigger that has expired.
TakeTrigger(t) ==
  /\ trigger' = [trigger EXCEPT ![t] = FALSE]
  /\ delay' = [delay EXCEPT ![t] = 0]
  /\ wait' = [wait EXCEPT ![t] = 0]

\* The delay of a trigger that is refused is spent, the trigger is not.
SpendDelay(t) ==
  /\ delay' = [delay EXCEPT ![t] = 0]
  /\ wait' = [wait EXCEPT ![t] = 0]
  /\ UNCHANGED trigger

SelectRealtime ==
  /\ AtSelect
  /\ cutin = NoTask
  /\ Realtime # NoTask
  /\ \/ Expired(Realtime) /\ TakeTrigger(Realtime) /\ trig' = TRUE
     \/ RealtimeByPeriod /\ UNCHANGED <<trigger, delay, wait, trig>>
  /\ cur' = Realtime
  /\ verdict' = "realtime"
  /\ allow' = 0
  /\ pc' = "dispatch"
  /\ UNCHANGED <<client, ran, read, slack, unseen, it, left, tm, cutin, skips, grid,
                 margin, est, declared, idleAge>>

StartRing ==
  /\ AtSelect
  /\ cutin = NoTask
  /\ Realtime # NoTask => ~(Expired(Realtime) \/ RealtimeByPeriod)
  /\ left' = Len(Ring)
  /\ pc' = "ring"
  /\ UNCHANGED <<client, cur, trig, verdict, allow, ran, read, slack, unseen, it, tm,
                 requests, skips, grid, margin, est, declared, idleAge>>

Here == Ring[it]

\* The end of a visit: the ring moves on.
NextInRing ==
  /\ it' = IF it = Len(Ring) THEN 1 ELSE it + 1
  /\ left' = left - 1

Visiting == pc = "ring" /\ left > 0

\* The task is selected and the visits of this pass are over.
SelectHere ==
  /\ Admit(Here)
  /\ pc' = "dispatch"

NotSelected == UNCHANGED <<pc, cur, verdict, allow>>

\* The period of the task asks for a run.
PeriodAsks(t) ==
  /\ ~pause[t]
  /\ Mode[t] = "period"
  /\ DueByPeriod(t)

\* A trigger that has expired and is granted selects the task.
VisitTriggered ==
  /\ Visiting
  /\ Here # Realtime
  /\ Expired(Here)
  /\ Granted(Here)
  /\ CountJudged(Here)
  /\ TakeTrigger(Here)
  /\ trig' = TRUE
  /\ SelectHere
  /\ NextInRing
  /\ UNCHANGED <<client, ran, read, slack, unseen, tm, cutin, grid, margin, est,
                 declared, idleAge>>

\* One that is refused stays pending without its delay, and the period is not
\* asked in this visit.
VisitTriggerRefused ==
  /\ Visiting
  /\ Here # Realtime
  /\ Expired(Here)
  /\ ~Granted(Here)
  /\ CountJudged(Here)
  /\ SpendDelay(Here)
  /\ NotSelected
  /\ NextInRing
  /\ UNCHANGED <<client, trig, ran, read, slack, unseen, tm, cutin, grid, margin, est,
                 declared, idleAge>>

\* The period is due: judged, and selected when the run fits.
VisitDue ==
  /\ Visiting
  /\ Here # Realtime
  /\ ~Expired(Here)
  /\ PeriodAsks(Here)
  /\ CountJudged(Here)
  /\ IF Granted(Here) THEN SelectHere ELSE NotSelected
  /\ NextInRing
  /\ UNCHANGED <<client, trig, ran, read, slack, unseen, tm, requests, grid, margin,
                 est, declared, idleAge>>

\* Nothing is asked of the task; the realtime task is never run from the ring.
VisitIdle ==
  /\ Visiting
  /\ Here = Realtime \/ (~Expired(Here) /\ ~PeriodAsks(Here))
  /\ NotSelected
  /\ NextInRing
  /\ UNCHANGED <<client, trig, ran, read, slack, unseen, tm, requests, skips, grid,
                 margin, est, declared, idleAge>>

(***************************************************************************)
(* A run: _processingTask() and the idle callback                          *)
(***************************************************************************)

\* The release is by the period, and a run let start before it was still going
\* when it fell due.
Overran ==
  /\ ~trig
  /\ period[Realtime] > 0
  /\ runSince
  /\ age[Realtime] - runEnd - period[Realtime] > 0

\* Mutated NextGuard: the margin shrinks past its lower bound.
NextGuardNoFloor(overran) ==
  IF overran THEN GuardMax ELSE IF guard >= GuardDown THEN guard - GuardDown ELSE 0

\* _updateTaskGuard()
NextGuard(overran) ==
  IF overran
  THEN IF guard + GuardUp >= GuardMax THEN GuardMax ELSE guard + GuardUp
  ELSE IF guard >= GuardMin + GuardDown THEN guard - GuardDown ELSE GuardMin

\* _advanceRealtimeGrid(): the next release counts from when this one was due,
\* unless it is late by a whole period or came from a trigger.
GridAge ==
  LET late == age[Realtime] - read - period[Realtime]
  IN  IF ~trig /\ period[Realtime] > 0 /\ 0 <= late /\ late < period[Realtime]
      THEN age[Realtime] - period[Realtime]
      ELSE read

Dispatch ==
  /\ pc = "dispatch"
  /\ IF cur = Realtime
     THEN /\ guard' = NextGuard(Overran)
          /\ runSince' = FALSE
          /\ runEnd' = 0
     ELSE UNCHANGED margin
  /\ age' = [age EXCEPT ![cur] = IF cur = Realtime THEN GridAge
                                 ELSE IF Mode[cur] = "period" THEN read ELSE @]
  /\ skipCount' = [skipCount EXCEPT ![cur] = 0]
  /\ skipAge' = [skipAge EXCEPT ![cur] = 0]
  /\ declared' = [declared EXCEPT ![cur] = 0]
  /\ ran' = 0
  /\ pc' = "run"
  /\ UNCHANGED <<client, cur, trig, verdict, allow, read, slack, unseen, it, left, tm,
                 requests, period, pause, est, idleAge>>

\* The loop of the task returns value.  A period holds for one release; an
\* external task is triggered again after it.
RunEnd ==
  /\ pc = "run"
  /\ Measured(cur, ran)
  /\ IF cur = Realtime THEN UNCHANGED <<runEnd, runSince>> ELSE MarkRunEnd
  /\ \E value \in Returns[cur] :
       IF Mode[cur] = "external"
       THEN /\ IF value > 0
               THEN /\ trigger' = [trigger EXCEPT ![cur] = TRUE]
                    /\ delay' = [delay EXCEPT ![cur] = value]
                    /\ wait' = [wait EXCEPT ![cur] = 0]
               ELSE UNCHANGED <<trigger, delay, wait>>
            /\ UNCHANGED period
       ELSE /\ period' = [period EXCEPT ![cur] =
                            IF value > 0 THEN value ELSE DefaultPeriod[cur]]
            /\ UNCHANGED <<trigger, delay, wait>>
  /\ pc' = "loop"
  /\ UNCHANGED <<client, cur, trig, verdict, allow, ran, read, slack, unseen, it, left,
                 tm, cutin, skips, age, pause, guard, declared, idleAge>>

\* No task was selected in the pass.
AtIdle == pc = "ring" /\ left = 0

IdleDue == client.idle /\ idleAge >= IdlePeriod

IdleStart ==
  /\ AtIdle
  /\ IdleDue
  /\ Granted(Idle)
  /\ Admit(Idle)
  /\ idleAge' = 0
  /\ ran' = 0
  /\ pc' = "idleRun"
  /\ UNCHANGED <<client, trig, read, slack, unseen, it, left, tm, requests, skips, grid,
                 margin, est, declared>>

\* The idle callback is not due or does not fit.
IdleSkipped ==
  /\ AtIdle
  /\ IdleDue => ~Granted(Idle)
  /\ pc' = "loop"
  /\ UNCHANGED <<client, cur, trig, verdict, allow, ran, read, slack, unseen, it, left,
                 tm, requests, skips, grid, margin, est, declared, idleAge>>

IdleEnd ==
  /\ pc = "idleRun"
  /\ Measured(Idle, ran)
  /\ MarkRunEnd
  /\ pc' = "loop"
  /\ UNCHANGED <<client, cur, trig, verdict, allow, ran, read, slack, unseen, it, left,
                 tm, requests, skips, grid, guard, declared, idleAge>>

(***************************************************************************)
(* What interrupts and the application do meanwhile                        *)
(***************************************************************************)

\* The realtime release may now come earlier than the slack says.
BroughtForward(t) == unseen' = (unseen \/ t = Realtime)

\* pifTask_SetTrigger(), from an interrupt or from a run: a trigger still
\* pending is replaced.
SetTrigger(t, d) ==
  /\ trigger' = [trigger EXCEPT ![t] = TRUE]
  /\ delay' = [delay EXCEPT ![t] = d]
  /\ wait' = [wait EXCEPT ![t] = 0]
  /\ BroughtForward(t)
  /\ UNCHANGED <<client, pc, cur, trig, verdict, allow, ran, read, slack, it, left, tm,
                 cutin, skips, grid, margin, est, declared, idleAge>>

CutinFree == cutin = NoTask

\* pifTask_SetCutinTrigger(): a second cut in becomes a trigger without delay.
\* The trigger time is set in both cases, also when a delay is pending.
SetCutinTrigger(t) ==
  /\ IF CutinFree
     THEN /\ cutin' = t
          /\ UNCHANGED <<trigger, delay>>
     ELSE /\ trigger' = [trigger EXCEPT ![t] = TRUE]
          /\ delay' = [delay EXCEPT ![t] = 0]
          /\ UNCHANGED cutin
  /\ wait' = [wait EXCEPT ![t] = 0]
  /\ BroughtForward(t)
  /\ UNCHANGED <<client, pc, cur, trig, verdict, allow, ran, read, slack, it, left, tm,
                 skips, grid, margin, est, declared, idleAge>>

\* pifTask_CancelTrigger(), not for interrupt context.
CancelTrigger(t) ==
  /\ pc \in Running
  /\ TakeTrigger(t)
  /\ cutin' = IF cutin = t THEN NoTask ELSE cutin
  /\ UNCHANGED <<client, pass, skips, grid, margin, est, declared, idleAge>>

Pause(t) ==
  /\ pc \in Running
  /\ pause' = [pause EXCEPT ![t] = TRUE]
  /\ UNCHANGED <<client, pass, requests, skips, age, period, margin, est, declared,
                 idleAge>>

Resume(t) ==
  /\ pc \in Running
  /\ pause' = [pause EXCEPT ![t] = FALSE]
  /\ BroughtForward(t)
  /\ UNCHANGED <<client, pc, cur, trig, verdict, allow, ran, read, slack, it, left, tm,
                 requests, skips, age, period, margin, est, declared, idleAge>>

\* pifTask_Restart(): the period counts from now, and is the default one.
Restart(t) ==
  /\ pc \in Running
  /\ pause' = [pause EXCEPT ![t] = FALSE]
  /\ IF Mode[t] = "external"
     THEN UNCHANGED <<age, period>>
     ELSE /\ age' = [age EXCEPT ![t] = 0]
          /\ period' = [period EXCEPT ![t] = DefaultPeriod[t]]
  /\ BroughtForward(t)
  /\ UNCHANGED <<client, pc, cur, trig, verdict, allow, ran, read, slack, it, left, tm,
                 requests, skips, margin, est, declared, idleAge>>

\* pifTask_SetNextBlockTime(), called from the run of the task itself.
SetNextBlockTime(t, b) ==
  /\ pc = "run"
  /\ cur = t
  /\ declared' = [declared EXCEPT ![t] = b]
  /\ UNCHANGED <<client, pass, requests, skips, grid, margin, est, idleAge>>

(***************************************************************************)
(* Time passes during a run, up to the longest one, and in the scheduler,  *)
(* up to Cost after its reading.                                           *)
(***************************************************************************)
Tick ==
  /\ IF pc \in Running THEN ran < MaxRun[cur] ELSE read < Cost
  /\ ran' = IF pc \in Running THEN ran + 1 ELSE ran
  /\ read' = Older(read)
  /\ age' = [t \in Task |-> IF Mode[t] = "external" THEN age[t] ELSE Older(age[t])]
  /\ wait' = [t \in Task |-> IF delay[t] = 0 THEN wait[t] ELSE Older(wait[t])]
  /\ skipAge' = [o \in Owner |-> IF skipCount[o] = 0 \/ MaxSkip[o] > 0 THEN skipAge[o]
                                 ELSE Older(skipAge[o])]
  /\ runEnd' = IF runSince THEN Older(runEnd) ELSE runEnd
  /\ idleAge' = IF client.idle /\ idleAge < IdlePeriod THEN idleAge + 1 ELSE idleAge
  /\ UNCHANGED <<client, pc, cur, trig, verdict, allow, slack, unseen, it, left, tm, trigger,
                 delay, cutin, skipCount, period, pause, guard, runSince, est, declared>>

MainStep ==
  \/ LoopRead \/ TimerStart \/ TimerRefused \/ TimerEnd
  \/ SelectCutin \/ SelectRealtime \/ StartRing
  \/ VisitTriggered \/ VisitTriggerRefused \/ VisitDue \/ VisitIdle
  \/ Dispatch \/ RunEnd \/ IdleStart \/ IdleSkipped \/ IdleEnd

Request ==
  \/ \E p \in client.triggers : SetTrigger(p[1], p[2])
  \/ \E p \in client.runTriggers : pc = "run" /\ cur = p[1] /\ SetTrigger(p[2], p[3])
  \/ \E t \in client.cutins : SetCutinTrigger(t)

Control ==
  \/ \E t \in client.controls : CancelTrigger(t) \/ Pause(t) \/ Resume(t) \/ Restart(t)
  \/ \E p \in client.declares : SetNextBlockTime(p[1], p[2])

Next == MainStep \/ Request \/ Control \/ Tick

Spec == Init /\ [][Next]_vars

\* The main loop never stops, every loop and callback returns, and time passes.
FairSpec == Spec /\ WF_vars(MainStep) /\ WF_vars(Tick)

(***************************************************************************)
(* Properties                                                              *)
(***************************************************************************)

Ages == 0 .. Cap

PassType ==
  /\ pc \in {"loop", "timer", "ring", "dispatch"} \cup Running
  /\ cur \in Owner \cup {NoTask}
  /\ pc \in {"dispatch", "run"} => cur \in Task
  /\ pc = "timerRun" => tm <= Len(Timers) /\ cur = Timers[tm]
  /\ pc = "idleRun" => cur = Idle
  /\ trig \in BOOLEAN
  /\ verdict \in {"none", "free", "fit", "hold", "refuse", "lapse", "cutin", "realtime"}
  /\ allow \in Nat
  /\ ran \in Nat
  /\ read \in Ages
  /\ slack \in Nat
  /\ unseen \in BOOLEAN
  /\ it \in 1 .. Len(Ring)
  /\ left \in 0 .. Len(Ring)
  /\ tm \in 1 .. Len(Timers) + 1

RequestsType ==
  /\ trigger \in [Task -> BOOLEAN]
  /\ wait \in [Task -> Ages]
  /\ delay \in [Task -> Nat]
  /\ cutin \in Task \cup {NoTask}

SkipsType ==
  /\ skipCount \in [Owner -> Nat]
  /\ skipAge \in [Owner -> Ages]

GridType ==
  /\ age \in [Task -> Ages]
  /\ period \in [Task -> Nat]
  /\ pause \in [Task -> BOOLEAN]

MarginType ==
  /\ guard \in GuardMin .. GuardMax
  /\ runEnd \in Ages
  /\ runSince \in BOOLEAN

EstimateType ==
  /\ est \in [Owner -> Nat]
  /\ declared \in [Task -> Nat]
  /\ idleAge \in Ages

TypeOK ==
  /\ client \in Clients
  /\ PassType
  /\ RequestsType
  /\ SkipsType
  /\ GridType
  /\ MarginType
  /\ EstimateType

\* The guarantee of the slack rule (_fitsInSlack, _realtimeSlack): a run that
\* was let start because it fits, and that takes no longer than it was judged
\* by, has left the realtime release alone: as long as it goes on, neither the
\* period nor a delayed trigger of the realtime task is past due, unless the
\* release was asked for after the slack was taken.
SlackProtectsRelease ==
  (pc \in Running /\ verdict = "fit" /\ ran <= allow /\ ~unseen /\ ~pause[Realtime]) =>
     /\ period[Realtime] > 0 => age[Realtime] <= period[Realtime]
     /\ trigger[Realtime] => wait[Realtime] <= delay[Realtime]

\* The main context visits the triggers here.
ReleaseStep == pc \in {"timer", "ring"} /\ (pc' # pc \/ left' # left)

\* A delayed trigger (pifTask_SetTrigger, the value an external task returns)
\* never gives up its delay before it is over, also when an interrupt set it
\* after the pass took its reading.
NotReleasedEarly ==
  [][\A t \in Task :
        (ReleaseStep /\ trigger[t] /\ delay[t] > 0 /\ delay'[t] = 0)
           => wait[t] >= delay[t]]_vars

\* A release asked for stays asked for until the task is selected for it or the
\* application withdraws it: neither the slack rule nor a visit drops it.
RequestsKept ==
  [][/\ \A t \in Task : trigger[t] /\ ~trigger'[t] =>
           \/ pc' = "dispatch" /\ cur' = t /\ trig'
           \/ pc \in Running /\ t \in client.controls
     /\ cutin # NoTask /\ cutin' # cutin =>
           \/ pc' = "dispatch" /\ cur' = cutin /\ trig'
           \/ pc \in Running /\ cutin \in client.controls]_vars

\* Every periodic task that is due runs, whatever its length and whatever
\* slack the realtime task leaves.
Due(t) == Mode[t] = "period" /\ ~pause[t] /\ age[t] >= period[t]
DueTaskRuns == \A t \in Task : Due(t) ~> (pc = "run" /\ cur = t) \/ pause[t]

\* A timer callback "is meant to run at the start of every loop": it may be held
\* back, but never for good.
TimersRun == \A o \in Timer : []<>(pc = "timerRun" /\ cur = o)
=============================================================================
