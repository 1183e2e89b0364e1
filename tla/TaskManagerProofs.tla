------------------------- MODULE TaskManagerProofs -------------------------
(***************************************************************************)
(* What TLAPS proves of the scheduler for every set of tasks, every period  *)
(* and every length of a run.                                               *)
(***************************************************************************)
EXTENDS TaskManager, TLAPS

(***************************************************************************)
(* The constants and the helpers                                           *)
(***************************************************************************)

\* The ring holds tasks, the timer list holds timer callbacks.
LEMMA RingType ==
  /\ \A i \in 1 .. Len(Ring) : Ring[i] \in Task
  /\ DOMAIN Ring = 1 .. Len(Ring)
  /\ \A i \in 1 .. Len(Timers) : Timers[i] \in Timer
  /\ Len(Ring) \in Nat /\ Len(Ring) > 0 /\ Len(Timers) \in Nat
BY RingAssumption DEF Task, Timer

\* The lengths of the two lists.
LEMMA LenType == Len(Ring) \in Nat /\ Len(Ring) > 0 /\ Len(Timers) \in Nat
BY RingAssumption

\* Tasks, timer callbacks and the idle callback are owners, NoTask is not.
LEMMA OwnerType ==
  /\ Task \subseteq Owner /\ Timer \subseteq Owner /\ Idle \in Owner
  /\ NoTask \notin Owner
  /\ Realtime \in Task \cup {NoTask}
BY RingAssumption DEF Owner

\* The lengths of time and the counts among the constants.
LEMMA TimeType ==
  /\ DefaultPeriod \in [Task -> Nat]
  /\ MaxSkip \in [Owner -> Nat]
  /\ Cost \in Nat /\ Cap \in Nat /\ Forever \in Nat
BY TimeAssumption

\* The bounds of the safety margin.
LEMMA GuardType ==
  /\ GuardMin \in Nat /\ GuardMax \in Nat /\ GuardUp \in Nat /\ GuardDown \in Nat
  /\ GuardMin <= GuardMax
BY GuardAssumption

\* What the application passes to the scheduler.
LEMMA RequestType ==
  TypeOK => /\ \A p \in client.triggers : p[1] \in Task /\ p[2] \in Nat
            /\ \A p \in client.runTriggers : p[2] \in Task /\ p[3] \in Nat
            /\ \A p \in client.declares : p[1] \in Task /\ p[2] \in Nat
            /\ client.cutins \subseteq Task /\ client.controls \subseteq Task
BY ClientAssumption DEF TypeOK

\* What the loops return.
LEMMA ReturnsType == \A t \in Task : Returns[t] \subseteq Nat
BY TimeAssumption

\* An age stays an age, and grows by at most one.
LEMMA OlderType == \A x \in Ages : Older(x) \in Ages /\ x <= Older(x) /\ Older(x) <= x + 1
BY TimeType DEF Ages, Older

\* The slack is a length of time.
LEMMA SlackType == TypeOK => RealtimeSlack \in Nat
<1> SUFFICES ASSUME TypeOK PROVE RealtimeSlack \in Nat
  OBVIOUS
<1>1. CASE Realtime = NoTask
  BY <1>1, TimeType DEF RealtimeSlack
<1>2. CASE Realtime # NoTask
  <2> Realtime \in Task
    BY <1>2, OwnerType
  <2> /\ wait[Realtime] \in Nat /\ delay[Realtime] \in Nat
      /\ age[Realtime] \in Nat /\ period[Realtime] \in Nat
    BY DEF TypeOK, RequestsType, GridType, Ages
  <2> QED
    BY <1>2, TimeType DEF RealtimeSlack, Minimum
<1> QED
  BY <1>1, <1>2

\* pifTask_UpdateBlockTime() leaves a length of time for every owner.
LEMMA MeasuredType ==
  ASSUME est \in [Owner -> Nat], NEW o \in Owner, NEW length \in Nat, Measured(o, length)
  PROVE  est' \in [Owner -> Nat]
<1>1. \A e \in length .. Maximum(length, est[o]) : [est EXCEPT ![o] = e] \in [Owner -> Nat]
  BY DEF Maximum
<1>2. CASE est' = est
  BY <1>2
<1>3. CASE est' \in {[est EXCEPT ![o] = e] : e \in length .. Maximum(length, est[o])}
  BY <1>1, <1>3
<1> QED
  BY <1>2, <1>3, Zenon DEF Measured

Verdicts == {"free", "fit", "hold", "refuse", "lapse"}

\* The judgement is one of the five, and its counters keep their type.
LEMMA JudgedType ==
  ASSUME TypeOK, NEW o \in Owner
  PROVE  /\ Judged(o) \in Verdicts
         /\ BlockTime(o) \in Nat
         /\ CountJudged(o) => SkipsType'
<1>1. Judged(o) \in Verdicts
  BY DEF Judged, Verdicts
<1>2. BlockTime(o) \in Nat
  BY DEF BlockTime, TypeOK, EstimateType
<1>3. ASSUME CountJudged(o)
      PROVE  SkipsType'
  <2>1. skipCount \in [Owner -> Nat] /\ skipAge \in [Owner -> Ages] /\ read \in Ages
    BY DEF TypeOK, SkipsType, PassType
  <2>2. 0 \in Ages
    BY TimeType DEF Ages
  <2>3. skipCount' \in [Owner -> Nat]
    BY <1>3, <2>1, TimeType DEF CountJudged, NextCount
  <2>4. skipAge' \in [Owner -> Ages]
    BY <1>3, <2>1, <2>2 DEF CountJudged
  <2> QED
    BY <2>3, <2>4 DEF SkipsType
<1> QED
  BY <1>1, <1>2, <1>3

(***************************************************************************)
(* Type correctness                                                        *)
(***************************************************************************)

LEMMA InitType == Init => TypeOK
<1> SUFFICES ASSUME Init PROVE TypeOK
  OBVIOUS
<1>1. 0 \in Ages /\ 0 \in Nat
  BY TimeType DEF Ages
<1>2. PassType
  <2>1. 1 \in 1 .. Len(Ring) /\ 0 \in 0 .. Len(Ring) /\ 1 \in 1 .. Len(Timers) + 1
    BY LenType
  <2> QED
    BY <1>1, <2>1, TimeType DEF Init, PassType, Running
<1>3. RequestsType
  BY <1>1 DEF Init, RequestsType
<1>4. SkipsType
  BY <1>1 DEF Init, SkipsType
<1>5. GridType
  BY <1>1, TimeType DEF Init, GridType
<1>6. MarginType
  <2>1. GuardMin \in GuardMin .. GuardMax
    BY GuardType
  <2> QED
    BY <1>1, <2>1 DEF Init, MarginType
<1>7. EstimateType
  BY <1>1 DEF Init, EstimateType
<1> QED
  BY <1>2, <1>3, <1>4, <1>5, <1>6, <1>7 DEF Init, TypeOK

\* The client stays the same.
LEMMA ClientKept == Next => UNCHANGED client
BY DEF Next, MainStep, Request, Control, Tick, LoopRead, TimerStart, TimerRefused, TimerEnd,
       SelectCutin, SelectRealtime, StartRing, VisitTriggered, VisitTriggerRefused, VisitDue,
       VisitIdle, Dispatch, RunEnd, IdleStart, IdleSkipped, IdleEnd, SetTrigger,
       SetCutinTrigger, CancelTrigger, Pause, Resume, Restart, SetNextBlockTime

\* What a step leaves unchanged keeps its type.
LEMMA Frame ==
  ASSUME TypeOK
  PROVE  /\ UNCHANGED pass => PassType'
         /\ UNCHANGED requests => RequestsType'
         /\ UNCHANGED skips => SkipsType'
         /\ UNCHANGED grid => GridType'
         /\ UNCHANGED margin => MarginType'
         /\ UNCHANGED <<est, declared, idleAge>> => EstimateType'
<1>1. UNCHANGED pass => PassType'
  BY DEF TypeOK, PassType, pass, Running
<1>2. UNCHANGED requests => RequestsType'
  BY DEF TypeOK, RequestsType, requests
<1>3. UNCHANGED skips => SkipsType'
  BY DEF TypeOK, SkipsType, skips
<1>4. UNCHANGED grid => GridType'
  BY DEF TypeOK, GridType, grid
<1>5. UNCHANGED margin => MarginType'
  BY DEF TypeOK, MarginType, margin
<1>6. UNCHANGED <<est, declared, idleAge>> => EstimateType'
  BY DEF TypeOK, EstimateType
<1> QED
  BY <1>1, <1>2, <1>3, <1>4, <1>5, <1>6

\* Every step of the main context keeps the types.
LEMMA MainType == TypeOK /\ MainStep => TypeOK'
<1> SUFFICES ASSUME TypeOK, MainStep PROVE TypeOK'
  OBVIOUS
<1> client' \in Clients
  BY ClientKept DEF TypeOK, Next
<1>0. /\ 0 \in Ages /\ 0 \in Nat /\ RealtimeSlack \in Nat
      /\ PassType /\ RequestsType /\ SkipsType /\ GridType /\ MarginType /\ EstimateType
  BY SlackType, TimeType DEF Ages, TypeOK
<1>1. CASE LoopRead
  <2>1. 1 \in 1 .. Len(Timers) + 1
    BY LenType
  <2>2. PassType'
    BY <1>0, <1>1, <2>1 DEF PassType, LoopRead, Running
  <2> QED
    BY <1>1, <2>2, Frame DEF LoopRead, TypeOK
<1>2. CASE TimerStart
  <2>1. Timers[tm] \in Timer /\ Timers[tm] \in Owner
    BY <1>0, <1>2, RingType, OwnerType DEF PassType, TimerStart
  <2>2. SkipsType' /\ Judged(Timers[tm]) \in Verdicts /\ BlockTime(Timers[tm]) \in Nat
    BY <1>2, <2>1, JudgedType DEF TimerStart
  <2>3. PassType'
    BY <1>0, <1>2, <2>1, <2>2 DEF PassType, TimerStart, Admit, Running, Verdicts
  <2> QED
    BY <1>2, <2>2, <2>3, Frame DEF TimerStart, TypeOK
<1>3. CASE TimerRefused
  <2>1. Timers[tm] \in Owner
    BY <1>0, <1>3, RingType, OwnerType DEF PassType, TimerRefused
  <2>2. SkipsType'
    BY <1>3, <2>1, JudgedType DEF TimerRefused
  <2>3. PassType'
    BY <1>0, <1>3, LenType DEF PassType, TimerRefused, Running
  <2> QED
    BY <1>3, <2>2, <2>3, Frame DEF TimerRefused, TypeOK
<1>4. CASE TimerEnd
  <2>1. cur \in Owner /\ read \in Nat /\ tm <= Len(Timers)
    BY <1>0, <1>4, RingType, OwnerType DEF PassType, TimerEnd, Ages
  <2>2. EstimateType'
    BY <1>0, <1>4, <2>1, MeasuredType DEF TimerEnd, EstimateType
  <2>3. PassType'
    <3>1. tm' \in 1 .. Len(Timers) + 1
      BY <1>0, <1>4, <2>1, LenType DEF PassType, TimerEnd
    <3> QED
      BY <1>0, <1>4, <3>1 DEF PassType, TimerEnd, Running
  <2>4. MarginType'
    BY <1>0, <1>4 DEF MarginType, TimerEnd, MarkRunEnd
  <2> QED
    BY <1>4, <2>2, <2>3, <2>4, Frame DEF TimerEnd, TypeOK
<1>5. CASE SelectCutin
  <2>1. PassType'
    BY <1>0, <1>5, OwnerType DEF PassType, RequestsType, SelectCutin, AtSelect, Running
  <2>2. RequestsType'
    BY <1>0, <1>5 DEF RequestsType, SelectCutin
  <2> QED
    BY <1>5, <2>1, <2>2, Frame DEF SelectCutin, TypeOK
<1>6. CASE SelectRealtime
  <2>1. PassType'
    BY <1>0, <1>6, OwnerType DEF PassType, SelectRealtime, AtSelect, Running
  <2>2. RequestsType'
    BY <1>0, <1>6 DEF RequestsType, SelectRealtime, TakeTrigger
  <2> QED
    BY <1>6, <2>1, <2>2, Frame DEF SelectRealtime, TypeOK
<1>7. CASE StartRing
  <2>1. PassType'
    BY <1>0, <1>7, RingType DEF PassType, StartRing, AtSelect, Running
  <2> QED
    BY <1>7, <2>1, Frame DEF StartRing, TypeOK
<1>8. CASE VisitTriggered \/ VisitTriggerRefused \/ VisitDue \/ VisitIdle
  <2>1. Here \in Task /\ Here \in Owner
    BY <1>0, <1>8, RingType, OwnerType
    DEF PassType, Here, VisitTriggered, VisitTriggerRefused, VisitDue, VisitIdle, Visiting
  <2>2. it' \in 1 .. Len(Ring) /\ left' \in 0 .. Len(Ring)
    BY <1>0, <1>8, LenType
    DEF PassType, VisitTriggered, VisitTriggerRefused, VisitDue, VisitIdle, Visiting, NextInRing
  <2>3. Judged(Here) \in Verdicts /\ BlockTime(Here) \in Nat /\ (CountJudged(Here) => SkipsType')
    BY <2>1, JudgedType
  <2>4. CASE VisitTriggered
    <3>1. PassType'
      BY <1>0, <2>1, <2>2, <2>3, <2>4
      DEF PassType, VisitTriggered, Visiting, SelectHere, Admit, Running, Verdicts
    <3>2. RequestsType'
      BY <1>0, <2>4 DEF RequestsType, VisitTriggered, TakeTrigger
    <3> QED
      BY <2>3, <2>4, <3>1, <3>2, Frame DEF VisitTriggered, TypeOK
  <2>5. CASE VisitTriggerRefused
    <3>1. PassType'
      BY <1>0, <2>2, <2>5 DEF PassType, VisitTriggerRefused, Visiting, NotSelected, Running
    <3>2. RequestsType'
      BY <1>0, <2>5 DEF RequestsType, VisitTriggerRefused, SpendDelay
    <3> QED
      BY <2>3, <2>5, <3>1, <3>2, Frame DEF VisitTriggerRefused, TypeOK
  <2>6. CASE VisitDue
    <3>1. PassType'
      <4>1. CASE Granted(Here)
        BY <1>0, <2>1, <2>2, <2>3, <2>6, <4>1
        DEF PassType, VisitDue, Visiting, SelectHere, Admit, Running, Verdicts
      <4>2. CASE ~Granted(Here)
        BY <1>0, <2>2, <2>6, <4>2 DEF PassType, VisitDue, Visiting, NotSelected, Running
      <4> QED
        BY <4>1, <4>2
    <3> QED
      BY <2>3, <2>6, <3>1, Frame DEF VisitDue, TypeOK
  <2>7. CASE VisitIdle
    <3>1. PassType'
      BY <1>0, <2>2, <2>7 DEF PassType, VisitIdle, Visiting, NotSelected, Running
    <3> QED
      BY <2>7, <3>1, Frame DEF VisitIdle, TypeOK
  <2> QED
    BY <1>8, <2>4, <2>5, <2>6, <2>7
<1>9. CASE Dispatch
  <2>1. cur \in Task /\ cur \in Owner
    BY <1>0, <1>9, OwnerType DEF PassType, Dispatch
  <2>2. MarginType'
    <3>1. \A o \in BOOLEAN : NextGuard(o) \in GuardMin .. GuardMax
      BY <1>0, GuardType DEF MarginType, NextGuard
    <3>2. Overran \in BOOLEAN
      BY DEF Overran
    <3> QED
      BY <1>0, <1>9, <3>1, <3>2 DEF MarginType, Dispatch, margin
  <2>3. cur = Realtime => GridAge \in Ages
    <3> SUFFICES ASSUME cur = Realtime PROVE GridAge \in Ages
      OBVIOUS
    <3>1. age[Realtime] \in Ages /\ period[Realtime] \in Nat /\ read \in Ages
      BY <1>0, <2>1 DEF GridType, PassType
    <3> QED
      BY <3>1, TimeType DEF GridAge, Ages
  <2>4. GridType'
    BY <1>0, <1>9, <2>1, <2>3 DEF GridType, PassType, Dispatch
  <2>5. SkipsType'
    BY <1>0, <1>9 DEF SkipsType, Dispatch
  <2>6. EstimateType'
    BY <1>0, <1>9 DEF EstimateType, Dispatch
  <2>7. PassType'
    BY <1>0, <1>9, <2>1 DEF PassType, Dispatch, Running
  <2> QED
    BY <1>9, <2>2, <2>4, <2>5, <2>6, <2>7, Frame DEF Dispatch, TypeOK
<1>10. CASE RunEnd
  <2>1. cur \in Task /\ cur \in Owner /\ Returns[cur] \subseteq Nat /\ ran \in Nat
    BY <1>0, <1>10, OwnerType, ReturnsType DEF PassType, RunEnd
  <2>2. EstimateType'
    BY <1>0, <1>10, <2>1, MeasuredType DEF EstimateType, RunEnd
  <2>3. PICK value \in Returns[cur] :
          IF Mode[cur] = "external"
          THEN /\ IF value > 0
                  THEN /\ trigger' = [trigger EXCEPT ![cur] = TRUE]
                       /\ delay' = [delay EXCEPT ![cur] = value]
                       /\ wait' = [wait EXCEPT ![cur] = 0]
                  ELSE UNCHANGED <<trigger, delay, wait>>
               /\ UNCHANGED period
          ELSE /\ period' = [period EXCEPT ![cur] =
                               IF value > 0 THEN value ELSE DefaultPeriod[cur]]
               /\ UNCHANGED <<trigger, delay, wait>>
    BY <1>10 DEF RunEnd
  <2>4. RequestsType'
    BY <1>0, <1>10, <2>1, <2>3 DEF RequestsType, RunEnd
  <2>5. GridType'
    BY <1>0, <1>10, <2>1, <2>3, TimeType DEF GridType, RunEnd
  <2>6. MarginType'
    BY <1>0, <1>10 DEF MarginType, RunEnd, MarkRunEnd
  <2>7. PassType'
    BY <1>0, <1>10 DEF PassType, RunEnd, Running
  <2> QED
    BY <1>10, <2>2, <2>4, <2>5, <2>6, <2>7, Frame DEF RunEnd, TypeOK
<1>11. CASE IdleStart
  <2>1. Judged(Idle) \in Verdicts /\ BlockTime(Idle) \in Nat
    BY JudgedType, OwnerType
  <2>2. PassType'
    BY <1>0, <1>11, <2>1, OwnerType DEF PassType, IdleStart, AtIdle, Admit, Running, Verdicts
  <2>3. EstimateType'
    BY <1>0, <1>11 DEF EstimateType, IdleStart
  <2> QED
    BY <1>11, <2>2, <2>3, Frame DEF IdleStart, TypeOK
<1>12. CASE IdleSkipped
  <2>1. PassType'
    BY <1>0, <1>12 DEF PassType, IdleSkipped, AtIdle, Running
  <2> QED
    BY <1>12, <2>1, Frame DEF IdleSkipped, TypeOK
<1>13. CASE IdleEnd
  <2>1. EstimateType'
    BY <1>0, <1>13, MeasuredType, OwnerType DEF EstimateType, PassType, IdleEnd
  <2>2. PassType'
    BY <1>0, <1>13 DEF PassType, IdleEnd, Running
  <2>3. MarginType'
    BY <1>0, <1>13 DEF MarginType, IdleEnd, MarkRunEnd
  <2> QED
    BY <1>13, <2>1, <2>2, <2>3, Frame DEF IdleEnd, TypeOK
<1> QED
  BY <1>1, <1>2, <1>3, <1>4, <1>5, <1>6, <1>7, <1>8, <1>9, <1>10, <1>11, <1>12, <1>13
  DEF MainStep

\* What interrupts and the application ask for keeps the types.
LEMMA AskType == TypeOK /\ (Request \/ Control) => TypeOK'
<1> SUFFICES ASSUME TypeOK, Request \/ Control PROVE TypeOK'
  OBVIOUS
<1> client' \in Clients
  BY ClientKept DEF TypeOK, Next
<1>0. /\ 0 \in Ages /\ 0 \in Nat
      /\ PassType /\ RequestsType /\ SkipsType /\ GridType /\ MarginType /\ EstimateType
  BY TimeType DEF Ages, TypeOK
<1>1. ASSUME NEW t \in Task, BroughtForward(t),
             UNCHANGED <<pc, cur, trig, verdict, allow, ran, read, slack, it, left, tm>>
      PROVE  PassType'
  BY <1>0, <1>1 DEF PassType, BroughtForward, Running
<1>2. ASSUME NEW t \in Task, NEW d \in Nat, SetTrigger(t, d)
      PROVE  TypeOK'
  <2>1. RequestsType'
    BY <1>0, <1>2 DEF RequestsType, SetTrigger
  <2> QED
    BY <1>1, <1>2, <2>1, Frame DEF SetTrigger, TypeOK
<1>3. ASSUME NEW t \in Task, SetCutinTrigger(t)
      PROVE  TypeOK'
  <2>1. RequestsType'
    BY <1>0, <1>3 DEF RequestsType, SetCutinTrigger
  <2> QED
    BY <1>1, <1>3, <2>1, Frame DEF SetCutinTrigger, TypeOK
<1>4. ASSUME NEW t \in Task, CancelTrigger(t)
      PROVE  TypeOK'
  <2>1. RequestsType'
    BY <1>0, <1>4 DEF RequestsType, CancelTrigger, TakeTrigger
  <2> QED
    BY <1>4, <2>1, Frame DEF CancelTrigger, TypeOK
<1>5. ASSUME NEW t \in Task, Pause(t)
      PROVE  TypeOK'
  <2>1. GridType'
    BY <1>0, <1>5 DEF GridType, Pause
  <2> QED
    BY <1>5, <2>1, Frame DEF Pause, TypeOK
<1>6. ASSUME NEW t \in Task, Resume(t)
      PROVE  TypeOK'
  <2>1. GridType'
    BY <1>0, <1>6 DEF GridType, Resume
  <2> QED
    BY <1>1, <1>6, <2>1, Frame DEF Resume, TypeOK
<1>7. ASSUME NEW t \in Task, Restart(t)
      PROVE  TypeOK'
  <2>1. GridType'
    BY <1>0, <1>7, TimeType DEF GridType, Restart
  <2> QED
    BY <1>1, <1>7, <2>1, Frame DEF Restart, TypeOK
<1>8. ASSUME NEW t \in Task, NEW b \in Nat, SetNextBlockTime(t, b)
      PROVE  TypeOK'
  <2>1. EstimateType'
    BY <1>0, <1>8 DEF EstimateType, SetNextBlockTime
  <2> QED
    BY <1>8, <2>1, Frame DEF SetNextBlockTime, TypeOK
<1>9. CASE Request
  BY <1>2, <1>3, <1>9, RequestType DEF Request
<1>10. CASE Control
  BY <1>4, <1>5, <1>6, <1>7, <1>8, <1>10, RequestType DEF Control
<1> QED
  BY <1>9, <1>10

\* The passing of time keeps the types.
LEMMA TickType == TypeOK /\ Tick => TypeOK'
<1> SUFFICES ASSUME TypeOK, Tick PROVE TypeOK'
  OBVIOUS
<1> client' \in Clients
  BY ClientKept DEF TypeOK, Next
<1>0. /\ PassType /\ RequestsType /\ SkipsType /\ GridType /\ MarginType /\ EstimateType
      /\ ran + 1 \in Nat /\ Older(read) \in Ages
  BY OlderType DEF TypeOK, PassType
<1>1. PassType'
  BY <1>0 DEF PassType, Tick, Running
<1>2. RequestsType'
  BY <1>0, OlderType DEF RequestsType, Tick
<1>3. SkipsType'
  BY <1>0, OlderType DEF SkipsType, Tick
<1>4. GridType'
  BY <1>0, OlderType DEF GridType, Tick
<1>5. MarginType'
  BY <1>0, OlderType DEF MarginType, Tick
<1>6. EstimateType'
  <2>1. IdlePeriod \in Nat /\ IdlePeriod <= Cap
    BY TimeAssumption, CapAssumption
  <2> QED
    BY <1>0, <2>1, TimeType DEF EstimateType, Ages, Tick
<1> QED
  BY <1>1, <1>2, <1>3, <1>4, <1>5, <1>6 DEF TypeOK

\* The state of the scheduler keeps its types: the ring position and the timer
\* position stay in their lists, and the margin between its bounds.
THEOREM TypeCorrect == Spec => []TypeOK
<1>1. TypeOK /\ [Next]_vars => TypeOK'
  <2> SUFFICES ASSUME TypeOK, [Next]_vars PROVE TypeOK'
    OBVIOUS
  <2>1. CASE UNCHANGED vars
    BY <2>1, Frame DEF vars, TypeOK
  <2> QED
    BY <2>1, MainType, AskType, TickType DEF Next
<1> QED
  BY <1>1, InitType, PTL DEF Spec

(***************************************************************************)
(* The slack rule protects the realtime release                            *)
(*                                                                         *)
(* SlackProtectsRelease only speaks of a run that is going on.  What makes  *)
(* it inductive is how the slack of the pass, the judgement and the run     *)
(* hand the time to the release on to each other.                           *)
(***************************************************************************)

\* Seen gap after a reading of age since, the release is still to come.
ReleaseAfter(gap, since) ==
  /\ period[Realtime] > 0 => age[Realtime] + gap <= period[Realtime] + since
  /\ trigger[Realtime] => wait[Realtime] + gap <= delay[Realtime] + since

\* The release the slack rule is answerable for.
Watched == Realtime # NoTask /\ ~unseen /\ ~pause[Realtime]

\* The scheduler gets from its reading to the dispatch within Cost.
Prompt == pc \in {"timer", "ring", "dispatch"} => read <= Cost

\* The realtime task is never started by a judgement.
FitForOthers ==
  verdict = "fit" => Realtime # NoTask /\ (pc \in {"dispatch", "run"} => cur # Realtime)

\* The release is not due before the slack of the pass is used up.
SlackCovers ==
  (pc \in {"timer", "ring"} /\ Watched /\ slack > 0) => ReleaseAfter(slack, read)

\* The run selected fits before the release, with the safety margin.
JudgedCovers ==
  (pc = "dispatch" /\ verdict = "fit" /\ Watched) => ReleaseAfter(allow + guard, read)

\* What is left of the block time of the run going on ends before the release.
RunCovers ==
  (pc \in Running /\ verdict = "fit" /\ Watched) => ReleaseAfter(allow, ran)

SlackInv ==
  /\ TypeOK
  /\ Prompt
  /\ FitForOthers
  /\ SlackCovers
  /\ JudgedCovers
  /\ RunCovers

\* The readings and times of the realtime task are numbers.
LEMMA Numbers ==
  ASSUME TypeOK
  PROVE  /\ Realtime # NoTask => /\ Realtime \in Task
                                 /\ age[Realtime] \in Nat /\ period[Realtime] \in Nat
                                 /\ wait[Realtime] \in Nat /\ delay[Realtime] \in Nat
         /\ read \in Nat /\ ran \in Nat /\ allow \in Nat /\ slack \in Nat
         /\ guard \in Nat /\ GuardMin <= guard
BY OwnerType, GuardType DEF TypeOK, PassType, RequestsType, GridType, MarginType, Ages

\* Cost is below Cap, so the age of a reading has not stopped growing.
LEMMA CostBelowCap == Cost < Cap
<1>1. Ring[1] \in Task /\ DefaultPeriod[Ring[1]] \in Nat
  BY RingType, TimeType
<1>2. 2 * DefaultPeriod[Ring[1]] + Cost < Cap
  BY <1>1, CapAssumption
<1> QED
  BY <1>1, <1>2, TimeType

\* _realtimeSlack() measures up to the release.
LEMMA SlackMeasures ==
  ASSUME TypeOK, Realtime # NoTask, ~pause[Realtime], RealtimeSlack > 0
  PROVE  ReleaseAfter(RealtimeSlack, 0)
BY Numbers, TimeType DEF ReleaseAfter, RealtimeSlack, Minimum

\* A run that fits has room before the release.
LEMMA FitHasRoom ==
  ASSUME TypeOK, NEW o \in Owner, Judged(o) = "fit"
  PROVE  /\ Realtime # NoTask /\ slack > 0
         /\ BlockTime(o) \in Nat /\ BlockTime(o) + guard <= slack
<1>1. Realtime # NoTask /\ slack # 0 /\ BlockTime(o) <= slack - guard
  BY DEF Judged
<1> QED
  BY <1>1, Numbers, JudgedType

\* A shorter gap is left when a longer one is.
LEMMA LessGap ==
  ASSUME TypeOK, Realtime # NoTask, NEW x \in Nat, NEW y \in Nat, NEW s \in Nat, NEW z \in Nat,
         ReleaseAfter(x, s), y + s <= x + z
  PROVE  ReleaseAfter(y, z)
BY Numbers DEF ReleaseAfter

\* The steps of a pass before a run is selected: the slack goes on covering.
PassStep ==
  \/ LoopRead \/ TimerRefused \/ TimerEnd \/ StartRing
  \/ VisitTriggerRefused \/ VisitIdle
  \/ (VisitDue /\ ~Granted(Here))

LEMMA PassKeepsSlack == SlackInv /\ TypeOK' /\ PassStep => SlackInv'
<1> SUFFICES ASSUME SlackInv, TypeOK', PassStep PROVE SlackInv'
  OBVIOUS
<1>0. TypeOK /\ Prompt /\ FitForOthers /\ SlackCovers
  BY DEF SlackInv
<1>1. CASE LoopRead \/ TimerEnd
  <2>1. /\ pc' = "timer" /\ read' = 0 /\ slack' = RealtimeSlack /\ verdict' = verdict
        /\ UNCHANGED <<requests, grid>>
    BY <1>1 DEF LoopRead, TimerEnd
  <2>2. Prompt' /\ FitForOthers'
    BY <1>0, <2>1, TimeType DEF Prompt, FitForOthers
  <2>3. SlackCovers'
    BY <1>0, <2>1, SlackMeasures DEF SlackCovers, Watched, ReleaseAfter, requests, grid
  <2>4. JudgedCovers' /\ RunCovers'
    BY <2>1 DEF JudgedCovers, RunCovers, Running
  <2> QED
    BY <2>2, <2>3, <2>4 DEF SlackInv
<1>2. CASE ~(LoopRead \/ TimerEnd)
  <2>1. /\ pc \in {"timer", "ring"} /\ pc' \in {"timer", "ring"}
        /\ verdict' = verdict /\ read' = read /\ slack' = slack /\ unseen' = unseen
        /\ UNCHANGED <<trigger, grid>>
    BY <1>2 DEF PassStep, TimerRefused, StartRing, VisitTriggerRefused, VisitIdle, VisitDue,
                AtSelect, Visiting, NotSelected, SpendDelay, requests
  <2>2. Realtime # NoTask =>
          wait'[Realtime] = wait[Realtime] /\ delay'[Realtime] = delay[Realtime]
    <3>1. CASE VisitTriggerRefused
      BY <1>0, <3>1, OwnerType DEF TypeOK, RequestsType, VisitTriggerRefused, SpendDelay
    <3>2. CASE ~VisitTriggerRefused
      BY <1>2, <3>2 DEF PassStep, TimerRefused, StartRing, VisitIdle, VisitDue, requests
    <3> QED
      BY <3>1, <3>2
  <2>3. Prompt' /\ FitForOthers'
    BY <1>0, <2>1 DEF Prompt, FitForOthers
  <2>4. SlackCovers'
    BY <1>0, <2>1, <2>2 DEF SlackCovers, Watched, ReleaseAfter, grid
  <2>5. JudgedCovers' /\ RunCovers'
    BY <2>1 DEF JudgedCovers, RunCovers, Running
  <2> QED
    BY <2>3, <2>4, <2>5 DEF SlackInv
<1> QED
  BY <1>1, <1>2

\* A callback is let start by the judgement, right away.
CallbackStart == TimerStart \/ IdleStart

LEMMA CallbackIsCovered ==
  Cost <= GuardMin /\ SlackInv /\ TypeOK' /\ CallbackStart => SlackInv'
<1> SUFFICES ASSUME Cost <= GuardMin, SlackInv, TypeOK', CallbackStart PROVE SlackInv'
  OBVIOUS
<1>0. TypeOK /\ Prompt /\ FitForOthers /\ SlackCovers
  BY DEF SlackInv
<1>1. PICK o \in Owner :
        /\ verdict' = Judged(o) /\ allow' = BlockTime(o) /\ ran' = 0
        /\ pc \in {"timer", "ring"} /\ pc' \in {"timerRun", "idleRun"}
        /\ UNCHANGED <<unseen, read, slack, guard, requests, grid>>
  <2>1. CASE TimerStart
    <3>1. Timers[tm] \in Owner
      BY <1>0, <2>1, RingType, OwnerType DEF TypeOK, PassType, TimerStart
    <3> QED
      BY <2>1, <3>1 DEF TimerStart, Admit, margin
  <2>2. CASE IdleStart
    BY <2>2, OwnerType DEF IdleStart, AtIdle, Admit, margin
  <2> QED
    BY <2>1, <2>2 DEF CallbackStart
<1>2. FitForOthers'
  BY <1>0, <1>1, FitHasRoom DEF FitForOthers
<1>3. Prompt' /\ SlackCovers' /\ JudgedCovers'
  BY <1>1 DEF Prompt, SlackCovers, JudgedCovers
<1>4. RunCovers'
  <2> SUFFICES ASSUME Judged(o) = "fit", Watched PROVE ReleaseAfter(BlockTime(o), 0)
    BY <1>1 DEF RunCovers, Watched, ReleaseAfter, requests, grid
  <2>1. slack > 0 /\ BlockTime(o) \in Nat /\ BlockTime(o) + guard <= slack
    BY <1>0, FitHasRoom
  <2>2. ReleaseAfter(slack, read)
    BY <1>0, <1>1, <2>1 DEF SlackCovers
  <2>3. BlockTime(o) + read <= slack + 0
    BY <1>0, <1>1, <2>1, Numbers, TimeType, GuardType DEF Prompt
  <2> QED
    BY <1>0, <2>1, <2>2, <2>3, LessGap, Numbers DEF Watched
<1> QED
  BY <1>2, <1>3, <1>4 DEF SlackInv

\* A task of the ring is selected by the judgement.
RingSelect == VisitTriggered \/ (VisitDue /\ Granted(Here))

LEMMA SelectionIsCovered == SlackInv /\ TypeOK' /\ RingSelect => SlackInv'
<1> SUFFICES ASSUME SlackInv, TypeOK', RingSelect PROVE SlackInv'
  OBVIOUS
<1>0. TypeOK /\ Prompt /\ FitForOthers /\ SlackCovers
  BY DEF SlackInv
<1>1. /\ pc = "ring" /\ pc' = "dispatch" /\ Here # Realtime /\ cur' = Here
      /\ verdict' = Judged(Here) /\ allow' = BlockTime(Here)
      /\ UNCHANGED <<unseen, read, slack, guard, grid>>
  BY DEF RingSelect, VisitTriggered, VisitDue, Visiting, SelectHere, Admit, margin
<1>2. Here \in Owner
  BY <1>0, RingType, OwnerType DEF Here, TypeOK, PassType
<1>3. Realtime # NoTask =>
        /\ trigger'[Realtime] = trigger[Realtime]
        /\ wait'[Realtime] = wait[Realtime] /\ delay'[Realtime] = delay[Realtime]
  <2>1. CASE VisitTriggered
    BY <1>0, <1>1, <2>1, OwnerType DEF TypeOK, RequestsType, VisitTriggered, TakeTrigger
  <2>2. CASE VisitDue
    BY <2>2 DEF VisitDue, requests
  <2> QED
    BY <2>1, <2>2 DEF RingSelect
<1>4. Prompt' /\ FitForOthers'
  BY <1>0, <1>1, <1>2, FitHasRoom DEF Prompt, FitForOthers
<1>5. SlackCovers' /\ RunCovers'
  BY <1>1 DEF SlackCovers, RunCovers, Running
<1>6. JudgedCovers'
  <2> SUFFICES ASSUME Judged(Here) = "fit", Watched PROVE ReleaseAfter(BlockTime(Here) + guard, read)
    BY <1>1, <1>3 DEF JudgedCovers, Watched, ReleaseAfter, grid
  <2>1. slack > 0 /\ BlockTime(Here) \in Nat /\ BlockTime(Here) + guard <= slack
    BY <1>0, <1>2, FitHasRoom
  <2>2. ReleaseAfter(slack, read)
    BY <1>0, <1>1, <2>1 DEF SlackCovers
  <2> QED
    BY <1>0, <2>1, <2>2, LessGap, Numbers DEF Watched
<1> QED
  BY <1>4, <1>5, <1>6 DEF SlackInv

\* A selection without a judgement, and the end of a run or of the pass.
Unjudged == SelectCutin \/ SelectRealtime \/ RunEnd \/ IdleSkipped \/ IdleEnd

LEMMA UnjudgedIsFree == SlackInv /\ TypeOK' /\ Unjudged => SlackInv'
<1> SUFFICES ASSUME SlackInv, TypeOK', Unjudged PROVE SlackInv'
  OBVIOUS
<1>0. Prompt /\ FitForOthers
  BY DEF SlackInv
<1>1. CASE SelectCutin \/ SelectRealtime
  <2>1. /\ pc = "timer" /\ pc' = "dispatch" /\ read' = read
        /\ verdict' \in {"cutin", "realtime"}
    BY <1>1 DEF SelectCutin, SelectRealtime, AtSelect
  <2> QED
    BY <1>0, <2>1 DEF SlackInv, Prompt, FitForOthers, SlackCovers, JudgedCovers, RunCovers, Running
<1>2. CASE RunEnd \/ IdleSkipped \/ IdleEnd
  <2>1. pc' = "loop" /\ verdict' = verdict
    BY <1>2 DEF RunEnd, IdleSkipped, IdleEnd
  <2> QED
    BY <1>0, <2>1 DEF SlackInv, Prompt, FitForOthers, SlackCovers, JudgedCovers, RunCovers, Running
<1> QED
  BY <1>1, <1>2 DEF Unjudged

\* The dispatch of a run that fits: the safety margin pays for the time from
\* the reading to here.
LEMMA DispatchIsCovered ==
  Cost <= GuardMin /\ SlackInv /\ TypeOK' /\ Dispatch => SlackInv'
<1> SUFFICES ASSUME Cost <= GuardMin, SlackInv, TypeOK', Dispatch PROVE SlackInv'
  OBVIOUS
<1>0. TypeOK /\ Prompt /\ FitForOthers /\ JudgedCovers
  BY DEF SlackInv
<1>1. /\ pc = "dispatch" /\ pc' = "run" /\ ran' = 0
      /\ UNCHANGED <<cur, verdict, allow, unseen, requests, period, pause>>
  BY DEF Dispatch
<1>2. FitForOthers'
  BY <1>0, <1>1 DEF FitForOthers
<1>3. Prompt' /\ SlackCovers' /\ JudgedCovers'
  BY <1>1 DEF Prompt, SlackCovers, JudgedCovers
<1>4. RunCovers'
  <2> SUFFICES ASSUME verdict = "fit", Watched PROVE ReleaseAfter(allow, 0)'
    BY <1>1 DEF RunCovers, Watched
  <2>1. Realtime \in Task /\ cur \in Task /\ cur # Realtime
    BY <1>0, <1>1, OwnerType DEF FitForOthers, TypeOK, PassType
  <2>2. age'[Realtime] = age[Realtime]
    BY <1>0, <2>1 DEF Dispatch, TypeOK, GridType
  <2>3. ReleaseAfter(allow + guard, read)
    BY <1>0, <1>1 DEF JudgedCovers
  <2>4. allow + read <= allow + guard + 0
    BY <1>0, <1>1, Numbers, TimeType, GuardType DEF Prompt
  <2>5. ReleaseAfter(allow, 0)
    <3>1. Realtime # NoTask
      BY DEF Watched
    <3>2. allow \in Nat /\ read \in Nat /\ 0 \in Nat /\ allow + guard \in Nat
      BY <1>0, Numbers
    <3> QED
      BY <1>0, <2>3, <2>4, <3>1, <3>2, LessGap
  <2> QED
    BY <1>1, <2>2, <2>5 DEF ReleaseAfter, requests
<1> QED
  BY <1>2, <1>3, <1>4 DEF SlackInv

\* The release is where it was, or a trigger of it has been withdrawn.
ReleaseKept ==
  /\ age'[Realtime] = age[Realtime] /\ period'[Realtime] = period[Realtime]
  /\ trigger'[Realtime] => /\ trigger[Realtime]
                           /\ wait'[Realtime] = wait[Realtime]
                           /\ delay'[Realtime] = delay[Realtime]

\* Nothing an interrupt or the application does brings the release forward
\* without leaving its mark in unseen.
LEMMA AskIsSeen == SlackInv /\ TypeOK' /\ (Request \/ Control) => SlackInv'
<1> SUFFICES ASSUME SlackInv, TypeOK', Request \/ Control PROVE SlackInv'
  OBVIOUS
<1> DEFINE Kept == /\ UNCHANGED <<pc, cur, verdict, allow, ran, read, slack, guard>>
                   /\ Watched' => Watched /\ ReleaseKept
<1>0. TypeOK
  BY DEF SlackInv
<1>1. ASSUME NEW t \in Task, NEW d \in Nat, SetTrigger(t, d)
      PROVE  Kept
  <2> SUFFICES ASSUME Watched' PROVE Watched /\ ReleaseKept
    BY <1>1 DEF SetTrigger, margin
  <2>1. Watched /\ t # Realtime /\ Realtime \in Task
    BY <1>1, OwnerType DEF SetTrigger, Watched, BroughtForward, grid
  <2> QED
    BY <1>0, <1>1, <2>1 DEF SetTrigger, ReleaseKept, grid, TypeOK, RequestsType
<1>2. ASSUME NEW t \in Task, SetCutinTrigger(t)
      PROVE  Kept
  <2> SUFFICES ASSUME Watched' PROVE Watched /\ ReleaseKept
    BY <1>2 DEF SetCutinTrigger, margin
  <2>1. Watched /\ t # Realtime /\ Realtime \in Task
    BY <1>2, OwnerType DEF SetCutinTrigger, Watched, BroughtForward, grid
  <2> QED
    BY <1>0, <1>2, <2>1 DEF SetCutinTrigger, ReleaseKept, grid, TypeOK, RequestsType
<1>3. ASSUME NEW t \in Task, CancelTrigger(t)
      PROVE  Kept
  <2> SUFFICES ASSUME Watched' PROVE Watched /\ ReleaseKept
    BY <1>3 DEF CancelTrigger, margin, pass
  <2>1. Watched /\ Realtime \in Task
    BY <1>3, OwnerType DEF CancelTrigger, Watched, pass, grid
  <2> QED
    BY <1>0, <1>3, <2>1 DEF CancelTrigger, TakeTrigger, ReleaseKept, grid, TypeOK, RequestsType
<1>4. ASSUME NEW t \in Task, Pause(t)
      PROVE  Kept
  <2> SUFFICES ASSUME Watched' PROVE Watched /\ ReleaseKept
    BY <1>4 DEF Pause, margin, pass
  <2>1. Watched
    BY <1>0, <1>4, OwnerType DEF Pause, Watched, pass, TypeOK, GridType
  <2> QED
    BY <1>4, <2>1 DEF Pause, ReleaseKept, requests
<1>5. ASSUME NEW t \in Task, Resume(t)
      PROVE  Kept
  <2> SUFFICES ASSUME Watched' PROVE Watched /\ ReleaseKept
    BY <1>5 DEF Resume, margin
  <2>1. Watched
    BY <1>0, <1>5, OwnerType DEF Resume, Watched, BroughtForward, TypeOK, GridType
  <2> QED
    BY <1>5, <2>1 DEF Resume, ReleaseKept, requests
<1>6. ASSUME NEW t \in Task, Restart(t)
      PROVE  Kept
  <2> SUFFICES ASSUME Watched' PROVE Watched /\ ReleaseKept
    BY <1>6 DEF Restart, margin
  <2>1. Watched /\ t # Realtime /\ Realtime \in Task
    BY <1>0, <1>6, OwnerType DEF Restart, Watched, BroughtForward, TypeOK, GridType
  <2> QED
    BY <1>0, <1>6, <2>1 DEF Restart, ReleaseKept, requests, TypeOK, GridType
<1>7. ASSUME NEW t \in Task, NEW b \in Nat, SetNextBlockTime(t, b)
      PROVE  Kept
  BY <1>7 DEF SetNextBlockTime, Watched, ReleaseKept, pass, margin, requests, grid
<1>8. Kept
  <2>1. CASE Request
    BY <1>1, <1>2, <2>1, RequestType DEF Request, SlackInv
  <2>2. CASE Control
    BY <1>3, <1>4, <1>5, <1>6, <1>7, <2>2, RequestType DEF Control, SlackInv
  <2> QED
    BY <2>1, <2>2
<1>9. Prompt' /\ FitForOthers'
  BY <1>8 DEF SlackInv, Prompt, FitForOthers
<1>10. SlackCovers' /\ JudgedCovers' /\ RunCovers'
  BY <1>8 DEF SlackInv, SlackCovers, JudgedCovers, RunCovers, ReleaseAfter, ReleaseKept
<1> QED
  BY <1>9, <1>10 DEF SlackInv

\* Time passes alike for the release and for what is left before it.
LEMMA TickKeepsSlack == SlackInv /\ TypeOK' /\ Tick => SlackInv'
<1> SUFFICES ASSUME SlackInv, TypeOK', Tick PROVE SlackInv'
  OBVIOUS
<1>0. TypeOK /\ Prompt /\ FitForOthers /\ SlackCovers /\ JudgedCovers /\ RunCovers
  BY DEF SlackInv
<1>1. /\ UNCHANGED <<pc, cur, verdict, allow, slack, unseen, guard>>
      /\ Watched' = Watched
  BY DEF Tick, Watched
<1>2. Realtime # NoTask =>
        /\ age'[Realtime] <= age[Realtime] + 1 /\ period'[Realtime] = period[Realtime]
        /\ wait'[Realtime] <= wait[Realtime] + 1 /\ delay'[Realtime] = delay[Realtime]
        /\ trigger'[Realtime] = trigger[Realtime]
        /\ age'[Realtime] \in Nat /\ wait'[Realtime] \in Nat
  <2> SUFFICES ASSUME Realtime # NoTask
               PROVE  /\ age'[Realtime] <= age[Realtime] + 1
                      /\ wait'[Realtime] <= wait[Realtime] + 1
                      /\ age'[Realtime] \in Nat /\ wait'[Realtime] \in Nat
    BY DEF Tick
  <2>1. Realtime \in Task /\ age[Realtime] \in Ages /\ wait[Realtime] \in Ages
    BY <1>0, OwnerType DEF TypeOK, GridType, RequestsType
  <2>2. age'[Realtime] \in {age[Realtime], Older(age[Realtime])}
    BY <2>1 DEF Tick
  <2>3. wait'[Realtime] \in {wait[Realtime], Older(wait[Realtime])}
    BY <2>1 DEF Tick
  <2> QED
    BY <2>1, <2>2, <2>3, OlderType, TimeType DEF Ages
<1>3. CASE pc \in Running
  <2>1. ran' = ran + 1
    BY <1>3 DEF Tick
  <2>2. RunCovers'
    BY <1>0, <1>1, <1>2, <1>3, <2>1, Numbers DEF RunCovers, ReleaseAfter, Watched
  <2> QED
    BY <1>0, <1>1, <1>3, <2>2
    DEF SlackInv, Prompt, FitForOthers, SlackCovers, JudgedCovers, Running
<1>4. CASE pc \notin Running
  <2>1. read' = read + 1 /\ read' <= Cost
    BY <1>0, <1>4, CostBelowCap, Numbers, TimeType DEF Tick, Older
  <2>2. SlackCovers'
    BY <1>0, <1>1, <1>2, <2>1, Numbers DEF SlackCovers, ReleaseAfter, Watched
  <2>3. JudgedCovers'
    BY <1>0, <1>1, <1>2, <2>1, Numbers DEF JudgedCovers, ReleaseAfter, Watched
  <2> QED
    BY <1>0, <1>1, <1>4, <2>1, <2>2, <2>3 DEF SlackInv, Prompt, FitForOthers, RunCovers
<1> QED
  BY <1>3, <1>4

\* The invariant of the slack rule, when the safety margin is at least the time
\* the scheduler takes from its reading to the dispatch.
THEOREM SlackInvariant == Cost <= GuardMin => (Spec => []SlackInv)
<1> SUFFICES ASSUME Cost <= GuardMin PROVE Spec => []SlackInv
  OBVIOUS
<1>1. Init => SlackInv
  <2> SUFFICES ASSUME Init PROVE SlackInv
    OBVIOUS
  <2>1. TypeOK
    BY InitType
  <2>2. pc = "loop" /\ verdict = "none"
    BY DEF Init
  <2> QED
    BY <2>1, <2>2
    DEF SlackInv, Prompt, FitForOthers, SlackCovers, JudgedCovers, RunCovers, Running
<1>2. SlackInv /\ [Next]_vars => SlackInv'
  <2> SUFFICES ASSUME SlackInv, [Next]_vars PROVE SlackInv'
    OBVIOUS
  <2>1. TypeOK
    BY DEF SlackInv
  <2>2. CASE UNCHANGED vars
    <3>1. TypeOK'
      BY <2>1, <2>2, Frame DEF vars, TypeOK
    <3> QED
      BY <2>2, <3>1
      DEF vars, pass, requests, grid, margin, SlackInv, Prompt, FitForOthers, SlackCovers,
          JudgedCovers, RunCovers, Watched, ReleaseAfter
  <2>3. CASE MainStep
    <3>1. TypeOK'
      BY <2>1, <2>3, MainType
    <3>2. PassStep \/ CallbackStart \/ RingSelect \/ Unjudged \/ Dispatch
      BY <2>3 DEF MainStep, PassStep, CallbackStart, RingSelect, Unjudged
    <3> QED
      BY <3>1, <3>2, PassKeepsSlack, CallbackIsCovered, SelectionIsCovered, UnjudgedIsFree,
         DispatchIsCovered
  <2>4. CASE Request \/ Control
    BY <2>1, <2>4, AskType, AskIsSeen
  <2>5. CASE Tick
    BY <2>1, <2>5, TickType, TickKeepsSlack
  <2> QED
    BY <2>2, <2>3, <2>4, <2>5 DEF Next
<1> QED
  BY <1>1, <1>2, PTL DEF Spec

\* A run that fits and keeps to its block time leaves the realtime release
\* alone (_fitsInSlack, _realtimeSlack, _updateTaskGuard).
THEOREM SlackRule == Cost <= GuardMin => (Spec => []SlackProtectsRelease)
<1> SUFFICES ASSUME Cost <= GuardMin PROVE Spec => []SlackProtectsRelease
  OBVIOUS
<1>1. SlackInv => SlackProtectsRelease
  <2> SUFFICES ASSUME SlackInv, pc \in Running, verdict = "fit", ran <= allow, ~unseen,
                      ~pause[Realtime]
               PROVE  /\ period[Realtime] > 0 => age[Realtime] <= period[Realtime]
                      /\ trigger[Realtime] => wait[Realtime] <= delay[Realtime]
    BY DEF SlackProtectsRelease
  <2>1. TypeOK /\ Realtime # NoTask /\ ReleaseAfter(allow, ran)
    BY DEF SlackInv, FitForOthers, RunCovers, Watched
  <2>2. ReleaseAfter(0, 0)
    BY <2>1, LessGap, Numbers
  <2> QED
    BY <2>1, <2>2, Numbers DEF ReleaseAfter
<1> QED
  BY <1>1, SlackInvariant, PTL

(***************************************************************************)
(* What becomes of a release asked for                                     *)
(***************************************************************************)

\* A delayed trigger is released no earlier than its delay, also when it was
\* set after the reading of the pass (_processingTrigger, _processingRealTime).
THEOREM ReleasedOnTime == Spec => NotReleasedEarly
<1> DEFINE Step == \A t \in Task :
                     (ReleaseStep /\ trigger[t] /\ delay[t] > 0 /\ delay'[t] = 0)
                       => wait[t] >= delay[t]
<1>1. TypeOK /\ [Next]_vars => [Step]_vars
  <2> SUFFICES ASSUME TypeOK, Next, NEW t \in Task, ReleaseStep, delay[t] > 0, delay'[t] = 0
               PROVE  wait[t] >= delay[t]
    OBVIOUS
  <2>1. wait[t] \in Nat /\ delay[t] \in Nat /\ read \in Nat
    BY DEF TypeOK, PassType, RequestsType, Ages
  <2>2. Expired(t) => wait[t] >= delay[t]
    BY <2>1 DEF Expired
  <2>3. CASE SelectRealtime \/ VisitTriggered \/ VisitTriggerRefused
    BY <2>2, <2>3 DEF SelectRealtime, VisitTriggered, VisitTriggerRefused, TakeTrigger, SpendDelay, TypeOK,
                      RequestsType
  <2>4. CASE LoopRead \/ TimerStart \/ TimerRefused \/ TimerEnd \/ SelectCutin \/ StartRing
    BY <2>4 DEF LoopRead, TimerStart, TimerRefused, TimerEnd, SelectCutin, StartRing, requests
  <2>5. CASE VisitDue \/ VisitIdle \/ Dispatch \/ IdleStart \/ IdleSkipped \/ IdleEnd
    BY <2>5 DEF VisitDue, VisitIdle, Dispatch, IdleStart, IdleSkipped, IdleEnd, requests
  <2>6. CASE RunEnd
    BY <2>6 DEF RunEnd, ReleaseStep
  <2>7. CASE Request \/ Control \/ Tick
    BY <2>7 DEF Request, Control, Tick, SetTrigger, SetCutinTrigger, CancelTrigger, Pause, Resume,
                Restart, SetNextBlockTime, ReleaseStep, pass
  <2> QED
    BY <2>3, <2>4, <2>5, <2>6, <2>7 DEF Next, MainStep
<1> QED
  BY <1>1, TypeCorrect, PTL DEF Spec, NotReleasedEarly

\* A trigger or a cut in stays until its task is selected for it or the
\* application cancels it.
THEOREM RequestsAreKept == Spec => RequestsKept
<1> DEFINE Step == /\ \A t \in Task : trigger[t] /\ ~trigger'[t] =>
                        \/ pc' = "dispatch" /\ cur' = t /\ trig'
                        \/ pc \in Running /\ t \in client.controls
                   /\ cutin # NoTask /\ cutin' # cutin =>
                        \/ pc' = "dispatch" /\ cur' = cutin /\ trig'
                        \/ pc \in Running /\ cutin \in client.controls
<1>1. TypeOK /\ [Next]_vars => [Step]_vars
  <2> SUFFICES ASSUME TypeOK, Next PROVE Step
    OBVIOUS
  <2>0. trigger \in [Task -> BOOLEAN]
    BY DEF TypeOK, RequestsType
  <2>1. CASE LoopRead \/ TimerStart \/ TimerRefused \/ TimerEnd \/ StartRing
    BY <2>1 DEF LoopRead, TimerStart, TimerRefused, TimerEnd, StartRing, requests
  <2>2. CASE VisitDue \/ VisitIdle \/ Dispatch \/ IdleStart \/ IdleSkipped \/ IdleEnd \/ Tick
    BY <2>2 DEF VisitDue, VisitIdle, Dispatch, IdleStart, IdleSkipped, IdleEnd, Tick, requests
  <2>3. CASE SelectCutin
    BY <2>3 DEF SelectCutin
  <2>4. CASE SelectRealtime
    BY <2>0, <2>4 DEF SelectRealtime, TakeTrigger
  <2>5. CASE VisitTriggered \/ VisitTriggerRefused
    BY <2>0, <2>5 DEF VisitTriggered, VisitTriggerRefused, TakeTrigger, SpendDelay, SelectHere, Admit
  <2>6. CASE RunEnd
    BY <2>0, <2>6 DEF RunEnd
  <2>7. CASE Request
    BY <2>0, <2>7 DEF Request, SetTrigger, SetCutinTrigger, CutinFree
  <2>8. CASE Control
    <3>1. ASSUME NEW t \in client.controls, CancelTrigger(t)
          PROVE  Step
      BY <2>0, <3>1 DEF CancelTrigger, TakeTrigger
    <3>2. ASSUME NEW t \in client.controls, Pause(t) \/ Resume(t) \/ Restart(t)
          PROVE  Step
      BY <3>2 DEF Pause, Resume, Restart, requests
    <3>3. ASSUME NEW p \in client.declares, SetNextBlockTime(p[1], p[2])
          PROVE  Step
      BY <3>3 DEF SetNextBlockTime, requests
    <3> QED
      BY <2>8, <3>1, <3>2, <3>3 DEF Control
  <2> QED
    BY <2>1, <2>2, <2>3, <2>4, <2>5, <2>6, <2>7, <2>8 DEF Next, MainStep
<1> QED
  BY <1>1, TypeCorrect, PTL DEF Spec, RequestsKept
=============================================================================
