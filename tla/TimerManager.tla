--------------------------- MODULE TimerManager ---------------------------
(***************************************************************************)
(* pif_timer_manager.c, pif_timer.c and the pool of pif_obj_array.c they    *)
(* keep their timers in.  The tick is an interrupt: it may come between any *)
(* two accesses of the main context, and the main context waits until it is *)
(* over.  A store of 32 bits takes two steps, the first of which leaves a    *)
(* value that is neither the old nor the new one.                           *)
(***************************************************************************)
EXTENDS Integers, Sequences, SequencesExt

CONSTANTS
  MaxCount,    \* timers the manager can hold
  Targets,     \* tick counts given to pifTimer_Start()
  NewTargets,  \* tick counts given to pifTimer_SetTarget()
  IntoInt,     \* slots whose finish callback runs in the interrupt
  IntCalls,    \* what such a callback does to its timer: "restart", "stop", "remove", "none"
  Clears       \* whether the manager is cleared and initialised again

Timer == 1 .. MaxCount
NoTimer == 0

ASSUME MaxAssumption == MaxCount \in Nat /\ MaxCount > 0
ASSUME TargetAssumption == Targets \subseteq Nat \ {0} /\ NewTargets \subseteq Nat \ {0}
ASSUME CallAssumption ==
  /\ IntoInt \subseteq Timer
  /\ IntCalls \subseteq {"restart", "stop", "remove", "none"}
  /\ Clears \in BOOLEAN

VARIABLES
  step,     \* _step
  type,     \* _type
  target,   \* _target
  current,  \* __current
  event,    \* __event
  list,     \* timers in use, the latest first
  free,     \* free slots, the next to be taken first
  pending,  \* __pending
  ready,    \* __ready
  code,     \* what is left of the call the main context is in
  of,       \* the timer of the call
  with,     \* its tick count
  wpc,      \* where _doTask() is
  at,       \* the timer it visits
  next,     \* it_next
  slot,     \* the slot the tick handler visits, 0 outside of it
  gone,     \* timers removed by the application
  asked,    \* tick count the application asked for last
  goal,     \* tick count of the period that runs
  counted,  \* ticks of it
  ran       \* flips when the finish callback of a timer runs

timers == <<step, type, target, current, event>>
pool == <<list, free, ready>>
call == <<code, of, with>>
walk == <<wpc, at, next>>
history == <<gone, asked, goal, counted, ran>>
vars == <<timers, pool, pending, call, walk, slot, history>>

\* A value half written.
Torn == -1

Types == {"once", "repeat"}

Init ==
  /\ step = [t \in Timer |-> "stop"]
  /\ type = [t \in Timer |-> "once"]
  /\ target = [t \in Timer |-> 0]
  /\ current = [t \in Timer |-> 0]
  /\ event = [t \in Timer |-> FALSE]
  /\ list = <<>>
  /\ free = [i \in Timer |-> i]
  /\ pending = FALSE
  /\ ready = TRUE
  /\ code = <<>> /\ of = NoTimer /\ with = 0
  /\ wpc = "idle" /\ at = NoTimer /\ next = NoTimer
  /\ slot = 0
  /\ gone = {}
  /\ asked = [t \in Timer |-> 0] /\ goal = [t \in Timer |-> 0]
  /\ counted = [t \in Timer |-> 0]
  /\ ran = [t \in Timer |-> FALSE]

(***************************************************************************)
(* The main context.  Application code runs outside of _doTask() and in the *)
(* finish callbacks it calls.                                               *)
(***************************************************************************)

MainRuns == slot = 0
AppRuns == MainRuns /\ code = <<>> /\ ready /\ wpc \in {"idle", "call"}

\* pifTimerManager_Add(), with the callback the application attaches.
Add ==
  /\ AppRuns
  /\ free # <<>>
  /\ LET t == Head(free)
     IN  /\ list' = <<t>> \o list
         /\ \E y \in Types : type' = [type EXCEPT ![t] = y]
         /\ step' = [step EXCEPT ![t] = "stop"]
         /\ target' = [target EXCEPT ![t] = 0]
         /\ current' = [current EXCEPT ![t] = 0]
         /\ event' = [event EXCEPT ![t] = FALSE]
         /\ gone' = gone \ {t}
         /\ asked' = [asked EXCEPT ![t] = 0]
  /\ free' = Tail(free)
  /\ UNCHANGED <<ready, pending, call, walk, slot, goal, counted, ran>>

\* Mutated RemoveTimer: the slot is given back at once.
RemoveNow(t) ==
  /\ AppRuns
  /\ step' = [step EXCEPT ![t] = "stop"]
  /\ gone' = gone \cup {t}
  /\ list' = SelectSeq(list, LAMBDA u : u # t)
  /\ free' = <<t>> \o free
  /\ UNCHANGED <<type, target, current, event, ready, pending, call, walk, slot,
                 asked, goal, counted, ran>>

\* pifTimerManager_Remove(): the timer is marked.
RemoveTimer(t) ==
  /\ AppRuns
  /\ step' = [step EXCEPT ![t] = "remove"]
  /\ gone' = gone \cup {t}
  /\ UNCHANGED <<type, target, current, event, pool, pending, call, walk, slot,
                 asked, goal, counted, ran>>

\* The accesses of a call, in their order.
StartCode == <<"removed?", "event?", "halt", "tear target", "store target",
               "tear current", "load current", "run">>
ResetCode == <<"removed?", "halt", "tear current", "load current", "run">>
StopCode == <<"halt", "tear current", "clear current">>

\* The target written as it is, for a timer that does not run; taken for one that
\* does, it is the mutated HeldCode.
OpenCode == <<"tear target", "store target">>

\* pifTimer_SetTarget() between _hold() and _release().
HeldCode == <<"halt", "tear target", "store target", "release">>

Call(t, n, first) ==
  /\ AppRuns
  /\ code' = first /\ of' = t /\ with' = n
  /\ UNCHANGED <<timers, pool, pending, walk, slot, history>>

\* _hold(): only a running timer is stopped.
SetTarget(t, n) == Call(t, n, IF step[t] = "running" THEN HeldCode ELSE OpenCode)

\* A timer marked for removal stays marked.
Stop(t) == Call(t, 0, IF step[t] # "remove" THEN StopCode ELSE Tail(StopCode))

\* One access of the call the main context is in.
RemovedCheck ==
  /\ Head(code) = "removed?"
  /\ code' = IF step[of] = "remove" THEN <<>> ELSE Tail(code)
  /\ UNCHANGED <<timers, history>>

\* An event not yet handled is, before the timer starts over.
EventCheck ==
  /\ Head(code) = "event?"
  /\ event' = [event EXCEPT ![of] = FALSE]
  /\ ran' = [ran EXCEPT ![of] = (@ # event[of])]
  /\ code' = Tail(code)
  /\ UNCHANGED <<step, type, target, current, gone, asked, goal, counted>>

Store ==
  /\ Head(code) \in {"halt", "tear target", "store target", "tear current",
                     "load current", "clear current"}
  /\ step' = IF Head(code) = "halt" THEN [step EXCEPT ![of] = "stop"] ELSE step
  /\ target' = CASE Head(code) = "tear target" -> [target EXCEPT ![of] = Torn]
                 [] Head(code) = "store target" -> [target EXCEPT ![of] = with]
                 [] OTHER -> target
  /\ current' = CASE Head(code) = "tear current" -> [current EXCEPT ![of] = Torn]
                  [] Head(code) = "load current" -> [current EXCEPT ![of] = target[of]]
                  [] Head(code) = "clear current" -> [current EXCEPT ![of] = 0]
                  [] OTHER -> current
  /\ asked' = IF Head(code) = "store target" THEN [asked EXCEPT ![of] = with] ELSE asked
  /\ code' = Tail(code)
  /\ UNCHANGED <<type, event, gone, goal, counted, ran>>

\* The counting starts; pifTimer_Reset() does it for a timer without a target too.
Run ==
  /\ Head(code) = "run"
  /\ step' = [step EXCEPT ![of] = "running"]
  /\ goal' = [goal EXCEPT ![of] = asked[of]]
  /\ counted' = [counted EXCEPT ![of] = 0]
  /\ code' = Tail(code)
  /\ UNCHANGED <<type, target, current, event, gone, asked, ran>>

\* _release(): a one-shot timer that expired meanwhile stays stopped.
Release ==
  /\ Head(code) = "release"
  /\ step' = IF current[of] # 0 THEN [step EXCEPT ![of] = "running"] ELSE step
  /\ code' = Tail(code)
  /\ UNCHANGED <<type, target, current, event, history>>

Access ==
  /\ MainRuns /\ code # <<>>
  /\ RemovedCheck \/ EventCheck \/ Store \/ Run \/ Release
  /\ UNCHANGED <<pool, pending, of, with, walk, slot>>

\* The tick handler passes over the storage from here on.
Cleared == FALSE

\* pifTimerManager_Clear(), outside of its own callbacks: every timer is stopped,
\* and the slots are given back.
Clear ==
  /\ Clears /\ AppRuns /\ wpc = "idle"
  /\ step' = [t \in Timer |-> "stop"]
  /\ current' = [t \in Timer |-> 0]
  /\ event' = [t \in Timer |-> FALSE]
  /\ ready' = Cleared
  /\ list' = <<>> /\ free' = <<>>
  /\ gone' = Timer
  /\ UNCHANGED <<type, target, pending, call, walk, slot, asked, goal, counted, ran>>

\* pifTimerManager_Init()
Reopen ==
  /\ MainRuns /\ ~ready
  /\ free' = [i \in Timer |-> i]
  /\ pending' = FALSE
  /\ ready' = TRUE
  /\ UNCHANGED <<timers, list, call, walk, slot, history>>

(***************************************************************************)
(* _doTask()                                                               *)
(***************************************************************************)

Place(t) == CHOOSE i \in DOMAIN list : list[i] = t
Following(t) == IF Place(t) < Len(list) THEN list[Place(t) + 1] ELSE NoTimer

WalkRuns == MainRuns /\ code = <<>>

WalkBegin ==
  /\ WalkRuns /\ wpc = "idle" /\ ready /\ pending
  /\ pending' = FALSE
  /\ IF list = <<>>
     THEN UNCHANGED <<wpc, at>>
     ELSE wpc' = "step" /\ at' = Head(list)
  /\ UNCHANGED <<timers, pool, call, next, slot, history>>

GoTo(t) ==
  /\ at' = t
  /\ wpc' = IF t = NoTimer THEN "idle" ELSE "step"

\* The slot of a timer marked for removal is given back.
WalkFree ==
  /\ WalkRuns /\ wpc = "step" /\ step[at] = "remove"
  /\ step' = [step EXCEPT ![at] = "stop"]
  /\ list' = RemoveAt(list, Place(at))
  /\ free' = <<at>> \o free
  /\ next' = Following(at)
  /\ GoTo(Following(at))
  /\ UNCHANGED <<type, target, current, event, ready, pending, call, slot, history>>

WalkStep ==
  /\ WalkRuns /\ wpc = "step" /\ step[at] # "remove"
  /\ next' = Following(at)
  /\ wpc' = "event"
  /\ UNCHANGED <<timers, pool, pending, call, at, slot, history>>

WalkPass ==
  /\ WalkRuns /\ wpc = "event" /\ ~event[at]
  /\ GoTo(next)
  /\ UNCHANGED <<timers, pool, pending, call, next, slot, history>>

\* The event is taken, then its callback called.
WalkEvent ==
  /\ WalkRuns /\ wpc = "event" /\ event[at]
  /\ event' = [event EXCEPT ![at] = FALSE]
  /\ ran' = [ran EXCEPT ![at] = ~@]
  /\ wpc' = "call"
  /\ UNCHANGED <<step, type, target, current, pool, pending, call, at, next, slot,
                 gone, asked, goal, counted>>

WalkReturn ==
  /\ WalkRuns /\ wpc = "call"
  /\ GoTo(next)
  /\ UNCHANGED <<timers, pool, pending, call, next, slot, history>>

(***************************************************************************)
(* pifTimerManager_sigTick()                                               *)
(***************************************************************************)

TickBegin ==
  /\ slot = 0 /\ ready
  /\ slot' = 1
  /\ UNCHANGED <<timers, pool, pending, call, walk, history>>

TickNext == slot' = IF slot < MaxCount THEN slot + 1 ELSE 0

\* Mutated Marked: the task is not told.
NotMarked(t) == FALSE

\* The task is told of a slot it has to free.
Marked(t) == step[t] = "remove"

\* A slot that does not run.
TickPass ==
  /\ slot # 0 /\ step[slot] # "running"
  /\ pending' = (pending \/ Marked(slot))
  /\ TickNext
  /\ UNCHANGED <<timers, pool, call, walk, history>>

\* A running timer without ticks left is passed over.
TickIdle ==
  /\ slot # 0 /\ step[slot] = "running" /\ current[slot] = 0
  /\ TickNext
  /\ UNCHANGED <<timers, pool, pending, call, walk, history>>

TickCount ==
  /\ slot # 0 /\ step[slot] = "running" /\ current[slot] \notin {0, 1}
  /\ current' = [current EXCEPT ![slot] = @ - 1]
  /\ counted' = [counted EXCEPT ![slot] = @ + 1]
  /\ TickNext
  /\ UNCHANGED <<step, type, target, event, pool, pending, call, walk, gone, asked,
                 goal, ran>>

\* _finish(): the task is told of a new event.
Announce(t) == ~event[t]

\* What the callback in the interrupt leaves of its timer.
Left(t, how) ==
  CASE how = "none" -> [step |-> IF type[t] = "once" THEN "stop" ELSE "running",
                        current |-> IF type[t] = "once" THEN 0 ELSE target[t]]
    [] how = "restart" -> [step |-> "running", current |-> target[t]]
    [] how = "stop" -> [step |-> "stop", current |-> 0]
    [] how = "remove" -> [step |-> "remove",
                          current |-> IF type[t] = "once" THEN 0 ELSE target[t]]

\* The target is reached: a one-shot timer stops, a repeating one is reloaded, and
\* the callback runs or is left to the task.
TickFinish ==
  /\ slot # 0 /\ step[slot] = "running" /\ current[slot] = 1
  /\ \E how \in IF slot \in IntoInt THEN IntCalls ELSE {"none"} :
       /\ step' = [step EXCEPT ![slot] = Left(slot, how).step]
       /\ current' = [current EXCEPT ![slot] = Left(slot, how).current]
       /\ gone' = IF how = "remove" THEN gone \cup {slot} ELSE gone
  /\ goal' = [goal EXCEPT ![slot] = asked[slot]]
  /\ counted' = [counted EXCEPT ![slot] = 0]
  /\ IF slot \in IntoInt
     THEN /\ ran' = [ran EXCEPT ![slot] = ~@]
          /\ UNCHANGED <<event, pending>>
     ELSE /\ event' = [event EXCEPT ![slot] = TRUE]
          /\ pending' = (pending \/ Announce(slot))
          /\ UNCHANGED ran
  /\ TickNext
  /\ UNCHANGED <<type, target, pool, call, walk, asked>>

Tick == TickPass \/ TickIdle \/ TickCount \/ TickFinish
Walk == WalkBegin \/ WalkFree \/ WalkStep \/ WalkPass \/ WalkEvent \/ WalkReturn

Next ==
  \/ Add
  \/ \E t \in ToSet(list) :
       \/ RemoveTimer(t) \/ Stop(t) \/ Call(t, 0, ResetCode)
       \/ \E n \in Targets : Call(t, n, StartCode)
       \/ \E n \in NewTargets : SetTarget(t, n)
  \/ Clear \/ Reopen
  \/ Access
  \/ Walk
  \/ TickBegin \/ Tick

Spec == Init /\ [][Next]_vars

\* Ticks come and end, and leave time to the main context, whose calls and callbacks
\* return: the task manager calls _doTask() in every pass.
FairSpec ==
  /\ Spec
  /\ WF_vars(TickBegin) /\ WF_vars(Tick)
  /\ SF_vars(Access) /\ SF_vars(Walk)

(***************************************************************************)
(* Properties                                                              *)
(***************************************************************************)

Counts == Targets \cup NewTargets \cup {0}

TypeOK ==
  /\ step \in [Timer -> {"stop", "running", "remove"}]
  /\ type \in [Timer -> Types]
  /\ target \in [Timer -> Counts \cup {Torn}]
  /\ current \in [Timer -> Nat \cup {Torn}]
  /\ event \in [Timer -> BOOLEAN]
  /\ list \in Seq(Timer) /\ free \in Seq(Timer)
  /\ pending \in BOOLEAN /\ ready \in BOOLEAN
  /\ code \in Seq(ToSet(StartCode) \cup ToSet(StopCode) \cup ToSet(HeldCode))
  /\ of \in Timer \cup {NoTimer} /\ with \in Counts
  /\ wpc \in {"idle", "step", "event", "call"}
  /\ at \in Timer \cup {NoTimer} /\ next \in Timer \cup {NoTimer}
  /\ slot \in 0 .. MaxCount
  /\ gone \subseteq Timer
  /\ asked \in [Timer -> Counts] /\ goal \in [Timer -> Counts]
  /\ counted \in [Timer -> Nat]
  /\ ran \in [Timer -> BOOLEAN]

\* "A running timer finishes its current period and uses the new count from the
\* next reload" (pifTimer_SetTarget): what a running timer has left is the count
\* asked for before the period began less the ticks since then, whatever the main
\* context was writing when the tick came.
RemainIsRight ==
  \A t \in Timer : step[t] = "running" => current[t] = goal[t] - counted[t]

\* The timers _doTask() has still to visit.
Ahead ==
  LET from == IF wpc = "step" THEN at ELSE next
  IN  {list[i] : i \in {j \in DOMAIN list :
         wpc # "idle" /\ from # NoTimer /\ \E k \in 1 .. j : list[k] = from}}
      \cup (IF wpc = "event" THEN {at} ELSE {})

\* An expiry is never left behind: the walk will come to it, or there is another one.
EventsAwaited ==
  \A t \in ToSet(list) : event[t] => pending \/ t \in Ahead

\* "Only this loop unlinks them, so the next node is still in the list when it is
\* reached" (_doTask), whatever its callbacks add, start and remove.
WalkInList ==
  /\ wpc # "idle" => at \in ToSet(list)
  /\ wpc \in {"event", "call"} => next \in ToSet(list) \cup {NoTimer}

\* The tick handler walks the storage only while it is there, every slot of it in use
\* or free (pifTimerManager_Clear).
StorageHeld ==
  slot # 0 => /\ ToSet(list) \cup ToSet(free) = Timer
              /\ Len(list) + Len(free) = MaxCount

\* The timers and their walk: an expiry waits for nobody, the walk stays in the list, and the
\* storage is there as long as the tick handler uses it.
TimersKept == EventsAwaited /\ WalkInList /\ StorageHeld

\* "It stops counting and no finish callback runs for it from then on. [...] Safe to
\* call from a finish callback, including one attached to run in the interrupt."
\* (pifTimerManager_Remove)
RemovedRests == \A t \in gone : ran'[t] = ran[t] /\ step'[t] # "running"
NoFinishAfterRemove == [][RemovedRests]_vars

\* "The manager task frees its slot after the next tick" (pifTimerManager_Remove).
Held(t) == t \in gone /\ t \in ToSet(list)
RemovedIsFreed == \A t \in Timer : Held(t) ~> ~Held(t)
=============================================================================
