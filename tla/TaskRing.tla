------------------------------ MODULE TaskRing ------------------------------
(* The lists of the scheduler (core/pif_task_manager.c on core/pif_obj_array.c): *)
(* tasks and timer callbacks in nodes of two pools, which loops and callbacks    *)
(* add and remove while the pass walks both lists.  A node that is removed goes  *)
(* to the free list with its contents.  When a task is due is left to its        *)
(* trigger; every task is one that only triggers release.                        *)
EXTENDS Naturals, SequencesExt

CONSTANTS
  MaxTasks, MaxTimers,   \* nodes of the pools
  Rules        \* what the application keeps to, see Rule

\* "cancel": a trigger is cancelled before its task is removed, as XMODEM does;
\* "timers": a timer callback leaves the timers alone;
\* "last": a timer callback leaves a task in the list;
\* "slot": a loop that has removed its own task adds no other one.
Rule == {"cancel", "timers", "last", "slot"}

VARIABLES
  tasks, freeTasks,   \* s_tasks: nodes from _p_first, nodes from _p_free
  timers, freeTimers, \* s_timers
  trigger,     \* the nodes whose __trigger is set
  cutin,       \* g_task_cutin
  current,     \* s_it_current
  count,       \* the number of tasks read at the top of the pass
  it, next, i, \* it_timer, it_timer_next and the index of the timer loop
  owner,       \* p_owner of the run
  gone,        \* whether its task was removed in the run
  asked,       \* the tasks whose release was asked for since they were added
  pc,          \* where the pass is
  visits       \* tasks visited in this pass

Null == 0
pools == <<tasks, freeTasks, timers, freeTimers>>
walk == <<count, it, next, i, visits>>
running == <<owner, gone>>
vars == <<pools, trigger, cutin, current, walk, running, asked, pc>>

\* pifObjArray_Begin() and pifObjArray_Next(): the link of a node that is free leads
\* along the free list.
Begin(list) == IF list = <<>> THEN Null ELSE Head(list)
Link(list, n) ==
  LET after == {k \in 2..Len(list) : list[k - 1] = n}
  IN IF after = {} THEN Null ELSE list[CHOOSE k \in after : TRUE]
Follow(list, free, n) == IF n \in ToSet(list) THEN Link(list, n) ELSE Link(free, n)

Init ==
  /\ tasks = <<>> /\ timers = <<>>
  /\ freeTasks = [n \in 1..MaxTasks |-> n] /\ freeTimers = [n \in 1..MaxTimers |-> n]
  /\ trigger = {} /\ cutin = Null /\ current = Null
  /\ count = 0 /\ it = Null /\ next = Null /\ i = 0 /\ visits = 0 /\ pc = "top"
  /\ owner = Null /\ gone = FALSE /\ asked = {}

\* pifObjArray_Remove(): the node is unlinked from the list.
Unlink(list, n) == RemoveAt(list, CHOOSE k \in 1..Len(list) : list[k] = n)

-----------------------------------------------------------------------------
(* The calls of the application: between two passes, in a timer callback and in  *)
(* the loop of a task.                                                           *)

InTimer == pc = "timer call"
Calling == pc \in {"top", "timer call", "run"}

\* pifTaskManager_Add() takes the node at the head of the free list, which is cleared.
Add ==
  /\ Calling /\ freeTasks # <<>>
  /\ "slot" \in Rules => ~gone
  /\ tasks' = <<Head(freeTasks)>> \o tasks /\ freeTasks' = Tail(freeTasks)
  /\ trigger' = trigger \ {Head(freeTasks)} /\ asked' = asked \ {Head(freeTasks)}
  /\ current' = IF current = Null THEN Head(freeTasks) ELSE current
  /\ UNCHANGED <<timers, freeTimers, cutin, walk, running, pc>>

\* Mutated RemoveTask: the ring pointer stays.
RemoveKeepsCurrent(n) ==
  /\ Calling /\ n \in ToSet(tasks)
  /\ "cancel" \in Rules => n \notin trigger /\ n # cutin
  /\ "last" \in Rules /\ InTimer => Len(tasks) > 1
  /\ tasks' = Unlink(tasks, n) /\ freeTasks' = <<n>> \o freeTasks
  /\ gone' = (gone \/ n = owner)
  /\ UNCHANGED <<timers, freeTimers, trigger, cutin, current, walk, owner, asked, pc>>

\* pifTaskManager_Remove().
RemoveTask(n) ==
  /\ Calling /\ n \in ToSet(tasks)
  /\ "cancel" \in Rules => n \notin trigger /\ n # cutin
  /\ "last" \in Rules /\ InTimer => Len(tasks) > 1
  /\ tasks' = Unlink(tasks, n) /\ freeTasks' = <<n>> \o freeTasks
  /\ current' = IF tasks' = <<>> THEN Null
                ELSE IF current \in {n, Null} THEN Begin(tasks') ELSE current
  /\ gone' = (gone \/ n = owner)
  /\ UNCHANGED <<timers, freeTimers, trigger, cutin, walk, owner, asked, pc>>

\* pifTask_SetTrigger() and pifTask_SetCutinTrigger(), also in an interrupt: while a
\* cut in is pending the task gets a trigger.
SetTrigger(n) ==
  /\ n \in ToSet(tasks)
  /\ trigger' = trigger \cup {n} /\ asked' = asked \cup {n}
  /\ UNCHANGED <<pools, cutin, current, walk, running, pc>>

SetCutin(n) ==
  /\ n \in ToSet(tasks)
  /\ IF cutin = Null THEN cutin' = n /\ UNCHANGED trigger
                     ELSE trigger' = trigger \cup {n} /\ UNCHANGED cutin
  /\ asked' = asked \cup {n}
  /\ UNCHANGED <<pools, current, walk, running, pc>>

CancelTrigger(n) ==
  /\ Calling /\ n \in ToSet(tasks)
  /\ trigger' = trigger \ {n}
  /\ cutin' = IF cutin = n THEN Null ELSE cutin
  /\ UNCHANGED <<pools, current, walk, running, asked, pc>>

AddTimer ==
  /\ Calling /\ freeTimers # <<>>
  /\ "timers" \in Rules => ~InTimer
  /\ timers' = <<Head(freeTimers)>> \o timers /\ freeTimers' = Tail(freeTimers)
  /\ UNCHANGED <<tasks, freeTasks, trigger, cutin, current, walk, running, asked, pc>>

RemoveTimer(n) ==
  /\ Calling /\ n \in ToSet(timers)
  /\ "timers" \in Rules => ~InTimer
  /\ timers' = Unlink(timers, n) /\ freeTimers' = <<n>> \o freeTimers
  /\ UNCHANGED <<tasks, freeTasks, trigger, cutin, current, walk, running, asked, pc>>

Call ==
  \/ Add \/ AddTimer
  \/ \E n \in 1..MaxTasks : RemoveTask(n) \/ SetTrigger(n) \/ SetCutin(n) \/ CancelTrigger(n)
  \/ \E n \in 1..MaxTimers : RemoveTimer(n)

-----------------------------------------------------------------------------
(* A pass of pifTaskManager_Loop().                                          *)

Top ==
  /\ pc = "top"
  /\ count' = Len(tasks) /\ it' = Begin(timers) /\ i' = 0 /\ visits' = 0 /\ pc' = "timers"
  /\ UNCHANGED <<pools, trigger, cutin, current, next, running, asked>>

\* The next timer is read before the callback, the number of timers after it.
CallTimer ==
  /\ pc = "timers" /\ i < Len(timers)
  /\ IF it = Null THEN pc' = "lost" /\ UNCHANGED next
                  ELSE pc' = "timer call" /\ next' = Follow(timers, freeTimers, it)
  /\ UNCHANGED <<pools, trigger, cutin, current, count, it, i, visits, running, asked>>

TimerReturns ==
  /\ pc = "timer call" /\ it' = next /\ i' = i + 1 /\ pc' = "timers"
  /\ UNCHANGED <<pools, trigger, cutin, current, count, next, visits, running, asked>>

\* With no task the pass is over; otherwise a cut in is run and the ring is left alone.
Select ==
  /\ pc = "timers" /\ i >= Len(timers)
  /\ current' = IF current = Null /\ count > 0 THEN Begin(tasks) ELSE current
  /\ IF current = Null /\ count = 0 THEN pc' = "top" /\ UNCHANGED <<cutin, owner>>
     ELSE IF cutin # Null
       THEN /\ pc' = IF cutin \in ToSet(tasks) THEN "run" ELSE "stray"
            /\ cutin' = Null /\ owner' = cutin
       ELSE pc' = "ring" /\ UNCHANGED <<cutin, owner>>
  /\ UNCHANGED <<pools, trigger, walk, gone, asked>>

\* One task of the ring: run when it is released, passed over when not.
Visit ==
  /\ pc = "ring" /\ visits < count
  /\ visits' = visits + 1
  /\ IF current = Null THEN pc' = "lost" /\ UNCHANGED <<trigger, current, owner>>
     ELSE /\ trigger' = trigger \ {current}
          /\ IF current \in trigger THEN pc' = "run" /\ owner' = current
                                    ELSE pc' = "ring" /\ UNCHANGED owner
          /\ current' = IF Link(tasks, current) = Null THEN Begin(tasks)
                                                       ELSE Link(tasks, current)
  /\ UNCHANGED <<pools, cutin, count, it, next, i, gone, asked>>

\* The run ends; a period that the loop returns is a trigger for its task.
Return ==
  /\ pc = "run"
  /\ \/ UNCHANGED <<trigger, asked>>
     \/ /\ trigger' = trigger \cup {owner}
        /\ asked' = IF gone THEN asked ELSE asked \cup {owner}
  /\ pc' = "top" /\ owner' = Null /\ gone' = FALSE
  /\ UNCHANGED <<pools, cutin, current, walk>>

NoneDue ==
  /\ pc = "ring" /\ visits >= count
  /\ pc' = "top"
  /\ UNCHANGED <<pools, trigger, cutin, current, walk, running, asked>>

Pass == Top \/ CallTimer \/ TimerReturns \/ Select \/ Visit \/ Return \/ NoneDue

Next == Pass \/ Call

Spec == Init /\ [][Next]_vars
FairSpec == Spec /\ WF_vars(Pass)

-----------------------------------------------------------------------------
TypeOK ==
  /\ tasks \in Seq(1..MaxTasks) /\ freeTasks \in Seq(1..MaxTasks)
  /\ timers \in Seq(1..MaxTimers) /\ freeTimers \in Seq(1..MaxTimers)
  /\ owner \in 0..MaxTasks /\ gone \in BOOLEAN /\ count \in Nat /\ i \in Nat /\ visits \in Nat
  /\ pc \in {"top", "timers", "timer call", "ring", "run", "stray", "lost"}

\* Whatever loops and callbacks add and remove, a pass never stands on no node: neither
\* the ring pointer, nor the timer walk, nor the number of tasks read before the callbacks.
NeverLost == pc # "lost" /\ (current = Null <=> tasks = <<>>)

\* A task that was removed is not run, no pointer of the scheduler is left to a node of the
\* free list, and a task has no trigger that was asked for the one before it in its node.
NoStrayRun ==
  /\ pc # "stray" /\ trigger \cap ToSet(tasks) \subseteq asked
  /\ current \in ToSet(tasks) \cup {Null} /\ cutin \in ToSet(tasks) \cup {Null}

\* A node is in one of the lists of its pool, and once.
NodesOnce(list, free) ==
  /\ IsInjective(list) /\ IsInjective(free)
  /\ \A j \in DOMAIN list, k \in DOMAIN free : list[j] # free[k]

\* The walk over the timers stands where its index says, with the next one read.
WalkInTimers ==
  /\ pc \in {"timers", "timer call"} => it = IF i < Len(timers) THEN timers[i + 1] ELSE Null
  /\ pc = "timer call" =>
       i < Len(timers) /\ next = IF i + 1 < Len(timers) THEN timers[i + 2] ELSE Null

\* Between the top of the pass and its ring the tasks do not run out, and only a run has an owner.
PassInTasks ==
  /\ pc \in {"timers", "timer call", "ring"} /\ count > 0 => tasks # <<>>
  /\ owner # Null => pc = "run"
  /\ gone => pc = "run" /\ owner \notin ToSet(tasks)

\* What every step keeps, under the rules.
Inv ==
  /\ TypeOK /\ NodesOnce(tasks, freeTasks) /\ NodesOnce(timers, freeTimers)
  /\ WalkInTimers /\ PassInTasks /\ NeverLost /\ NoStrayRun
=============================================================================
