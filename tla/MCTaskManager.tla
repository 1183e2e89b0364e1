--------------------------- MODULE MCTaskManager ---------------------------
(***************************************************************************)
(* Instances of the scheduler for TLC: r is the realtime task, a is another *)
(* task of the ring, t is a timer callback.                                 *)
(***************************************************************************)
EXTENDS TaskManager, TLC, FiniteSetsExt

CONSTANTS r, a, t

RingRA == <<r, a>>
NoTimers == <<>>
OneTimer == <<t>>

Modes == [x \in Task |-> IF x = r THEN "realtime" ELSE "period"]
ModesExternal == [x \in Task |-> IF x = r THEN "realtime" ELSE "external"]

PeriodsAlone == [x \in Task |-> IF x = r THEN 4 ELSE 0]
PeriodsBoth == [x \in Task |-> IF x = r THEN 4 ELSE 3]
PeriodsTriggered == [x \in Task |-> IF x = r THEN 0 ELSE 3]

RunsA2 == [x \in Owner |-> IF x = a THEN 2 ELSE 1]

\* The task is held back for a time, the callbacks a number of times.
Bounds == [x \in Owner |-> IF x \in Timer THEN 2 ELSE 0]
NoBound == [x \in Owner |-> 0]

\* In some of its runs the task asks for one shorter period, and the external one for
\* a trigger.
ReturnsTwo == [x \in Task |-> IF x = r THEN {0} ELSE {0, 2}]
ReturnsZero == [x \in Task |-> {0}]

Nobody == [triggers |-> {}, runTriggers |-> {}, cutins |-> {}, controls |-> {},
           declares |-> {}, idle |-> FALSE]
\* Interrupts that release both tasks, at once and with a delay.
Interrupts == [Nobody EXCEPT !.triggers = {<<r, 2>>, <<a, 0>>, <<a, 2>>}]
\* Interrupts that cut in with both tasks, one of which triggers the other.
CutIns == [Nobody EXCEPT !.cutins = {r, a}, !.runTriggers = {<<r, a, 0>>}]
\* An application that controls both tasks and declares the length of a run.
Application == [Nobody EXCEPT !.triggers = {<<a, 0>>}, !.controls = {r, a},
                              !.declares = {<<a, 1>>}]
\* a starts r, which then asks for its next release in every run.
Rearm == [Nobody EXCEPT !.runTriggers = {<<a, r, 3>>, <<r, r, 3>>}]
\* One with an idle callback.
Idler == [Nobody EXCEPT !.triggers = {<<a, 0>>}, !.idle = TRUE]

AllClients == {Interrupts, CutIns, Application, Idler}
NoClient == {Nobody}
OnlyRearm == {Rearm}

\* The bound on being held back (PifTask::max_skip), when nobody but its period
\* releases the realtime task: a task released by a trigger and held back waits one
\* realtime period from the first refusal, and then no longer than one run of each of
\* the others.
HeldBackBounded ==
  client = Idler =>
    \A o \in Task : skipCount[o] > 0 =>
      skipAge[o] <= FoldSet(LAMBDA x, sum : sum + MaxRun[x] + Cost, period[Realtime],
                            Owner \ {o})
=============================================================================
