-------------------------------- MODULE Lists --------------------------------
(* The lists of the scheduler on variables of their own, with applications that keep to the      *)
(* rules of TaskRing.  What a pass over them promises is proved in TimerManagerProofs, with the   *)
(* walk over the list of timers.                                                                  *)
EXTENDS Naturals

CONSTANTS ListTasks, ListTimers   \* nodes of the two pools

ASSUME ListAssumption == ListTasks \in Nat /\ ListTimers \in Nat

VARIABLES
  listTasks, listFreeTasks, listTimers, listFreeTimers, listTrigger, listCutin, listCurrent,
  listCount, listIt, listNext, listIndex, listOwner, listGone, listAsked, listPc, listVisits

listVars ==
  <<listTasks, listFreeTasks, listTimers, listFreeTimers, listTrigger, listCutin, listCurrent,
    listCount, listIt, listNext, listIndex, listOwner, listGone, listAsked, listPc, listVisits>>

Tasks == INSTANCE TaskRing WITH
  MaxTasks <- ListTasks, MaxTimers <- ListTimers, Rules <- {"cancel", "timers", "last", "slot"},
  tasks <- listTasks, freeTasks <- listFreeTasks, timers <- listTimers,
  freeTimers <- listFreeTimers, trigger <- listTrigger, cutin <- listCutin,
  current <- listCurrent, count <- listCount, it <- listIt, next <- listNext, i <- listIndex,
  owner <- listOwner, gone <- listGone, asked <- listAsked, pc <- listPc, visits <- listVisits

-----------------------------------------------------------------------------
\* No pass of the scheduler stands on no node, no task is run that was removed, and no pointer
\* is left to it, whatever loops and callbacks add and remove.
NoStrayRun == Tasks!NeverLost /\ Tasks!NoStrayRun
=============================================================================
