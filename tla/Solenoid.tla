------------------------------ MODULE Solenoid ------------------------------
(* Timed pulses and delayed commands of solenoids (actuator/pif_solenoid.c): the  *)
(* deadlines of all channels share the one trigger of one task, which runs up to  *)
(* Late ticks after its trigger is due.  A deadline is what is left till it, less *)
(* than 0 once it has passed.  The other context is locked out (act_lock).        *)
EXTENDS Integers, Sequences, FiniteSetsExt

CONSTANTS
  Size,        \* Size[c]: commands the buffer of channel c holds, 0 for no buffer
  OnTime,      \* on_time of the channels
  Delays,      \* delays of a command
  Dirs,        \* directions of a command
  TwoPoint,    \* the type is ST_2POINT, which skips a command in the current direction
  Late,        \* the bound on how late the task runs
  Never        \* more than a delay or an on_time can be

VARIABLES
  state, dir,  \* __state and __current_dir of each channel
  end,         \* __on_end while __on_pending, else Never
  wait,        \* the delayed command: __delay_end, __dir and when it was asked for, or NoCommand
  queue,       \* __p_buffer: delays from the command before, and when each was asked for
  trigger      \* what is left till the task's trigger, or Never

Channel == DOMAIN Size
NoDir == "none"
NoCommand == [left |-> Never, dir |-> NoDir, due |-> Never]
vars == <<state, dir, end, wait, queue, trigger>>

Init ==
  /\ state = [c \in Channel |-> FALSE] /\ dir = [c \in Channel |-> NoDir]
  /\ end = [c \in Channel |-> Never] /\ wait = [c \in Channel |-> NoCommand]
  /\ queue = [c \in Channel |-> <<>>] /\ trigger = Never

Remain(t) == IF t > 0 THEN t ELSE 0

\* Mutated Schedule: a trigger that is pending is kept.
ScheduleOnce ==
  LET first == Min({end'[c] : c \in Channel} \cup {wait'[c].left : c \in Channel})
  IN trigger' = IF first = Never \/ trigger # Never THEN trigger ELSE Remain(first)

\* _schedule(): the task is triggered at the earliest deadline of all channels.  A trigger that
\* is due and set again for now has waited as long as before.
Schedule ==
  LET first == Min({end'[c] : c \in Channel} \cup {wait'[c].left : c \in Channel})
  IN trigger' = CASE first = Never -> trigger
                  [] first <= 0    -> Min({trigger, 0})
                  [] OTHER         -> first

\* _checkOff() on what a channel drives: a pulse that is over ends.
CheckedOff(s) ==
  IF s.end <= 0 THEN [state |-> FALSE, dir |-> s.dir, end |-> Never] ELSE s

\* _switchOn() on what a channel drives.
SwitchedOn(s, d) ==
  IF TwoPoint /\ d = s.dir THEN s
  ELSE [state |-> TRUE, dir |-> d, end |-> IF OnTime = 0 THEN Never ELSE OnTime]

Drive(c) == [state |-> state[c], dir |-> dir[c], end |-> end[c]]
SetDrive(drives) ==
  /\ state' = [c \in Channel |-> drives[c].state]
  /\ dir' = [c \in Channel |-> drives[c].dir]
  /\ end' = [c \in Channel |-> drives[c].end]

-----------------------------------------------------------------------------
(* The task.                                                                 *)

\* What is left till each queued command: its delay counts from the one before it.
Deadlines(left, commands) ==
  LET at[k \in 0..Len(commands)] ==
        IF k = 0 THEN left ELSE at[k - 1] + commands[k].delay
  IN at
Deadline(c) == Deadlines(wait[c].left, queue[c])

\* How many of the delayed and then the queued commands are due: those before the first that
\* is not.
Ready(c) ==
  CHOOSE n \in 0..Len(queue[c]) + 1 :
    /\ \A k \in 0..n - 1 : Deadline(c)[k] <= 0
    /\ n <= Len(queue[c]) => Deadline(c)[n] > 0

\* The commands still to run, the delayed one first.
Commands(c) == <<wait[c]>> \o queue[c]

\* The queued command that waits next.
Rest(c) ==
  LET next == Commands(c)[Ready(c) + 1]
  IN IF Ready(c) > Len(queue[c]) THEN NoCommand
     ELSE [left |-> Deadline(c)[Ready(c)], dir |-> next.dir, due |-> next.due]

\* What a channel drives once the first n of the commands have run, one after the other.
Driven(s, commands, n) ==
  LET after[k \in 0..n] ==
        IF k = 0 THEN s ELSE SwitchedOn(after[k - 1], commands[k].dir)
  IN after[n]

\* _processChannel(): the pulse that ended, then the commands that are due.
Processed(c) == Driven(CheckedOff(Drive(c)), Commands(c), Ready(c))

\* _doTask(): every channel, then the next trigger.
DoTask ==
  /\ trigger <= 0
  /\ SetDrive([c \in Channel |-> Processed(c)])
  /\ wait' = [c \in Channel |-> IF Ready(c) = 0 THEN wait[c] ELSE Rest(c)]
  /\ queue' = [c \in Channel |->
       IF Ready(c) = 0 THEN queue[c] ELSE SubSeq(queue[c], Ready(c) + 1, Len(queue[c]))]
  /\ LET first == Min({end'[c] : c \in Channel} \cup {wait'[c].left : c \in Channel})
     IN trigger' = IF first = Never THEN Never ELSE Remain(first)

-----------------------------------------------------------------------------
(* The commands.                                                             *)

\* _calcurateTime(), and what a delay leaves of it for the queue.
Behind(c, delay) ==
  LET time == Remain(wait[c].left) + Deadline(c)[Len(queue[c])] - wait[c].left
  IN IF delay > time THEN delay - time ELSE 0

\* pifSolenoid_ActionOnDir() while a delayed command is pending and there is a buffer.
Enqueue(c, delay, d) ==
  /\ Size[c] > 0 /\ wait[c] # NoCommand /\ Len(queue[c]) < Size[c]
  /\ queue' = [queue EXCEPT ![c] =
       Append(@, [delay |-> Behind(c, delay), dir |-> d, due |-> delay])]
  /\ UNCHANGED <<state, dir, end, wait, trigger>>

\* pifSolenoid_ActionOnDir() otherwise: a delay, or the pulse at once.
ActionOnDir(c, delay, d) ==
  /\ Size[c] = 0 \/ wait[c] = NoCommand
  /\ IF delay > 0
     THEN /\ wait' = [wait EXCEPT ![c] = [left |-> delay, dir |-> d, due |-> delay]]
          /\ UNCHANGED <<state, dir, end>>
     ELSE /\ SetDrive([k \in Channel |-> IF k = c THEN SwitchedOn(Drive(c), d) ELSE Drive(k)])
          /\ UNCHANGED wait
  /\ Schedule
  /\ UNCHANGED queue

\* pifSolenoid_ActionOff(): nothing is left to switch the channel on again.
ActionOff(c) ==
  /\ wait' = [wait EXCEPT ![c] = NoCommand]
  /\ queue' = [queue EXCEPT ![c] = <<>>]
  /\ end' = [end EXCEPT ![c] = Never]
  /\ state' = [state EXCEPT ![c] = FALSE]
  /\ UNCHANGED <<dir, trigger>>

\* pifSolenoid_SetInvalidDirection().
SetInvalidDirection(c) ==
  /\ dir' = [dir EXCEPT ![c] = NoDir]
  /\ UNCHANGED <<state, end, wait, queue, trigger>>

\* A millisecond passes; the scheduler runs the task at most Late of them after its trigger.
Tick ==
  /\ trigger > -Late
  /\ LET Less(t) == IF t = Never THEN Never ELSE t - 1
     IN /\ end' = [c \in Channel |-> Less(end[c])]
        /\ wait' = [c \in Channel |->
             [wait[c] EXCEPT !.left = Less(@), !.due = Less(@)]]
        /\ queue' = [c \in Channel |->
             [k \in DOMAIN queue[c] |-> [queue[c][k] EXCEPT !.due = @ - 1]]]
        /\ trigger' = Less(trigger)
  /\ UNCHANGED <<state, dir>>

Next ==
  \/ DoTask \/ Tick
  \/ \E c \in Channel :
       \/ \E delay \in Delays, d \in Dirs : Enqueue(c, delay, d) \/ ActionOnDir(c, delay, d)
       \/ ActionOff(c) \/ SetInvalidDirection(c)

Spec == Init /\ [][Next]_vars

-----------------------------------------------------------------------------
(* What the module promises.                                                 *)

\* The one trigger serves every channel: no pulse and no delayed command, of any channel and
\* after any order of commands, is past its end by more than the task's lateness.
NeverLate == \A c \in Channel : end[c] >= -Late /\ wait[c].left >= -Late

\* A queued command always has a delayed one before it: nothing else takes it from the queue,
\* and a command switched off with ActionOff() never comes back.
QueueBehindDelay == \A c \in Channel : queue[c] # <<>> => wait[c] # NoCommand

\* However late the task ran before and however the queue was filled, each command waits for
\* the moment it was asked for: not for longer, unless a command before it has to run first,
\* and for no less than the lateness of the one before it.
AsAsked ==
  \A c \in Channel : wait[c] # NoCommand =>
    \A k \in 0..Len(queue[c]) :
      /\ Deadline(c)[k] >= Commands(c)[k + 1].due - Late
      /\ \E j \in 0..k : Deadline(c)[k] <= Commands(c)[j + 1].due

-----------------------------------------------------------------------------
(* The inductive invariant these rest on.                                    *)

Directions == Dirs \cup {NoDir}

TypeOK ==
  /\ state \in [Channel -> BOOLEAN] /\ dir \in [Channel -> Directions]
  /\ end \in [Channel -> Int]
  /\ wait \in [Channel -> [left : Int, dir : Directions, due : Int]]
  /\ queue \in [Channel -> Seq([delay : Nat, dir : Dirs, due : Int])]
  /\ \A c \in Channel : Len(queue[c]) <= Size[c]
  /\ trigger \in Int

\* The trigger is no later than any deadline, and the task has not let it wait for too long.
Served ==
  trigger >= -Late /\ \A c \in Channel : trigger <= end[c] /\ trigger <= wait[c].left

\* What is timed is less than Never.
Timed ==
  \A c \in Channel :
    /\ end[c] <= Never
    /\ wait[c] = NoCommand \/ (wait[c].left < Never /\ wait[c].due < Never)
    /\ \A k \in 1..Len(queue[c]) : queue[c][k].due < Never

\* A command runs no earlier than it was asked for, but for the lateness of the one before it,
\* and no later, unless it runs together with the one before it.
Asked ==
  \A c \in Channel : wait[c] # NoCommand =>
    \A k \in 0..Len(queue[c]) :
      /\ Deadline(c)[k] >= Commands(c)[k + 1].due - Late
      /\ Deadline(c)[k] <= Commands(c)[k + 1].due \/ (k > 0 /\ queue[c][k].delay = 0)

Inv == TypeOK /\ Served /\ Timed /\ QueueBehindDelay /\ Asked

=============================================================================
