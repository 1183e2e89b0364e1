------------------------------- MODULE Keypad -------------------------------
(* A key of a keypad (input/pif_keypad.c): what the scans see of it becomes presses, releases,     *)
(* long and double presses and repeats.  Time goes by between two scans, and more of it when the    *)
(* task is late; the key may be pressed and let go at any of them.                                   *)
EXTENDS Integers

CONSTANTS
  Hold, Double, Long, Delay, Period,   \* _hold_time1ms, _double_time1ms and so on
  MaxGap,      \* what passes between two scans, at most
  Oldest,      \* the bound on ages: a key held for longer is taken as held for this long
  Presses      \* the bound on the presses

VARIABLES
  doubles,                   \* whether evt_double_pressed is set
  state,                     \* "idle", "pressed", "hold", "released"
  pressed, short, double, long, count,   \* short_clicked, repeat_count and so on
  age, first,                \* the time since pressed_time and since first_time
  down, run,                 \* the last scan saw the key down, and for how long the scans did
  told,                      \* what the events since the last press amount to
  certain, possible, reported,    \* presses long enough for certain, and perhaps, and those told of
  presses

flags == <<pressed, short, double, long, count>>
vars == <<doubles, state, pressed, short, double, long, count, age, first, down, run, told, certain,
          possible, reported, presses>>

Capped(n) == IF n < Oldest THEN n ELSE Oldest
Gaps == 1..MaxGap

Init ==
  /\ doubles \in BOOLEAN
  /\ state = "idle" /\ pressed = FALSE /\ short = FALSE /\ double = FALSE /\ long = FALSE /\ count = 0
  /\ age = 0 /\ first = 0 /\ down = FALSE /\ run = 0
  /\ told = "rest" /\ certain = 0 /\ possible = 0 /\ reported = 0 /\ presses = 0

\* Who takes the events follows them: a press ends with its release or is a long one, repeats
\* belong to it, and a double press ends with its release.
Hears(heard, event) ==
  CASE event = "none" -> heard
    [] event = "P" /\ heard \in {"rest", "long"} -> "pressed"
    [] event = "D" /\ heard \in {"rest", "long"} -> "double"
    [] event = "R" /\ heard \in {"pressed", "double"} -> "rest"
    [] event = "L" /\ heard = "pressed" -> "long"
    [] event = "r" /\ heard \in {"pressed", "long"} -> heard
    [] OTHER -> "wrong"

\* A double press tells of two presses.
Worth(event) == CASE event = "P" -> 1 [] event = "D" -> 2 [] OTHER -> 0

\* A scan raises up to three events, in this order.
Raise(e1, e2, e3) ==
  /\ told' = Hears(Hears(Hears(told, e1), e2), e3)
  /\ reported' = reported + Worth(e1) + Worth(e2) + Worth(e3)
RaiseOne(event) == Raise(event, "none", "none")
Silent == UNCHANGED <<told, reported>>

-----------------------------------------------------------------------------
(* _checkKeyState(), g after the last one.                                   *)

\* KS_IDLE: a click that waits is told of when the window of a double press is over.
Idle(on, g) ==
  LET over == short /\ first + g >= Double
  IN /\ state = "idle" /\ Raise(IF over THEN "P" ELSE "none", IF over THEN "R" ELSE "none", "none")
     /\ short' = (short /\ ~over) /\ first' = Capped(first + g)
     /\ IF on
        THEN /\ state' = "pressed" /\ age' = 0 /\ pressed' = FALSE /\ long' = FALSE /\ count' = 0
             /\ UNCHANGED double
        ELSE UNCHANGED <<state, pressed, double, long, count>> /\ age' = Capped(age + g)

\* Mutated AfterNoise: the click that waits is forgotten.
AfterNoiseNone == FALSE

\* A press that was noise leaves the click that waits.
AfterNoise == short

\* KS_PRESSED: shorter than the hold time it was noise; a press that gets past it behind a click
\* makes a double press, if it began in time.
Pressed(on, g) ==
  LET second == doubles /\ short /\ first - age < Double
  IN /\ state = "pressed" /\ age' = Capped(age + g) /\ UNCHANGED <<pressed, long, count>>
     /\ CASE ~on ->
               /\ state' = "idle" /\ first' = Capped(first + g) /\ Silent
               /\ short' = AfterNoise /\ UNCHANGED double
          [] on /\ age + g < Hold ->
               first' = Capped(first + g) /\ Silent /\ UNCHANGED <<state, short, double>>
          [] OTHER ->
               /\ state' = "hold" /\ double' = second /\ RaiseOne(IF second THEN "D" ELSE "none")
               /\ short' = (short /\ ~second)
               /\ first' = Capped(IF doubles /\ ~second THEN age + g ELSE first + g)

\* KS_HOLD of a press that is not the second one: long press, press, and repeat, by its time.
Becomes(time) ==
  CASE time >= Long /\ ~long -> "L"
    [] time < Long /\ time >= Double /\ ~pressed -> "P"
    [] OTHER -> "none"
Clicked(time) == pressed \/ (time >= Double /\ time < Long)
Repeats(on, time) == on /\ time >= Delay + Period * count

Held(on, g) ==
  LET time == Capped(age + g)
      ends == ~on /\ ~Clicked(time)
      again == IF Repeats(on, time) THEN "r" ELSE "none"
      late == IF ends /\ ~doubles THEN "P" ELSE "none"
  IN /\ state = "hold" /\ ~double /\ age' = time /\ first' = Capped(first + g)
     /\ long' = (long \/ time >= Long) /\ pressed' = Clicked(time)
     /\ count' = IF Repeats(on, time) THEN count + 1 ELSE count
     /\ Raise(Becomes(time), again, late)
     /\ short' = (short \/ (ends /\ doubles)) /\ UNCHANGED double
     /\ state' = CASE on -> state [] ends /\ doubles -> "idle" [] OTHER -> "released"

\* KS_HOLD of the second press of a double press.
HeldTwice(on, g) ==
  /\ state = "hold" /\ double /\ state' = (IF on THEN state ELSE "released")
  /\ age' = Capped(age + g) /\ first' = Capped(first + g) /\ Silent /\ UNCHANGED flags

\* KS_RELEASED: the key is not looked at.
Released(on, g) ==
  /\ state = "released" /\ state' = "idle" /\ RaiseOne(IF long THEN "none" ELSE "R")
  /\ age' = Capped(age + g) /\ first' = Capped(first + g) /\ UNCHANGED flags

CheckKeyState(on, g) ==
  Idle(on, g) \/ Pressed(on, g) \/ Held(on, g) \/ HeldTwice(on, g) \/ Released(on, g)

\* The key as the scans see it: one that they see down for at least the hold time may count,
\* and certainly does when the scan behind its first one is not the one that ends another press.
Sampled(on, g) ==
  /\ down' = on
  /\ CASE on /\ ~down -> run' = 0 /\ presses' = presses + 1 /\ UNCHANGED <<certain, possible>>
       [] on /\ down -> run' = Capped(run + g) /\ UNCHANGED <<certain, possible, presses>>
       [] ~on /\ down ->
            /\ possible' = (IF run >= Hold THEN possible + 1 ELSE possible)
            /\ certain' = (IF run >= Hold + MaxGap THEN certain + 1 ELSE certain)
            /\ run' = 0 /\ UNCHANGED presses
       [] OTHER -> UNCHANGED <<run, certain, possible, presses>>

\* _doTask(), for the key.
Scan ==
  \E on \in BOOLEAN, g \in Gaps :
    /\ on /\ ~down => presses < Presses
    /\ CheckKeyState(on, g) /\ Sampled(on, g) /\ UNCHANGED doubles

Next == Scan
Spec == Init /\ [][Next]_vars

-----------------------------------------------------------------------------
(* What the module promises.                                                 *)

\* Every press that is told of ends, with a release or as a long one, a repeat has had its press
\* and a release its press, however presses and noise follow each other (pif_keypad.h:146).
EventsInOrder == told # "wrong"

\* Every press that lasts is told of, and once: when no click waits, as many presses were told of
\* as there were long enough, a double press being two.
EachPressOnce == state = "idle" /\ ~short => certain <= reported /\ reported <= possible

\* A click waits to be told of with its release, which comes "On release, unless
\* evt_long_pressed was raised" (pif_keypad.h:147).  Not checked by a run: a scan that comes late
\* finds the long press first and tells of the click after it.
ReleasedUnlessLong == ~(short /\ long)

-----------------------------------------------------------------------------
(* The inductive invariant these rest on.                                    *)

TypeOK ==
  /\ doubles \in BOOLEAN /\ pressed \in BOOLEAN /\ short \in BOOLEAN /\ double \in BOOLEAN
  /\ long \in BOOLEAN /\ down \in BOOLEAN /\ count \in Nat
  /\ state \in {"idle", "pressed", "hold", "released"}
  /\ age \in 0..Oldest /\ first \in 0..Oldest /\ run \in 0..Oldest
  /\ told \in {"rest", "pressed", "long", "double", "wrong"}
  /\ certain \in Nat /\ possible \in Nat /\ reported \in Nat

\* The driver has known of a press for as long as the scans saw it, but for the gap behind the
\* scan that ended the press before; and nothing is left of a press that is over.
Known(state0, down0, run0, age0) ==
  CASE state0 = "idle" -> run0 = 0
    [] state0 = "pressed" -> down0 /\ age0 < Hold /\ age0 <= run0 /\ run0 <= age0 + MaxGap
    [] state0 = "hold" -> down0 /\ run0 >= Hold
    [] state0 = "released" -> ~down0 /\ run0 = 0

\* A click waits in its window for a second press, of which nothing was told.
Waiting(state0, doubles0, short0, pressed0, long0, double0, age0, first0) ==
  /\ short0 => doubles0 /\ state0 \in {"idle", "pressed"}
  /\ state0 = "pressed" => ~pressed0 /\ ~long0 /\ (short0 => first0 - age0 < Double)
  /\ state0 = "hold" /\ double0 => ~pressed0 /\ ~long0

\* What was told of, less the press that is held and with the click that waits, is between the
\* presses that certainly count and those that may.
Owed(short0) == IF short0 THEN 1 ELSE 0
Ahead(state0, pressed0, double0) == IF state0 = "hold" /\ (pressed0 \/ double0) THEN 1 ELSE 0
Balanced(ahead, owed, certain0, possible0, reported0) ==
  certain0 + ahead <= reported0 + owed /\ reported0 + owed <= possible0 + ahead

Told ==
  /\ Known(state, down, run, age)
  /\ Waiting(state, doubles, short, pressed, long, double, age, first)
  /\ Balanced(Ahead(state, pressed, double), Owed(short), certain, possible, reported)

\* What was told of a press is what the driver knows of it, and while it has told of nothing
\* there is a scan left before the press is a long one.
Heard(state0, pressed0, long0, double0, age0, told0) ==
  CASE state0 \in {"idle", "pressed"} -> told0 \in {"rest", "long"}
    [] state0 = "hold" /\ double0 -> told0 = "double"
    [] state0 = "hold" /\ ~double0 /\ long0 -> pressed0 /\ told0 = "long"
    [] state0 = "hold" /\ ~double0 /\ ~long0 /\ pressed0 -> told0 = "pressed"
    [] state0 = "hold" /\ ~double0 /\ ~long0 /\ ~pressed0 ->
         told0 \in {"rest", "long"} /\ age0 + MaxGap < Long
    [] state0 = "released" -> told0 \in IF long0 THEN {"long"} ELSE {"pressed", "double"}

Inv == TypeOK /\ Told
InOrder == Inv /\ Heard(state, pressed, long, double, age, told)
=============================================================================
