------------------------------- MODULE Pulse -------------------------------
(* Pulse measurement (sensor/pif_pulse.c): an interrupt records the edges of a signal in a small *)
(* ring, and a task reads two of its slots one field at a time and takes them again when the     *)
(* sequence number tells of an edge in between.  The time of an edge is its number.  The number  *)
(* wraps; fewer edges than it has values come while the fields are read once.                    *)
EXTENDS Integers, Sequences

CONSTANTS
  Size,        \* PIF_PULSE_DATA_SIZE, a power of 2
  Wraps,       \* the numbers __seq has, 256 of a uint8_t
  Edges,       \* the bound on the edges of the signal
  Resets,      \* the bound on the resets
  Values       \* what is measured: "period", "average", "low", "high"

VARIABLES
  rising, falling,      \* __data: the edges of each slot, 0 for none
  ptr, last, count,     \* __ptr, __last_ptr and __count
  pending, has_rising,  \* __rising_pending and __last_has_rising
  seq,                  \* __seq, before it wraps
  time,                 \* the edges of the signal so far
  gap,                  \* the edge before which __timeout passed last, or the measurements were reset
  resets,
  value, pc, read       \* the task: what it measures, the access that is next, and what it has
                        \* read; a reset counts down from 0

interrupt == <<rising, falling, ptr, last, count, pending, has_rising, seq, time, gap>>
vars == <<interrupt, resets, value, pc, read>>

Slot == 0..Size - 1
NotRead == [before |-> 0, seq |-> 0, count |-> 0, last |-> 0, rising |-> 0, falling |-> 0,
            other |-> 0, has |-> 0]
Taken == 100

Init ==
  /\ rising = [s \in Slot |-> 0] /\ falling = [s \in Slot |-> 0]
  /\ ptr = 0 /\ last = 0 /\ count = 0 /\ pending = FALSE /\ has_rising = FALSE
  /\ seq = 0 /\ time = 0 /\ gap = 0 /\ resets = 0
  /\ value = "none" /\ pc = 0 /\ read = NotRead

\* The accesses of _readEdges(), in their order.
Order == <<"seq", "count", "last", "rising", "falling", "other", "has">>

-----------------------------------------------------------------------------
(* The interrupt: pifPulse_sigEdge().                                        *)

\* The named bound: an edge does not come when the sequence number would be the same again.
InTime == pc \in 2..Len(Order) + 1 => seq + 1 < read.seq + Wraps

Rising ==
  /\ time < Edges /\ InTime
  /\ time' = time + 1
  /\ rising' = [rising EXCEPT ![ptr] = time + 1]
  /\ pending' = TRUE
  /\ seq' = seq + 1
  /\ UNCHANGED <<falling, ptr, last, count, has_rising, gap, resets, value, pc, read>>

\* A falling edge, later than __timeout after the one before it or not.
Falling(late) ==
  /\ time < Edges /\ InTime
  /\ time' = time + 1
  /\ gap' = IF late /\ count > 0 THEN time + 1 ELSE gap
  /\ falling' = [falling EXCEPT ![ptr] = time + 1]
  /\ has_rising' = pending /\ pending' = FALSE
  /\ last' = ptr /\ ptr' = (ptr + 1) % Size
  /\ count' = IF late THEN 1 ELSE IF count < Size THEN count + 1 ELSE Size
  /\ seq' = seq + 1
  /\ UNCHANGED <<rising, resets, value, pc, read>>

-----------------------------------------------------------------------------
(* The task: a measurement, one access after the other.                      *)

\* How many slots back the other edge is: for the average, from the count read before the others.
Back == IF value = "average" THEN read.before - 1 ELSE 1

\* What each access finds.
Found(field) ==
  CASE field = "seq"     -> seq
    [] field = "count"   -> count
    [] field = "last"    -> last
    [] field = "rising"  -> rising[read.last]
    [] field = "falling" -> falling[read.last]
    [] field = "other"   -> falling[(read.last + Size - Back) % Size]
    [] field = "has"     -> IF has_rising THEN 1 ELSE 0

Idle == pc' = 0 /\ value' = "none" /\ read' = NotRead

\* _readEdges() from its first access; the average takes the count before, by itself.
Begin(v) ==
  IF v = "average" /\ count < 2 THEN Idle
  ELSE pc' = 1 /\ value' = v /\ read' = [NotRead EXCEPT !.before = count]

Start(v) == pc = 0 /\ Begin(v) /\ UNCHANGED <<interrupt, resets>>

Read ==
  /\ pc \in DOMAIN Order
  /\ read' = [read EXCEPT ![Order[pc]] = Found(Order[pc])]
  /\ pc' = pc + 1
  /\ UNCHANGED <<interrupt, resets, value>>

Enough ==
  /\ read.count >= IF value = "high" THEN 1 ELSE 2
  /\ value \in {"low", "high"} => read.has = 1

\* What the code compares of the sequence numbers.
Disturbed == seq % Wraps # read.seq % Wraps

\* Mutated Check: an average keeps the count it worked the slot out from.
CheckOnce ==
  /\ pc = Len(Order) + 1
  /\ CASE Disturbed -> pc' = 1 /\ read' = [NotRead EXCEPT !.before = read.before] /\ UNCHANGED value
       [] ~Disturbed /\ Enough -> pc' = Taken /\ UNCHANGED <<read, value>>
       [] OTHER -> Idle
  /\ UNCHANGED <<interrupt, resets>>

\* An edge in between, or for the average a count other than the one before, begins it anew.
Check ==
  /\ pc = Len(Order) + 1
  /\ CASE Disturbed ->
            pc' = 1 /\ read' = [NotRead EXCEPT !.before = read.before] /\ UNCHANGED value
       [] ~Disturbed /\ value = "average" /\ read.count # read.before -> Begin(value)
       [] ~Disturbed /\ Enough /\ (value = "average" => read.count = read.before) ->
            pc' = Taken /\ UNCHANGED <<read, value>>
       [] OTHER -> Idle
  /\ UNCHANGED <<interrupt, resets>>

Done == pc = Taken /\ Idle /\ UNCHANGED <<interrupt, resets>>

\* pifPulse_ResetMeasureValue(), in the order of its assignments.
Reset ==
  /\ pc \in {0, -1, -2, -3, -4, -5} /\ (pc = 0 => resets < Resets)
  /\ pc' = (IF pc = -5 THEN 0 ELSE pc - 1)
  /\ resets' = IF pc = 0 THEN resets + 1 ELSE resets
  /\ IF pc = 0 THEN rising' = [s \in Slot |-> 0] /\ falling' = [s \in Slot |-> 0]
     ELSE UNCHANGED <<rising, falling>>
  /\ ptr'        = IF pc = -1 THEN 0 ELSE ptr
  /\ last'       = IF pc = -2 THEN 0 ELSE last
  /\ count'      = IF pc = -3 THEN 0 ELSE count
  /\ pending'    = (pending /\ pc # -4)
  /\ has_rising' = (has_rising /\ pc # -5)
  /\ seq'        = IF pc = -5 THEN seq + 1 ELSE seq
  /\ gap'        = IF pc = -3 THEN time + 1 ELSE gap
  /\ UNCHANGED <<time, value, read>>

Next ==
  \/ Rising \/ (\E late \in BOOLEAN : Falling(late))
  \/ (\E v \in Values : Start(v)) \/ Read \/ Check \/ Done \/ Reset

Spec == Init /\ [][Next]_vars

-----------------------------------------------------------------------------
(* What the module promises.                                                 *)

\* What a measurement returns is about edges of one signal: it was read as a whole, whatever
\* edges the interrupt took in between, and no edge is from before a timeout or a reset that
\* came before it.  The width of a low or a high lies between edges that follow each other.
Consistent ==
  pc = Taken =>
    /\ value # "high" => read.other < read.falling /\ ~(read.other < gap /\ gap <= read.falling)
    /\ value = "low"  => read.rising > read.other /\ read.rising < read.falling
    /\ value = "high" => read.rising < read.falling /\ read.rising > 0
    /\ value = "period" =>
         ~ \E s \in Slot : falling[s] > read.other /\ falling[s] < read.falling

-----------------------------------------------------------------------------
(* The inductive invariant this rests on.                                    *)

TypeOK ==
  /\ rising \in [Slot -> Nat] /\ falling \in [Slot -> Nat]
  /\ ptr \in Slot /\ last \in Slot /\ count \in 0..Size
  /\ pending \in BOOLEAN /\ has_rising \in BOOLEAN
  /\ seq \in Nat /\ time \in Nat /\ gap \in Nat
  /\ value \in {"none"} \cup Values /\ pc \in -5..Len(Order) + 1 \cup {Taken}
  /\ read \in [before : 0..Size, seq : Nat, count : 0..Size, last : Slot, rising : Nat,
               falling : Nat, other : Nat, has : {0, 1}]

\* What the slots hold is past.
Past ==
  /\ gap <= time + 1
  /\ \A s \in Slot : rising[s] <= time /\ falling[s] <= time

\* The slot j falling edges before the last one.
Ago(j) == (last + Size - j) % Size

\* As many slots as are counted, up to the last one, hold the falling edges of one signal in
\* their order, and no slot holds a later one.
Counted ==
  pc \notin -3..-1 /\ count > 0 =>
    /\ ptr = (last + 1) % Size
    /\ \A j \in 0..count - 1 : gap <= falling[Ago(j)]
    /\ \A i, j \in 0..count - 1 : i < j => falling[Ago(j)] < falling[Ago(i)]
    /\ \A s \in Slot : falling[s] <= falling[last]
    /\ count > 1 => \A s \in Slot \ {last} : falling[s] <= falling[Ago(1)]

\* A rising edge that is pending came after the last falling edge.
Risen ==
  pc \notin -4..-1 /\ pending =>
    0 < rising[ptr] /\ (count > 0 => falling[last] < rising[ptr])

\* The rising edge of the last slot lies between its falling edge and the one before.
Between ==
  pc \notin -5..-1 /\ has_rising =>
    /\ count > 0 /\ 0 < rising[last] /\ rising[last] < falling[last]
    /\ count > 1 => falling[Ago(1)] < rising[last]

\* A measurement is of something, and an average reaches back over the edges it counted.
Measuring ==
  pc > 0 => value \in Values /\ (value = "average" => read.before > 1)

\* While the sequence number stands, what was read is what is there.
AsRead ==
  pc \in 2..Len(Order) + 1 =>
    /\ read.seq <= seq /\ seq < read.seq + Wraps
    /\ read.seq = seq =>
         /\ pc > 2 => read.count = count
         /\ pc > 3 => read.last = last
         /\ pc > 4 => read.rising = rising[last]
         /\ pc > 5 => read.falling = falling[last]
         /\ pc > 6 => read.other = falling[(last + Size - Back) % Size]
         /\ pc > 7 => read.has = IF has_rising THEN 1 ELSE 0

TakenIsPast == pc = Taken => read.falling <= time

Inv ==
  /\ TypeOK /\ Past /\ Counted /\ Risen /\ Between /\ Measuring /\ AsRead
  /\ TakenIsPast /\ Consistent

=============================================================================
