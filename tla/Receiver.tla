------------------------------ MODULE Receiver ------------------------------
(* The serial receivers of a remote control (rc/pif_rc_sbus.c, _sumd, _ibus,     *)
(* _crsf and _spektrum): how each finds the frames in the bytes of a UART that   *)
(* loses, spoils and adds some, with a task that reads late, and how it tells    *)
(* that the link is lost.  A tick is a millisecond.                              *)
EXTENDS Integers, SequencesExt

CONSTANTS
  Protocol,    \* the receiver
  Frames,      \* the frames the transmitter sends
  Pause,       \* ticks it leaves between two frames
  Late,        \* ticks a byte waits at most for the task
  Queue,       \* bytes the receive buffer holds; the task keeps up with them
  MaxPeriod,   \* _max_frame_period, 0 for none
  Faults       \* bytes lost, spoilt or added

VARIABLES
  left,        \* bytes of the frame on its way that are to come
  frame,       \* that frame, <<>> once something has happened to it
  rest,        \* ticks since the transmitter was done with its last frame
  quiet,       \* ticks since something was on the line
  rx,          \* bytes in the receive buffer with the ticks each waits; the last one of a
               \* frame knows the frame
  buf,         \* the frame being received: __buffer up to __index
  since,       \* ticks since __last_time
  age,         \* ticks since _last_frame_time
  failsafe, good,
  run,         \* bytes read since the last one that ended a frame
  taken,       \* the frame the last byte read has handed out
  faults

line == <<left, frame, rest, quiet, faults>>
link == <<age, failsafe, good>>
vars == <<line, rx, buf, since, link, run, taken>>

(* The receivers: the values of the first bytes of a frame; the byte that tells  *)
(* its size and what the size has more; what is checked from which byte on; what *)
(* becomes of a wrong byte and of a bad frame; where the flags and the type are, *)
(* what the flags say; the frame handed out first; and the pause that ends a     *)
(* frame.                                                                        *)
Sbus ==
  [heads |-> <<{1}>>, at |-> 0, more |-> 4, check |-> "end", from |-> 1, wrong |-> "drop",
   bad |-> "resync", flags |-> 3, lost |-> {2}, safe |-> {3}, type |-> 0, first |-> 1, gap |-> 3]
Sumd ==
  [heads |-> <<{1}, {2, 3}, {1, 2}>>, at |-> 3, more |-> 4, check |-> "sum", from |-> 1,
   wrong |-> "drop", bad |-> "drop", flags |-> 2, lost |-> {}, safe |-> {3}, type |-> 0,
   first |-> 1, gap |-> 4]
Ibus ==
  [heads |-> <<{3, 4}>>, at |-> 1, more |-> 0, check |-> "sum", from |-> 1, wrong |-> "drop",
   bad |-> "drop", flags |-> 0, lost |-> {}, safe |-> {}, type |-> 0, first |-> 1, gap |-> 3]
Crsf ==
  [heads |-> <<{1}, {2, 3}>>, at |-> 2, more |-> 2, check |-> "sum", from |-> 3,
   wrong |-> "retry", bad |-> "drop", flags |-> 0, lost |-> {}, safe |-> {}, type |-> 3,
   first |-> 1, gap |-> 2]
Spektrum ==
  [heads |-> <<0..4, {2}>>, at |-> 0, more |-> 4, check |-> "none", from |-> 1,
   wrong |-> "retry", bad |-> "drop", flags |-> 0, lost |-> {}, safe |-> {}, type |-> 0,
   first |-> 2, gap |-> 5]
Receivers ==
  [sbus |-> Sbus, sumd |-> Sumd, ibus |-> Ibus, crsf |-> Crsf, spektrum |-> Spektrum]
P == Receivers[Protocol]

Byte == 0..4
Least(a, b) == IF a < b THEN a ELSE b

\* Where the clocks of the transmitter and the line stop.
Longest == IF MaxPeriod = 0 THEN Pause ELSE Pause + MaxPeriod + Late + P.gap + 1
Quiet == Pause + 1

Init ==
  /\ left = <<>> /\ frame = <<>> /\ faults = Faults
  /\ rest = Pause /\ quiet = Quiet
  /\ rx = <<>> /\ buf = <<>> /\ since = P.gap /\ run = 0 /\ taken = <<>>
  /\ age = 0 /\ good = 0 /\ failsafe = (P.flags > 0)

-----------------------------------------------------------------------------
(* The transmitter and the line.                                             *)

\* pifRcSbus_SendFrame() and the others; the frame is whole when it has its pause.
Start(f) ==
  /\ left = <<>> /\ rest >= Pause
  /\ left' = f /\ frame' = IF quiet >= Pause THEN f ELSE <<>>
  /\ UNCHANGED <<rest, quiet, faults, rx, buf, since, link, run, taken>>

Put(v, of) ==
  /\ Len(rx) < Queue
  /\ rx' = Append(rx, [v |-> v, of |-> of, wait |-> 0])
  /\ quiet' = 0
  /\ UNCHANGED <<buf, since, link, run, taken>>

Gone == left' = Tail(left) /\ rest' = IF Len(left) = 1 THEN 0 ELSE rest

Arrive ==
  /\ left # <<>>
  /\ Put(Head(left), IF Len(left) = 1 THEN frame ELSE <<>>) /\ Gone
  /\ UNCHANGED <<frame, faults>>

Fault == faults > 0 /\ faults' = faults - 1 /\ frame' = <<>>

Lose ==
  /\ left # <<>> /\ Fault /\ Gone /\ quiet' = 0
  /\ UNCHANGED <<rx, buf, since, link, run, taken>>

Spoil == left # <<>> /\ Fault /\ Gone /\ \E v \in Byte \ {Head(left)} : Put(v, <<>>)

Noise == Fault /\ (\E v \in Byte : Put(v, <<>>)) /\ UNCHANGED <<left, rest>>

\* The bytes of a frame come with less than two ticks between them.
Tick ==
  /\ left # <<>> => quiet = 0
  /\ \A k \in DOMAIN rx : rx[k].wait < Late
  /\ rx' = [k \in DOMAIN rx |-> [rx[k] EXCEPT !.wait = @ + 1]]
  /\ since' = Least(since + 1, P.gap)
  /\ rest' = IF left = <<>> THEN Least(rest + 1, Longest) ELSE rest
  /\ quiet' = Least(quiet + 1, Quiet)
  /\ age' = Least(age + 1, IF MaxPeriod > 0 THEN MaxPeriod + 1 ELSE 0)
  /\ UNCHANGED <<left, frame, faults, buf, failsafe, good, run, taken>>

-----------------------------------------------------------------------------
(* _evtParsing() and what it calls, for one byte.                            *)

\* Mutated Open: the time is not looked at.
OpenAnyhow == buf

\* A pause inside a frame means that the frame was cut.
Open == IF since >= P.gap THEN <<>> ELSE buf

IsWrong(w) == Len(w) <= Len(P.heads) /\ Last(w) \notin P.heads[Len(w)]
IsFull(w) == Len(w) >= P.at /\ Len(w) >= P.more + (IF P.at = 0 THEN 0 ELSE w[P.at])
IsGood(w) ==
  CASE P.check = "end" -> Last(w) = 0
    [] P.check = "sum" -> FoldLeft(LAMBDA sum, v : sum + v, 0, SubSeq(w, P.from, Len(w))) % 5 = 0
    [] OTHER -> TRUE
IsLost(w) == P.flags > 0 /\ w[P.flags] \in P.lost
HasChannels(w) == P.type = 0 \/ w[P.type] = 0

\* A byte that is wrong in its place may be the first of the next frame.
Restart(v) == IF P.wrong = "retry" /\ v \in P.heads[1] THEN <<v>> ELSE <<>>

\* _resync(): what is left from the next start byte on.
Resync(w) ==
  LET starts == {i \in 2..Len(w) : w[i] \in P.heads[1]}
  IN IF P.bad = "drop" \/ starts = {} THEN <<>>
     ELSE SubSeq(w, CHOOSE i \in starts : \A j \in starts : i <= j, Len(w))

\* A frame that passed its check.
Process(w) ==
  /\ buf' = <<>>
  /\ age' = IF HasChannels(w) THEN 0 ELSE age
  /\ failsafe' = (P.flags > 0 /\ w[P.flags] \in P.safe)
  /\ good' = IF IsLost(w) THEN good ELSE Least(good + 1, P.first)
  /\ taken' = IF IsLost(w) \/ good' < P.first THEN <<>> ELSE w
  /\ run' = 0

Collect(w) ==
  /\ buf' = IF IsWrong(w) THEN Restart(Last(w)) ELSE IF IsFull(w) THEN Resync(w) ELSE w
  /\ taken' = <<>> /\ run' = Least(run + 1, 6)
  /\ UNCHANGED link

Read ==
  /\ rx # <<>>
  /\ rx' = Tail(rx) /\ since' = 0
  /\ LET w == Append(Open, Head(rx).v)
     IN IF ~IsWrong(w) /\ IsFull(w) /\ IsGood(w) THEN Process(w) ELSE Collect(w)
  /\ UNCHANGED line

Next == (\E f \in Frames : Start(f)) \/ Arrive \/ Lose \/ Spoil \/ Noise \/ Tick \/ Read

Spec == Init /\ [][Next]_vars

-----------------------------------------------------------------------------
\* A frame as the protocol has them: full with its last byte, with no byte wrong in its place.
IsFrame(f) ==
  /\ f \in Seq(Byte) /\ f # <<>>
  /\ ~IsWrong(f) /\ IsFull(f) /\ IsGood(f)
  /\ \A n \in 1..Len(f) - 1 : ~IsWrong(SubSeq(f, 1, n)) /\ ~IsFull(SubSeq(f, 1, n))

\* The pause between two frames is one also to a task that reads late.
PauseIsSeen == Pause >= P.gap + Late

\* No wait within a frame is one.
ReadInTime == Late + 1 < P.gap

\* pifRc_CheckFailSafe().
CheckFailSafe == failsafe \/ (MaxPeriod > 0 /\ age > MaxPeriod)

\* Whatever was lost, spoilt or added before it, a frame that comes whole after its pause is
\* handed out when its last byte is read, but for one the transmitter has lost and for those that
\* come before the channels are all known.  Without a pause it is, unless the end of a frame was
\* seen in it.
WholeFrameTaken ==
  rx # <<>> /\ Len(rx') < Len(rx) =>
    LET of == Head(rx).of
    IN of # <<>> /\ (PauseIsSeen \/ run + 1 >= Len(of))
         => taken' = IF IsLost(of) \/ good' < P.first THEN <<>> ELSE of

\* The link counts as lost when no frame has come for the time, but for one that noise has
\* completed, and when the receiver says so.
FailsafeTold ==
  MaxPeriod > 0 /\ left = <<>> /\ rest > MaxPeriod + Late + P.gap => CheckFailSafe
=============================================================================
