--------------------------- MODULE CollectSignal ---------------------------
(* The capture of signals (monitor/pif_collect_signal.c): changes of channels are recorded, in a   *)
(* buffer of records or as lines of the log at once, and printed as a VCD dump by a task whose     *)
(* lines the log may refuse.  A reader follows the dump: what it makes of a channel at a time is    *)
(* compared with what the channel was.                                                             *)
EXTENDS Integers, Sequences, SequencesExt

CONSTANTS
  Channels,    \* the channels, as numbers
  Records,     \* records the buffer holds
  Text,        \* the most lines of a pass of the transfer task
  MaxTime,     \* the bound on the length of a capture
  Puts,        \* the bound on the changes of a capture
  Starts,      \* the bound on the captures
  Refusals,    \* the bound on the lines the log refuses
  Changes,     \* the bound on channels removed
  Settings,    \* the methods and overflows, as pairs
  Switches     \* they may be changed between captures

VARIABLES
  method, overflow,           \* CSM_LOG or CSM_BUFFER, CSO_KEEP_FIRST or CSO_KEEP_LAST
  step, list, state, index,   \* p_head, and of a channel __state and __index
  value, start,               \* _value and __start_value
  buffer, now, base, drops,   \* the records, the time of the capture, base_time and drop_count
  stage, cursor, retry, last, \* of the transfer: position in the header, p_cursor, retry, last_time
  held,                       \* the log holds its other lines back
  puts, starts, refusals, changes,
  truth,                      \* what each channel was at each time of the capture
  cut,                        \* from here on the capture misses changes
  ended,                      \* when the capture ended that is to be printed, or never
  reader                      \* what a reader makes of the dump

vars == <<method, overflow, step, list, state, index, value, start, buffer, now, base, drops, stage,
          cursor, retry, last, held, puts, starts, refusals, changes, truth, cut, ended, reader>>
setting == <<method, overflow>>
channels == <<list, state, index>>
capture == <<start, buffer, base, drops, cut>>
transfer == <<stage, cursor, retry, last>>
bounds == <<puts, starts, refusals, changes>>

None == 0
EndIndex == -1
Never == MaxTime + 1
Times == 0..MaxTime
Captured(c) == state[c] = "capture"

-----------------------------------------------------------------------------
(* The reader of a dump.                                                     *)

\* It knows no time, no channel and no value.
Blank == [time |-> 0, vars |-> {}, values |-> [c \in Channels |-> None],
          shown |-> [c \in Channels |-> [t \in Times |-> None]], ordered |-> TRUE]

\* It reads a line: values hold until the next time.
Read(rd, line) ==
  CASE line.kind = "var" -> [rd EXCEPT !.vars = @ \cup {line.of}]
    [] line.kind = "base" -> [rd EXCEPT !.time = line.at]
    [] line.kind = "value" -> [rd EXCEPT !.values[line.of] = line.at]
    [] line.kind = "time" ->
         [rd EXCEPT !.time = line.at, !.ordered = @ /\ line.at > rd.time,
            !.shown = [c \in Channels |-> [t \in Times |->
              IF t \in rd.time..(line.at - 1) THEN rd.values[c] ELSE rd.shown[c][t]]]]
    [] OTHER -> rd
RECURSIVE ReadAll(_, _)
ReadAll(rd, lines) == IF lines = <<>> THEN rd ELSE ReadAll(Read(rd, Head(lines)), Tail(lines))
Line(kind, of, at) == [kind |-> kind, of |-> of, at |-> at]

-----------------------------------------------------------------------------
(* Formatting.  A pass carries its position, its lines and the records used.  *)

Stages == <<"title", "var", "base", "value", "end", "done">>
After(s) == Stages[CHOOSE i \in 2..6 : Stages[i - 1] = s]
HeadOf(l) == IF l = <<>> THEN None ELSE l[1]

\* __p_next
NextOf(c) == LET i == CHOOSE i \in 1..Len(list) : list[i] = c
             IN IF i = Len(list) THEN None ELSE list[i + 1]

\* _nextCapture()
NextCapture(c) ==
  LET from == IF c = None THEN {} ELSE {i \in 1..Len(list) : list[i] = c}
      found == {i \in 1..Len(list) : Captured(list[i]) /\ \E j \in from : i >= j}
  IN IF found = {} THEN None ELSE list[CHOOSE i \in found : \A j \in found : i <= j]

\* _findCapture()
FindCapture(i) == {c \in Channels : Captured(c) /\ index[c] = i}

\* _formatHeader(), a line of a channel or the end of the stage.
FormatHeader(p) ==
  LET c == NextCapture(p.cursor)
      line == CASE p.stage = "var" -> <<Line("var", c, 0)>>
                [] p.stage = "value" -> <<Line("value", c, start[c])>>
                [] p.stage = "base" -> <<Line("base", None, base)>>
                [] OTHER -> <<Line("text", None, 0)>>
  IN IF p.stage \in {"var", "value"} /\ c = None
     THEN [p EXCEPT !.stage = After(@), !.cursor = HeadOf(list)]
     ELSE [p EXCEPT !.lines = @ \o line, !.units = @ + 1,
             !.stage = IF p.stage \in {"var", "value"} THEN @ ELSE After(@),
             !.cursor = IF p.stage \in {"var", "value"} THEN NextOf(c) ELSE HeadOf(list)]

\* _formatTime()
FormatTime(time, lastTime) == IF time = lastTime THEN <<>> ELSE <<Line("time", None, time)>>

\* _formatRecord(): changes of a channel that was removed are left out.
FormatRecord(p) ==
  LET r == buffer[p.used + 1]
      of == FindCapture(r.index)
      lines == FormatTime(r.time, p.last)
               \o (IF of = {} THEN <<>> ELSE <<Line("value", CHOOSE c \in of : TRUE, r.value)>>)
  IN [p EXCEPT !.used = @ + 1, !.last = r.time, !.lines = @ \o lines,
        !.units = IF lines = <<>> THEN @ ELSE @ + 1]

\* The lines of a pass, n of them if there are so many.
RECURSIVE Formatted(_, _)
Formatted(p, n) ==
  CASE p.units < n /\ p.stage # "done" -> Formatted(FormatHeader(p), n)
    [] p.units < n /\ p.stage = "done" /\ p.used < Len(buffer) -> Formatted(FormatRecord(p), n)
    [] OTHER -> p
Here == [stage |-> stage, cursor |-> cursor, used |-> 0, last |-> last, lines |-> <<>>, units |-> 0]

-----------------------------------------------------------------------------
(* Recording.                                                                *)

Init ==
  /\ \E s \in Settings : method = s[1] /\ overflow = s[2]
  /\ step = "idle"
  /\ list = SetToSeq(Channels) /\ state = [c \in Channels |-> "attached"]
  /\ index = [c \in Channels |-> 0]
  /\ value = [c \in Channels |-> 1] /\ start = value
  /\ buffer = <<>> /\ now = 0 /\ base = 0 /\ drops = 0
  /\ stage = "title" /\ cursor = None /\ retry = FALSE /\ last = 0 /\ held = FALSE
  /\ puts = 0 /\ starts = 0 /\ refusals = 0 /\ changes = 0
  /\ truth = [c \in Channels |-> [t \in Times |-> 1]] /\ cut = Never /\ ended = Never
  /\ reader = Blank

\* pifCollectSignal_ChangeMethod() and pifCollectSignal_ChangeOverflow()
Change ==
  /\ Switches /\ step = "idle" /\ \E s \in Settings : method' = s[1] /\ overflow' = s[2]
  /\ UNCHANGED <<step, channels, value, capture, now, transfer, held, bounds, truth, ended, reader>>

\* pifLog_Print() of lines, which are refused as a whole.  With them the time they begin with is
\* lost, so that the next change of this time stands under an earlier one.
Logs(lines) ==
  \/ reader' = ReadAll(reader, lines) /\ UNCHANGED <<cut, refusals>>
  \/ /\ lines # <<>> /\ refusals < Refusals /\ refusals' = refusals + 1
     /\ cut' = 0 /\ UNCHANGED reader

\* The header of CSM_LOG, printed at once.  The log may refuse any line of it and nobody asks: the
\* reader does not know a channel whose line is lost, or not what it was at first.
PrintHeader ==
  \E known, valued \in SUBSET ToSet(list) :
    LET lost == 2 * Len(list) - Cardinality(known) - Cardinality(valued)
    IN /\ refusals + lost <= Refusals /\ refusals' = refusals + lost
       /\ cut' = IF valued = ToSet(list) THEN Never ELSE 0
       /\ reader' = [Blank EXCEPT !.vars = known,
            !.values = [c \in Channels |-> IF c \in valued THEN value[c] ELSE None]]

\* pifCollectSignal_Start(): the channels there are, with the values they have.
Start ==
  /\ step = "idle" /\ starts < Starts /\ starts' = starts + 1 /\ step' = "collect"
  /\ state' = [c \in Channels |-> IF c \in ToSet(list) THEN "capture" ELSE state[c]]
  /\ index' = [c \in Channels |->
       IF c \in ToSet(list) THEN (CHOOSE i \in 1..Len(list) : list[i] = c) - 1 ELSE index[c]]
  /\ start' = [c \in Channels |-> IF c \in ToSet(list) THEN value[c] ELSE start[c]]
  /\ drops' = 0 /\ base' = 0 /\ last' = 0 /\ now' = 0 /\ puts' = 0
  /\ truth' = [c \in Channels |-> [t \in Times |-> value[c]]] /\ ended' = Never
  /\ IF method = "log"
     THEN PrintHeader /\ held' = TRUE /\ UNCHANGED buffer
     ELSE buffer' = <<>> /\ reader' = Blank /\ cut' = Never /\ UNCHANGED <<held, refusals>>
  /\ UNCHANGED <<setting, list, value, stage, cursor, retry, changes>>

\* _dropOldest(): what the record says becomes the initial value of its channel.
DropOldest(rec) ==
  start' = [c \in Channels |-> IF c \in FindCapture(rec.index) THEN rec.value ELSE start[c]]

\* _putRecord() that fits.
Stored(i, v) ==
  /\ Len(buffer) < Records
  /\ overflow = "first" /\ i # EndIndex => Len(buffer) < Records - 1
  /\ buffer' = Append(buffer, [time |-> now, index |-> i, value |-> v])
  /\ UNCHANGED <<start, base, drops, cut>>

\* CSO_KEEP_LAST gives the oldest record up.
InPlace(i, v) ==
  /\ overflow = "last" /\ Len(buffer) = Records
  /\ DropOldest(Head(buffer)) /\ base' = Head(buffer).time /\ drops' = drops + 1
  /\ buffer' = Append(Tail(buffer), [time |-> now, index |-> i, value |-> v])
  /\ UNCHANGED cut

\* CSO_KEEP_FIRST keeps the last record for the end of the capture.
Dropped(i) ==
  /\ overflow = "first" /\ i # EndIndex /\ Len(buffer) >= Records - 1
  /\ drops' = drops + 1 /\ cut' = (IF cut < now THEN cut ELSE now)
  /\ UNCHANGED <<start, buffer, base>>

\* _putRecord()
PutRecord(i, v) == Stored(i, v) \/ InPlace(i, v) \/ Dropped(i)

Became(c, v) ==
  truth' = [truth EXCEPT ![c] = [t \in Times |-> IF t >= now THEN v ELSE truth[c][t]]]

\* pifCollectSignal_Put(): a change of a channel of the capture is recorded.
Put(c, v) ==
  /\ v # value[c] /\ puts < Puts /\ puts' = puts + 1 /\ value' = [value EXCEPT ![c] = v]
  /\ IF step = "collect" THEN Became(c, v) ELSE UNCHANGED truth
  /\ IF step # "collect" \/ ~Captured(c) THEN UNCHANGED <<capture, last, reader, refusals>>
     ELSE IF method = "log"
     THEN /\ Logs(FormatTime(now, last) \o <<Line("value", c, v)>>) /\ last' = now
          /\ UNCHANGED <<start, buffer, base, drops>>
     ELSE PutRecord(index[c], v) /\ UNCHANGED <<last, reader, refusals>>
  /\ UNCHANGED <<setting, step, channels, now, stage, cursor, retry, held, starts, changes, ended>>

\* pifCollectSignal_Stop()
Stop ==
  /\ step = "collect" /\ step' = "idle" /\ ended' = now
  /\ IF method = "log"
     THEN /\ Logs(FormatTime(now, last)) /\ last' = now /\ held' = FALSE
          /\ UNCHANGED <<start, buffer, base, drops>>
     ELSE PutRecord(EndIndex, 0) /\ UNCHANGED <<last, reader, refusals, held>>
  /\ UNCHANGED <<setting, channels, value, now, stage, cursor, retry, puts, starts, changes, truth>>

\* The time of the capture.
Tick ==
  /\ step = "collect" /\ now < MaxTime /\ now' = now + 1
  /\ UNCHANGED <<setting, step, channels, value, capture, transfer, held, bounds, truth, ended, reader>>

-----------------------------------------------------------------------------
(* Channels that come and go.                                                *)

\* Mutated RemoveChannel: the transfer stays on the channel.
CursorStays(c) == cursor

\* The transfer goes on with the next channel.
CursorPast(c) == IF cursor = c THEN NextOf(c) ELSE cursor

\* pifCollectSignal_RemoveChannel()
RemoveChannel(c) ==
  /\ state[c] # "detached" /\ changes < Changes /\ changes' = changes + 1
  /\ list' = Remove(list, c) /\ state' = [state EXCEPT ![c] = "detached"]
  /\ cursor' = CursorPast(c)
  /\ UNCHANGED <<setting, step, index, value, capture, now, stage, retry, last, held, puts, starts,
                 refusals, truth, ended, reader>>

\* pifCollectSignal_AddChannel()
AddChannel(c) ==
  /\ state[c] = "detached" /\ list' = Append(list, c)
  /\ state' = [state EXCEPT ![c] = "attached"] /\ value' = [value EXCEPT ![c] = 1]
  /\ UNCHANGED <<setting, step, index, capture, now, transfer, held, bounds, truth, ended, reader>>

-----------------------------------------------------------------------------
(* Printing.                                                                 *)

\* pifCollectSignal_PrintLog()
PrintLog ==
  /\ method = "buffer" /\ step = "idle" /\ step' = "print" /\ held' = TRUE
  /\ stage' = "title" /\ cursor' = HeadOf(list) /\ last' = base /\ retry' = FALSE
  /\ reader' = Blank
  /\ UNCHANGED <<setting, channels, value, capture, now, bounds, truth, ended>>

\* _doTask(), a pass that the log refused: the same again, a line at a time.
Refused ==
  /\ step = "print" /\ refusals < Refusals /\ refusals' = refusals + 1 /\ retry' = TRUE
  /\ Formatted(Here, 1).units > 0
  /\ UNCHANGED <<setting, step, channels, value, capture, now, stage, cursor, last, held, puts, starts,
                 changes, truth, ended, reader>>

\* _doTask(), a pass whose lines the log took: as many as fill the text, or one.
Pass ==
  /\ step = "print"
  /\ \E n \in IF retry THEN {1} ELSE 1..Text :
       LET p == Formatted(Here, n)
           rest == SubSeq(buffer, p.used + 1, Len(buffer))
           over == p.stage = "done" /\ rest = <<>>
       IN /\ reader' = ReadAll(reader, p.lines) /\ retry' = FALSE
          /\ stage' = p.stage /\ cursor' = p.cursor /\ last' = p.last /\ buffer' = rest
          /\ step' = (IF over THEN "idle" ELSE step) /\ held' = ~over
          /\ ended' = (IF over THEN Never ELSE ended)
  /\ UNCHANGED <<setting, channels, value, start, base, drops, cut, now, bounds, truth>>

Next ==
  \/ Change
  \/ \E c \in Channels : (\E v \in {1, 2} : Put(c, v)) \/ RemoveChannel(c) \/ AddChannel(c)
  \/ Start \/ Stop \/ Tick \/ PrintLog \/ Refused \/ Pass

Spec == Init /\ [][Next]_vars

-----------------------------------------------------------------------------
TypeOK ==
  /\ step \in {"idle", "collect", "print"} /\ stage \in ToSet(Stages)
  /\ ToSet(list) = {c \in Channels : state[c] # "detached"} /\ cursor \in ToSet(list) \cup {None}
  /\ Len(buffer) <= Records /\ base \in Times /\ last \in Times /\ drops \in Nat /\ held \in BOOLEAN

\* What the dump says of a channel at a time is what the channel was, from the time it begins
\* till the first change that was dropped or refused, whichever end of the capture the buffer
\* kept and however often the log refused the lines (pif_collect_signal.c:313, 391).
DumpIsTrue ==
  /\ reader.ordered
  /\ \A c \in reader.vars, t \in Times :
       Captured(c) /\ t \in base..(reader.time - 1) /\ t < cut => reader.shown[c][t] = truth[c][t]

\* A dump has every channel of the capture that is still there and ends at the time of Stop.
EndsWhole ==
  step = "print" /\ step' = "idle" /\ ended # Never =>
    reader'.time = ended /\ {c \in Channels : Captured(c)} \subseteq reader'.vars
DumpIsWhole == [][EndsWhole]_vars

\* The other lines of the log are held back while a dump is printed and only then.
HeldForDump == held <=> (step = "print" \/ (step = "collect" /\ method = "log"))

\* "A capture that was not printed yet is discarded" when the next one starts
\* (pif_collect_signal.h:322): its records are gone.  Not checked by a run: they stay when the
\* method was switched from the buffer to the log and the log is started.
EarlierDiscarded == [][step = "idle" /\ step' = "collect" => buffer' = <<>>]_vars
=============================================================================
