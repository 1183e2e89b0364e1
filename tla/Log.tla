-------------------------------- MODULE Log --------------------------------
(* The log buffer, its task, its outputs and the command line (core/pif_log.c).  Lines that any   *)
(* context prints are stored as pieces of a byte buffer, which the task of the log hands to the    *)
(* outputs: the UART, through its transmit buffer, and a file.  An interrupt may print between any *)
(* two steps of the task.  A position in the byte buffer is the number of the piece at it, and a   *)
(* piece is as long as its text.                                                                   *)
EXTENDS Integers, Sequences, FiniteSets, SequencesExt

CONSTANTS
  Size,        \* the log buffer
  TxSize,      \* the transmit buffer of the log
  Budget,      \* DRAIN_BUDGET
  Loads        \* the bounds that a behaviour may have

\* A behaviour's bounds are in one of Loads: a record of the lines that are printed, the commands
\* that are typed, the lines that a command prints, the refusals of the file, and the outputs that
\* are taken away.  Here, three lines push out what a dump has not sent yet.
DumpLoads == {[prints |-> 3, commands |-> 1, lines |-> 2, refusals |-> 0, changes |-> 0]}

VARIABLES
  log, tail,   \* the pieces stored so far, and the number of them that gave way
  sinks, pos,  \* p_sinks as a set, and __read_pos
  drops,       \* drop_count
  tx,          \* bytes in the transmit buffer
  trigger,     \* of the task: "none", "now", or "later" after RETRY_DELAY
  pc, cur, copy, budget, status,    \* the run of the task
  cmdDone, todo, queued,   \* cmd_done, the lines the command has left, console_queued
  dump,        \* what "log show" still has to send
  load, printed, commands, refusals, changes,   \* the bounds, and how much there was of each
  since, got,  \* of an output: where it stood and its drop_count when it was added, the pieces it got
  made, shown  \* the texts of the last command so far, and those that went to the UART

vars == <<log, tail, sinks, pos, drops, tx, trigger, pc, cur, copy, budget, status, cmdDone, todo,
          queued, dump, load, printed, commands, refusals, changes, since, got, made, shown>>
buffer == <<log, tail, pos, drops, trigger, dump>>
outputs == <<sinks, since, got>>
run == <<pc, cur, copy, budget, status>>
line == <<cmdDone, commands>>
bounds == <<load, printed, refusals, changes>>

\* The outputs in the order of p_sinks: the UART is put first.
Outputs == {"uart", "file"}
Order == <<"uart", "file">>
NoDump == [active |-> FALSE, pos |-> 0, end |-> 0]
Astray == -1   \* dump.end below 0, which is 2^32 - 1 pieces: no end to speak of

Newest == Len(log)
Bytes(n) == LET from[k \in n..Newest] == IF k = Newest THEN 0 ELSE log[k + 1].length + from[k + 1]
            IN from[n]
Room == TxSize - tx
Attached == "uart" \in sinks

\* type_mask: PIF_LOG_TYPE_ALL has no bit for LT_CONSOLE, which only the UART takes.
Takes(s, p) == s = "uart" \/ log[p + 1].kind = "line"

Init ==
  /\ log = <<>> /\ tail = 0 /\ sinks = Outputs
  /\ pos = [s \in Outputs |-> 0] /\ drops = [s \in Outputs |-> 0]
  /\ tx = 0 /\ trigger = "none"
  /\ pc = "idle" /\ cur = 1 /\ copy = 0 /\ budget = 0 /\ status = "done"
  /\ cmdDone = FALSE /\ todo = 0 /\ queued = FALSE /\ dump = NoDump
  /\ load \in Loads /\ printed = 0 /\ commands = 0 /\ refusals = 0 /\ changes = 0
  /\ since = [s \in Outputs |-> [pos |-> 0, drops |-> 0]] /\ got = [s \in Outputs |-> <<>>]
  /\ made = 0 /\ shown = <<>>

-----------------------------------------------------------------------------
(* The log buffer.                                                           *)

\* How far the oldest pieces give way for one of this length.
GiveWay(length) == CHOOSE n \in tail..Newest :
  Bytes(n) + length <= Size /\ \A k \in tail..(n - 1) : ~(Bytes(k) + length <= Size)

\* Mutated Pushed: an output that stood on the piece moves on without a count.
PushedQuietly(s, oldest) == 0

\* What drop_count of an output grows by when the pieces below oldest give way.
Pushed(s, oldest) ==
  IF s \in sinks THEN Cardinality({p \in pos[s]..(oldest - 1) : Takes(s, p)}) ELSE 0

\* dump.end, an uint32_t, after n pieces of the dump went.
Less(n) == IF dump.end >= n THEN dump.end - n ELSE Astray

\* _store() and _storePiece(), with interrupts off: the outputs that stand on a piece that gives
\* way move to the next one and count it if it is of a type they take, a dump moves on too, and
\* the task is triggered.
Store(piece) ==
  LET oldest == GiveWay(piece.length)
  IN /\ log' = Append(log, piece) /\ tail' = oldest
     /\ pos' = [s \in Outputs |-> IF s \in sinks /\ pos[s] < oldest THEN oldest ELSE pos[s]]
     /\ drops' = [s \in Outputs |-> drops[s] + Pushed(s, oldest)]
     /\ dump' = IF dump.active /\ dump.pos < oldest
                  THEN [dump EXCEPT !.pos = oldest, !.end = Less(oldest - dump.pos)] ELSE dump
     /\ trigger' = "now"

\* pifLog_Print() of a line with a time stamp, by another task or an interrupt.
PrintLine ==
  /\ printed < load.prints /\ printed' = printed + 1
  /\ Store([kind |-> "line", of |-> 0, no |-> 0, length |-> 2])
  /\ UNCHANGED <<outputs, tx, run, line, todo, queued, load, refusals, changes, made, shown>>

-----------------------------------------------------------------------------
(* The command line.                                                         *)

\* _evtParsing(): a line is complete.  While a dump goes out no line is read.
Typed ==
  /\ pc = "idle" /\ Attached /\ ~dump.active /\ ~cmdDone /\ commands < load.commands
  /\ cmdDone' = TRUE /\ commands' = commands + 1 /\ trigger' = "now"
  /\ UNCHANGED <<log, tail, pos, drops, dump, outputs, tx, run, todo, queued, bounds,
                 made, shown>>

ToDump == pc' = "dump" /\ budget' = Budget /\ UNCHANGED <<cur, copy, status>>

\* _doTask() begins: a command waits, or not.
Begin ==
  /\ pc = "idle" /\ trigger = "now" /\ trigger' = "none" /\ status' = "done"
  /\ IF cmdDone
     THEN pc' = "command" /\ todo' \in 0..load.lines /\ made' = 0 /\ shown' = <<>>
          /\ UNCHANGED budget
     ELSE pc' = "dump" /\ budget' = Budget /\ UNCHANGED <<todo, made, shown>>
  /\ UNCHANGED <<log, tail, pos, drops, dump, outputs, tx, cur, copy, line, queued, bounds>>

\* A text of the command goes into the transmit buffer, or waits in the log buffer.
Put(length) == tx' = tx + length /\ shown' = Append(shown, made + 1) /\ UNCHANGED buffer
Wait(length) ==
  /\ Store([kind |-> "console", of |-> commands, no |-> made + 1, length |-> length])
  /\ UNCHANGED <<tx, shown>>

\* _printLog() with console_direct: a line goes out at once unless one before it waits.
Direct(length) == ~queued /\ Room >= length

\* pifLog_Print() in a command.
CommandPrints ==
  /\ pc = "command" /\ Attached /\ todo > 0 /\ todo' = todo - 1 /\ made' = made + 1
  /\ \E length \in 1..2 :
       IF Direct(length) THEN Put(length) /\ UNCHANGED queued
                         ELSE Wait(length) /\ queued' = TRUE
  /\ UNCHANGED <<outputs, run, line, bounds>>

\* _putConsole(): behind what waits, or into the transmit buffer if it has room.
PutConsole(length) ==
  /\ made' = made + 1
  /\ CASE queued -> Wait(length)
       [] ~queued /\ Room >= length -> Put(length)
       [] OTHER -> UNCHANGED <<buffer, tx, shown>>

\* _runCommand(), a command that failed: a message before the prompt.
CommandFails ==
  /\ pc = "command" /\ Attached /\ todo = 0 /\ PutConsole(2) /\ pc' = "prompt"
  /\ UNCHANGED <<outputs, cur, copy, budget, status, line, todo, queued, bounds>>

\* _runCommand() ends with the prompt.
CommandEnds ==
  /\ pc = "prompt" \/ (pc = "command" /\ Attached /\ todo = 0)
  /\ PutConsole(1) /\ queued' = FALSE /\ cmdDone' = FALSE /\ ToDump
  /\ UNCHANGED <<outputs, todo, commands, bounds>>

\* pifLog_CmdLog(), "log show ram", from any of the lines, and the prompt waits for its end.
ShowsLog ==
  /\ pc = "command" /\ Attached /\ todo = 0 /\ made = 0
  /\ \E p \in tail..Newest : dump' = [active |-> TRUE, pos |-> p, end |-> Newest - p]
  /\ trigger' = "now" /\ cmdDone' = FALSE /\ ToDump
  /\ UNCHANGED <<log, tail, pos, drops, outputs, tx, todo, queued, commands, bounds, made, shown>>

\* _runCommand() after the UART was detached.
CommandUnheard ==
  /\ pc = "command" /\ ~Attached
  /\ todo' = 0 /\ cmdDone' = FALSE /\ queued' = FALSE /\ dump' = NoDump /\ ToDump
  /\ UNCHANGED <<log, tail, pos, drops, trigger, outputs, tx, commands, bounds, made, shown>>

-----------------------------------------------------------------------------
(* The dump, and what ends it.                                               *)

\* _endDump(): a new line and the prompt, each if it has room.  Nothing of the command waits in
\* the log buffer, since one that shows the log prints nothing itself.
EndDump ==
  LET newline == IF Room >= 1 THEN 1 ELSE 0
      prompt == IF Room - newline >= 1 THEN 1 ELSE 0
  IN /\ dump' = NoDump /\ tx' = tx + newline + prompt /\ made' = made + 1
     /\ shown' = IF prompt = 1 THEN Append(shown, made + 1) ELSE shown

\* _evtParsing(): a key stops a dump.
KeyStops ==
  /\ pc = "idle" /\ Attached /\ dump.active /\ EndDump
  /\ UNCHANGED <<log, tail, pos, drops, trigger, outputs, run, line, todo, queued, bounds>>

ToDrain == pc' = "drain" /\ cur' = 1 /\ budget' = Budget /\ UNCHANGED copy
DumpKeeps == UNCHANGED <<log, tail, pos, drops, trigger, outputs, line, todo, queued, bounds>>

\* _dumpStep() has nothing to do, or nowhere to put it.
DumpSkips ==
  /\ pc = "dump" /\ ~(dump.active /\ Attached) /\ dump' = NoDump
  /\ ToDrain /\ DumpKeeps /\ UNCHANGED <<tx, status, made, shown>>

\* The budget of a run is used up.
DumpPauses ==
  /\ pc = "dump" /\ dump.active /\ Attached /\ budget = 0 /\ status' = "more"
  /\ ToDrain /\ DumpKeeps /\ UNCHANGED <<dump, tx, made, shown>>

DumpEnds ==
  /\ pc = "dump" /\ Attached /\ dump.active /\ budget > 0 /\ dump.end = 0 /\ EndDump
  /\ ToDrain /\ DumpKeeps /\ UNCHANGED status

\* With interrupts off: _copyPiece().
DumpCopies ==
  /\ pc = "dump" /\ Attached /\ dump.active /\ budget > 0 /\ dump.end # 0
  /\ copy' = dump.pos /\ budget' = budget - 1 /\ pc' = "put"
  /\ DumpKeeps /\ UNCHANGED <<dump, tx, cur, status, made, shown>>

\* The piece goes into the transmit buffer or is left for later; what is output of a command is
\* not shown.  The position is left alone if a print moved it.  Behind the newest piece there is
\* what the byte buffer happens to hold.
DumpPuts ==
  /\ pc = "put"
  /\ \E length \in 0..2 :
       /\ copy < Newest => length = IF log[copy + 1].kind = "line" THEN log[copy + 1].length ELSE 0
       /\ IF Room < length
          THEN status' = "refused" /\ ToDrain /\ UNCHANGED <<dump, tx>>
          ELSE /\ tx' = tx + length /\ pc' = "dump" /\ UNCHANGED <<cur, copy, budget, status>>
               /\ dump' = IF dump.pos = copy /\ copy < Newest
                            THEN [dump EXCEPT !.pos = @ + 1, !.end = Less(1)] ELSE dump
  /\ DumpKeeps /\ UNCHANGED <<made, shown>>

-----------------------------------------------------------------------------
(* Handing the pieces to the outputs.                                        *)

DrainKeeps ==
  UNCHANGED <<log, tail, dump, sinks, since, line, todo, queued, load, printed, changes, made>>
Rank == [done |-> 0, refused |-> 1, more |-> 2]
AtLeast(result) == status' = IF Rank[status] < Rank[result] THEN result ELSE status
NextOutput == pc' = "drain" /\ cur' = cur + 1 /\ budget' = Budget

\* _drainSink() of the output: what it has not got, while the budget lasts.  The UART waits for
\* the end of a dump.
Skipped(s) == s \notin sinks \/ (s = "uart" /\ dump.active)
DrainSkips ==
  /\ pc = "drain" /\ cur <= 2 /\ (Skipped(Order[cur]) \/ pos[Order[cur]] = Newest)
  /\ NextOutput /\ DrainKeeps /\ UNCHANGED <<pos, drops, trigger, tx, copy, status, refusals, got, shown>>

DrainPauses ==
  /\ pc = "drain" /\ cur <= 2 /\ ~Skipped(Order[cur]) /\ budget = 0
  /\ AtLeast("more") /\ NextOutput
  /\ DrainKeeps /\ UNCHANGED <<pos, drops, trigger, tx, copy, refusals, got, shown>>

\* With interrupts off: _copyPiece().
DrainCopies ==
  /\ pc = "drain" /\ cur <= 2 /\ ~Skipped(Order[cur]) /\ budget > 0 /\ pos[Order[cur]] < Newest
  /\ copy' = pos[Order[cur]] /\ budget' = budget - 1 /\ pc' = "write"
  /\ DrainKeeps /\ UNCHANGED <<pos, drops, trigger, tx, cur, status, refusals, got, shown>>

\* The output goes on to the next piece, unless a print that pushed this one out moved it.
Advance(s) == pos' = IF pos[s] = copy THEN [pos EXCEPT ![s] = @ + 1] ELSE pos

\* act_write() took the piece.
Took(s) ==
  /\ got' = [got EXCEPT ![s] = Append(@, copy)]
  /\ Advance(s) /\ pc' = "drain" /\ UNCHANGED <<cur, copy, budget, status>>
Refused == AtLeast("refused") /\ NextOutput /\ UNCHANGED <<pos, copy, got>>

\* _uartWrite(): the piece goes whole or not at all.
UartWrites ==
  /\ pc = "write" /\ Order[cur] = "uart"
  /\ LET piece == log[copy + 1]
     IN IF Room >= piece.length
        THEN /\ Took("uart") /\ tx' = tx + piece.length
             /\ shown' = IF piece.kind = "console" /\ piece.of = commands
                           THEN Append(shown, piece.no) ELSE shown
        ELSE Refused /\ UNCHANGED <<tx, shown>>
  /\ DrainKeeps /\ UNCHANGED <<drops, trigger, refusals>>

\* act_write() of the file, which may have no room.
FileWrites ==
  /\ pc = "write" /\ Order[cur] = "file"
  /\ \/ Takes("file", copy) /\ Took("file") /\ UNCHANGED refusals
     \/ Takes("file", copy) /\ refusals < load.refusals /\ refusals' = refusals + 1 /\ Refused
     \/ /\ ~Takes("file", copy) /\ Advance("file") /\ pc' = "drain"
        /\ UNCHANGED <<cur, copy, budget, status, refusals, got>>
  /\ DrainKeeps /\ UNCHANGED <<drops, trigger, tx, shown>>

\* Mutated Finish: what was refused waits for the next line.
FinishRefused ==
  /\ pc = "drain" /\ cur = 3 /\ pc' = "idle"
  /\ trigger' = IF status = "more" THEN "now" ELSE trigger
  /\ DrainKeeps /\ UNCHANGED <<pos, drops, tx, cur, copy, budget, status, refusals, got, shown>>

\* _doTask() ends: a trigger for what is left, which takes the place of one set meanwhile.
Finish ==
  /\ pc = "drain" /\ cur = 3 /\ pc' = "idle"
  /\ trigger' = CASE status = "more" -> "now" [] status = "refused" -> "later" [] OTHER -> trigger
  /\ DrainKeeps /\ UNCHANGED <<pos, drops, tx, cur, copy, budget, status, refusals, got, shown>>

Task ==
  \/ Begin \/ CommandPrints \/ CommandFails \/ CommandEnds \/ ShowsLog \/ CommandUnheard
  \/ DumpSkips \/ DumpPauses \/ DumpEnds \/ DumpCopies \/ DumpPuts
  \/ DrainSkips \/ DrainPauses \/ DrainCopies \/ UartWrites \/ FileWrites \/ Finish

\* RETRY_DELAY has passed.
RetryDue ==
  /\ pc = "idle" /\ trigger = "later" /\ trigger' = "now"
  /\ UNCHANGED <<log, tail, pos, drops, dump, outputs, tx, run, line, todo, queued, bounds, made, shown>>

\* _evtSending(): the UART task takes bytes.
Send ==
  /\ pc = "idle" /\ tx > 0 /\ \E n \in 1..tx : tx' = tx - n
  /\ UNCHANGED <<buffer, outputs, run, line, todo, queued, bounds, made, shown>>

-----------------------------------------------------------------------------
(* Outputs are taken away and added.                                         *)

\* pifLog_RemoveSink(), and pifLog_DetachUart() with its transmit buffer.
RemoveSink(s) ==
  /\ pc = "idle" /\ s \in sinks /\ changes < load.changes /\ changes' = changes + 1
  /\ sinks' = sinks \ {s}
  /\ IF s = "uart" THEN tx' = 0 /\ queued' = FALSE ELSE UNCHANGED <<tx, queued>>
  /\ UNCHANGED <<buffer, since, got, run, line, todo, load, printed, refusals, made, shown>>

\* pifLog_AddSink() and pifLog_AttachUart(): the output gets what the log buffer still holds,
\* and the UART a prompt.
AddSink(s) ==
  /\ pc = "idle" /\ s \notin sinks /\ sinks' = sinks \cup {s}
  /\ pos' = [pos EXCEPT ![s] = tail]
  /\ drops' = IF s = "file" THEN [drops EXCEPT ![s] = 0] ELSE drops
  /\ since' = [since EXCEPT ![s] = [pos |-> tail, drops |-> drops'[s]]]
  /\ got' = [got EXCEPT ![s] = <<>>]
  /\ trigger' = IF \E k \in sinks' : pos'[k] < Newest THEN "now" ELSE trigger
  /\ IF s = "uart" THEN tx' = 1 /\ shown' = <<>> ELSE UNCHANGED <<tx, shown>>
  /\ UNCHANGED <<log, tail, dump, run, line, todo, queued, bounds, made>>

Next ==
  \/ PrintLine \/ Typed \/ KeyStops \/ Task \/ RetryDue \/ Send
  \/ \E s \in Outputs : RemoveSink(s) \/ AddSink(s)

Spec == Init /\ [][Next]_vars

\* The scheduler runs the task when it is triggered and goes on to the task of the UART between
\* two of its runs, and delays pass.
FairSpec == Spec /\ WF_vars(Task) /\ WF_vars(RetryDue) /\ SF_vars(Send)

-----------------------------------------------------------------------------
TypeOK ==
  /\ tail \in 0..Newest /\ sinks \subseteq Outputs /\ pos \in [Outputs -> 0..Newest]
  /\ drops \in [Outputs -> Nat] /\ tx \in 0..TxSize /\ trigger \in {"none", "now", "later"}
  /\ pc \in {"idle", "command", "prompt", "dump", "put", "drain", "write"} /\ cur \in 1..3
  /\ budget \in 0..Budget /\ status \in DOMAIN Rank /\ cmdDone \in BOOLEAN /\ queued \in BOOLEAN

Increasing(q) == \A i, j \in 1..Len(q) : i < j => q[i] < q[j]

\* Every output gets the pieces in order and none twice, and a piece of its types that it did
\* not get is still to come or counted in drop_count, whatever is printed while the task is
\* between the copy of a piece and the step over it (pif_log.c:228).
Missed(s) == {p \in since[s].pos..(pos[s] - 1) :
                Takes(s, p) /\ ~\E k \in 1..Len(got[s]) : got[s][k] = p}
PiecesKept ==
  \A s \in sinks : Increasing(got[s]) /\ Cardinality(Missed(s)) <= drops[s] - since[s].drops

\* What a command prints comes out in order, its prompt last, however much of it waits in the
\* log buffer.
CommandInOrder == Increasing(shown)

\* What an output got is behind it, and what it is given is the piece it stood on, which a print
\* may have moved it from.
Behind(s) ==
  /\ since[s].pos <= pos[s] /\ since[s].drops <= drops[s]
  /\ \A k \in 1..Len(got[s]) : got[s][k] < pos[s]
WriteBehind ==
  pc = "write" =>
    /\ cur <= 2 /\ Order[cur] \in sinks /\ copy \in 0..(Newest - 1)
    /\ since[Order[cur]].pos <= copy /\ copy <= pos[Order[cur]]
    /\ \A k \in 1..Len(got[Order[cur]]) : got[Order[cur]][k] < copy

\* The texts of the last command that are or were in the log buffer, in their order, behind those
\* that went to the UART as far as the UART has not had them.
OfCommand(p) == log[p + 1].kind = "console" /\ log[p + 1].of = commands
ToCome(p) == "uart" \in sinks /\ (pos["uart"] <= p \/ (pc = "write" /\ cur = 1 /\ copy <= p))
TextsInOrder ==
  /\ \A p \in 0..(Newest - 1) :
       /\ log[p + 1].of <= commands
       /\ OfCommand(p) =>
            /\ log[p + 1].no \in 1..made
            /\ \A q \in 0..(Newest - 1) : p < q /\ OfCommand(q) => log[p + 1].no < log[q + 1].no
            /\ ToCome(p) => \A k \in 1..Len(shown) : shown[k] < log[p + 1].no
  /\ \A k \in 1..Len(shown) : shown[k] \in 1..made

\* Nothing of a command waits before it runs, nor while its lines go out at once, and one that
\* shows the log prints nothing.
InCommand == pc \in {"command", "prompt"}
Turns ==
  /\ queued => InCommand /\ made > 0
  /\ dump.active => made = 0 /\ ~cmdDone /\ ~InCommand
  /\ (IF InCommand THEN ~queued ELSE cmdDone) => \A p \in 0..(Newest - 1) : ~OfCommand(p)

\* The types that the steps rest on.
Piece == [kind : {"line", "console"}, of : Nat, no : Nat, length : Nat]
Values ==
  /\ log \in Seq(Piece) /\ tail \in 0..Newest /\ sinks \subseteq Outputs
  /\ pos \in [Outputs -> 0..Newest] /\ drops \in [Outputs -> Nat]
  /\ cur \in 1..3 /\ dump \in [active : BOOLEAN, pos : Nat, end : Int]
  /\ since \in [Outputs -> [pos : Nat, drops : Nat]] /\ got \in [Outputs -> Seq(Nat)]
  /\ commands \in Nat /\ made \in Nat /\ shown \in Seq(Nat)

\* What every step keeps.
Inv ==
  /\ Values /\ PiecesKept /\ (\A s \in sinks : Behind(s)) /\ WriteBehind
  /\ CommandInOrder /\ TextsInOrder /\ Turns

\* A command that is over is followed by its prompt: it went out, waits, or was pushed out of
\* the log buffer, which is counted.  Not checked by a run: a prompt that finds no room after a
\* dump or a command is lost without being counted.
PromptFollows ==
  made > 0 /\ pc = "idle" /\ ~cmdDone /\ ~dump.active /\ changes = 0 =>
    \/ made \in ToSet(shown)
    \/ \E p \in 0..(Newest - 1) : log[p + 1].of = commands /\ log[p + 1].no = made

\* A dump has no more left than the log buffer holds from where it is: "pieces left in the log
\* buffer" (pif_log.c:52).
DumpInBuffer == dump.active => dump.end \in 0..(Newest - dump.pos)

\* What the log buffer holds goes to every output there is, and what the UART was given leaves,
\* with a dump that ends by itself before: one that lost its end does not.
Drained == (\A s \in sinks : pos[s] = Newest) /\ tx = 0 /\ ~dump.active
DumpAstray == dump.end = Astray
LogDrains == <>[](Drained \/ DumpAstray)
=============================================================================
