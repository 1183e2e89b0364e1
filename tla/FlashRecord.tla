---------------------------- MODULE FlashRecord ----------------------------
(* A record written as a stream into a region of MCU flash (storage/pif_flash.c): bytes are      *)
(* gathered into program units, and each erase unit is erased when the stream reaches it.  An    *)
(* erase or a program may fail, and the power may go at any call.                                *)
EXTENDS Integers, FiniteSetsExt

CONSTANTS
  Size,          \* _size
  EraseSize,     \* _erase_size, 0 for a medium that needs no erase
  ProgramSize,   \* _program_size
  Chunks,        \* how many bytes a call writes
  Records        \* the bound on the records that are begun

VARIABLES
  writing, position, fill, next_erase,   \* _writing, _position, __fill, __next_erase
  failed,        \* __error is not E_SUCCESS
  record,        \* the records begun, and what their bytes are
  mem,           \* what each byte of the region holds: Erased, a record's number, or Torn
  ended          \* the last call was a pifFlash_End() that returned TRUE

vars == <<writing, position, fill, next_erase, failed, record, mem, ended>>

Erased == 0
Torn == -1
Old == -2
Unit(offset) == offset..offset + ProgramSize - 1
EraseUnit(offset) == offset..offset + EraseSize - 1

Init ==
  /\ writing = FALSE /\ position = 0 /\ fill = 0 /\ next_erase = 0 /\ failed = FALSE
  /\ record = 0 /\ mem = [b \in 0..Size - 1 |-> Old] /\ ended = FALSE

\* pifFlash_Begin().
Begin ==
  /\ ~writing /\ record < Records
  /\ writing' = TRUE /\ position' = 0 /\ fill' = 0 /\ next_erase' = 0 /\ failed' = FALSE
  /\ record' = record + 1 /\ ended' = FALSE
  /\ UNCHANGED mem

-----------------------------------------------------------------------------
(* _programUnit() on s, what the record and the region are, with the first filled bytes of the   *)
(* unit at offset from the record.  The hardware erases and programs, or fails at either.        *)

Erasable(s, offset) == EraseSize > 0 /\ offset >= s.next_erase

\* The region once the erase unit that offset falls in is erased.
AfterErase(s, offset) ==
  IF Erasable(s, offset)
  THEN [s EXCEPT
         !.mem = [b \in DOMAIN s.mem |-> IF b \in EraseUnit(s.next_erase) THEN Erased ELSE @[b]],
         !.next_erase = @ + EraseSize]
  ELSE s

\* What programming a byte leaves: only an erased one takes it, where the medium needs an erase.
Programmed(old, new) == IF EraseSize > 0 /\ old # Erased THEN Torn ELSE new

AfterProgram(s, offset, filled) ==
  [s EXCEPT !.fill = 0, !.mem = [b \in DOMAIN s.mem |->
     IF b \in Unit(offset)
     THEN Programmed(@[b], IF b < offset + filled THEN record ELSE Erased)
     ELSE @[b]]]

WithFailure(s) == [s EXCEPT !.failed = TRUE]

ProgramUnit(s, offset, filled) ==
  IF offset + ProgramSize > Size THEN {WithFailure(s)}
  ELSE LET e == AfterErase(s, offset)
           p == AfterProgram(e, offset, filled)
       IN {p, WithFailure([p EXCEPT !.fill = s.fill])}
          \cup (IF Erasable(s, offset) THEN {WithFailure(s)} ELSE {})

-----------------------------------------------------------------------------
(* The calls.                                                                *)

Now == [fill |-> fill, next_erase |-> next_erase, failed |-> failed, mem |-> mem]

Set(s) ==
  /\ fill' = s.fill /\ next_erase' = s.next_erase /\ failed' = s.failed /\ mem' = s.mem

\* One turn of the loop of pifFlash_Write(): what fits in the unit is gathered, and a unit that
\* is full is programmed.
Write(size) ==
  /\ writing /\ ~failed /\ position < Size + ProgramSize
  /\ LET len == Min({ProgramSize - fill, size})
         s == [Now EXCEPT !.fill = @ + len]
     IN /\ position' = position + len
        /\ \E after \in IF s.fill < ProgramSize THEN {s}
                        ELSE ProgramUnit(s, position + len - ProgramSize, ProgramSize) : Set(after)
  /\ UNCHANGED <<writing, record, ended>>

\* pifFlash_End(): the last unit is padded.
End ==
  /\ writing
  /\ \E after \in IF failed \/ fill = 0 THEN {Now} ELSE ProgramUnit(Now, position - fill, fill) :
       Set(after)
  /\ writing' = FALSE /\ ended' = ~failed'
  /\ UNCHANGED <<position, record>>

\* The power goes: the next start knows nothing of the record that was written.
Restart ==
  /\ writing' = FALSE /\ position' = 0 /\ fill' = 0 /\ next_erase' = 0 /\ failed' = FALSE
  /\ ended' = FALSE
  /\ UNCHANGED <<record, mem>>

Next == Begin \/ (\E size \in Chunks : Write(size)) \/ End \/ Restart

Spec == Init /\ [][Next]_vars

-----------------------------------------------------------------------------
(* What the module promises.                                                 *)

\* When pifFlash_End() returns TRUE the region holds every byte of the record, whatever was in it
\* before, however the bytes were cut into calls, and wherever a record before it was given up.
EndTells == ended => position <= Size /\ \A b \in 0..position - 1 : mem[b] = record

\* No unit is programmed that has been programmed since its erase unit was erased, and nothing
\* that the record wrote is erased again: what is programmed so far reads as the record.
WrittenStays ==
  writing /\ ~failed => \A b \in 0..position - fill - 1 : mem[b] = record

-----------------------------------------------------------------------------
(* The inductive invariant these rest on.                                    *)

TypeOK ==
  /\ writing \in BOOLEAN /\ failed \in BOOLEAN /\ ended \in BOOLEAN
  /\ position \in Nat /\ fill \in Nat /\ next_erase \in Nat /\ record \in Nat
  /\ mem \in [0..Size - 1 -> Int]

\* n is a whole number of program units.
Whole(n) == \E k \in 0..n : n = k * ProgramSize

\* What is programmed of the stream: the bytes before those that wait in the unit.
Base == position - fill

\* The stream stands in a unit that is not full, behind whole units inside of the region.
Gathered ==
  writing /\ ~failed =>
    fill < ProgramSize /\ fill <= position /\ Base <= Size /\ Whole(Base)

\* What the stream has erased ahead of it is whole units that nothing was written to since.
ErasedAhead ==
  writing /\ ~failed /\ EraseSize > 0 =>
    /\ Whole(next_erase) /\ Base <= next_erase
    /\ \A b \in 0..Size - 1 : Base <= b /\ b < next_erase => mem[b] = Erased

Inv ==
  /\ TypeOK /\ Gathered /\ ErasedAhead /\ WrittenStays
  /\ EndTells /\ (ended => ~writing)

=============================================================================
