------------------------------ MODULE NorFlash ------------------------------
(* A SPI NOR flash (storage/pif_nor_flash.c) and its driver: every call holds the CPU till it    *)
(* returns, an erase may be started and left alone, the device works on by itself, and a         *)
(* transfer may fail.  A page stands for what one program command writes; a command that fails   *)
(* is one that did not reach the device.                                                         *)
EXTENDS Integers, FiniteSets

CONSTANTS
  Pages,       \* the pages of the sector that is written
  Faults       \* the bound on failed transfers

VARIABLES
  erasing,     \* __erasing
  call,        \* the call in progress, or "none"
  at,          \* where it is: "free", "enable", "command", "wait"
  asked, todo, \* the pages it programs, and those it has still to
  busy, wel,   \* the device: what it is busy with, and its write enable latch
  cell,        \* what each page holds: "erased", "data" or, while it is written, "torn"
  answer,      \* the last call that returned TRUE, and whether it did what it says
  failed,      \* a program has failed since the device was last seen ready
  faults

vars == <<erasing, call, at, asked, todo, busy, wel, cell, answer, failed, faults>>
driver == <<erasing, call, at, asked, todo>>
device == <<busy, wel, cell>>

NoAnswer == [call |-> "none", kept |-> TRUE]

Init ==
  /\ erasing = FALSE /\ call = "none" /\ at = "free" /\ asked = {} /\ todo = {}
  /\ busy = "no" /\ wel = FALSE /\ cell = [p \in Pages |-> "erased"]
  /\ answer = NoAnswer /\ failed = FALSE /\ faults = 0

-----------------------------------------------------------------------------
(* The calls.  Each transfer of one is a step.                               *)

\* pifNorFlash_Read(), _Program(), _EraseSector(), _StartEraseSector() and _CheckBusy().
Call(c, pages) ==
  /\ call = "none"
  /\ call' = c /\ asked' = pages /\ todo' = pages /\ answer' = NoAnswer
  /\ at' = IF c = "check" \/ erasing THEN "free" ELSE IF c = "read" THEN "command" ELSE "enable"
  /\ UNCHANGED <<erasing, device, failed, faults>>

Return(kept) ==
  /\ call' = "none" /\ at' = "free" /\ asked' = {} /\ todo' = {}
  /\ answer' = [call |-> call, kept |-> kept]

Refuse ==
  /\ call' = "none" /\ at' = "free" /\ asked' = {} /\ todo' = {} /\ answer' = NoAnswer

Fail ==
  /\ Refuse
  /\ failed' = (failed \/ (call = "program" /\ at = "wait"))

\* A transfer fails, and the call with it.  When it is the status read of _writeEnable(), the
\* device has the latch set.
TransferFails ==
  /\ call # "none" /\ faults < Faults
  /\ faults' = faults + 1
  /\ Fail
  /\ wel' \in {wel, wel \/ (at = "enable" /\ busy = "no")}
  /\ UNCHANGED <<erasing, busy, cell>>

\* Mutated Free: the erase is taken as over once it was looked at.
FreeOnce ==
  /\ call # "none" /\ at = "free"
  /\ erasing' = FALSE
  /\ failed' = (failed /\ busy # "no")
  /\ CASE call = "check"  -> Return(TRUE)
       [] call # "check" /\ busy # "no" -> Refuse
       [] OTHER -> /\ at' = IF call = "read" THEN "command" ELSE "enable"
                   /\ UNCHANGED <<call, asked, todo, answer>>
  /\ UNCHANGED <<device, faults>>

\* pifNorFlash_CheckBusy(), and _isFree() while an erase was left alone.
Free ==
  /\ call # "none" /\ at = "free"
  /\ erasing' = (erasing /\ busy # "no")
  /\ failed' = (failed /\ busy # "no")
  /\ CASE call = "check"  -> Return(TRUE)
       [] call # "check" /\ busy # "no" -> Refuse
       [] OTHER -> /\ at' = IF call = "read" THEN "command" ELSE "enable"
                   /\ UNCHANGED <<call, asked, todo, answer>>
  /\ UNCHANGED <<device, faults>>

\* _writeEnable(): a busy device does not take the command, and the latch is read back.
WriteEnable ==
  /\ at = "enable"
  /\ wel' = (wel \/ busy = "no")
  /\ IF busy = "no"
     THEN at' = "command" /\ failed' = FALSE /\ UNCHANGED <<call, asked, todo, answer>>
     ELSE Fail
  /\ UNCHANGED <<erasing, busy, cell, faults>>

\* pifNorFlash_Read(): a busy device answers with anything.
Read ==
  /\ call = "read" /\ at = "command"
  /\ Return(busy = "no")
  /\ UNCHANGED <<erasing, device, failed, faults>>

\* What the device does with a command: nothing while it is busy or without the latch.
Takes(what, pages) ==
  IF busy = "no" /\ wel
  THEN /\ busy' = what /\ wel' = FALSE
       /\ cell' = [p \in Pages |-> IF p \in pages THEN "torn" ELSE cell[p]]
  ELSE UNCHANGED device

\* The page program of pifNorFlash_Program().
ProgramPage ==
  /\ call = "program" /\ at = "command"
  /\ \E p \in todo : Takes("program", {p}) /\ todo' = todo \ {p}
  /\ at' = "wait"
  /\ UNCHANGED <<erasing, call, asked, answer, failed, faults>>

\* The erase command of _startErase(), waited for or not.
EraseCommand ==
  /\ call \in {"erase", "start"} /\ at = "command"
  /\ Takes("erase", Pages)
  /\ erasing' = TRUE
  /\ IF call = "start" THEN Return(busy' = "erase")
     ELSE at' = "wait" /\ UNCHANGED <<call, asked, todo, answer>>
  /\ UNCHANGED <<failed, faults>>

Done == IF call = "erase" THEN \A p \in Pages : cell[p] = "erased"
        ELSE \A p \in asked : cell[p] = "data"

\* _waitReady() finds the device ready: the next page, or the end of the call.
WaitReady ==
  /\ at = "wait" /\ busy = "no"
  /\ IF todo # {} THEN at' = "enable" /\ UNCHANGED <<call, asked, todo, answer, erasing>>
     ELSE Return(Done) /\ erasing' = (erasing /\ call # "erase")
  /\ failed' = FALSE
  /\ UNCHANGED <<device, faults>>

\* _waitReady() gives up at its timeout.
WaitTimesOut ==
  /\ at = "wait" /\ busy # "no"
  /\ Fail
  /\ UNCHANGED <<erasing, device, faults>>

-----------------------------------------------------------------------------
(* The device.                                                               *)

\* It finishes what it is busy with.
Finish ==
  /\ busy # "no"
  /\ cell' = [p \in Pages |->
       IF cell[p] = "torn" THEN IF busy = "erase" THEN "erased" ELSE "data" ELSE cell[p]]
  /\ busy' = "no"
  /\ UNCHANGED <<driver, wel, answer, failed, faults>>

Next ==
  \/ \E c \in {"read", "check", "start", "erase"} : Call(c, {})
  \/ \E pages \in SUBSET Pages \ {{}} : Call("program", pages)
  \/ TransferFails \/ Free \/ WriteEnable \/ Read \/ ProgramPage \/ EraseCommand
  \/ WaitReady \/ WaitTimesOut \/ Finish

Spec == Init /\ [][Next]_vars

-----------------------------------------------------------------------------
(* What the module promises.                                                 *)

\* A call that returns TRUE did what it says, after any order of calls, failed transfers and
\* timeouts: a read was answered by a device that was ready, every page of a program was taken
\* and finished, and an erase was taken.  The one exception is a program that was given up while
\* the device was still at it: nothing but a later look at the status tells that.
AnswersAreTrue == answer.kept \/ failed

\* An erase that was started and left alone is remembered till the device was seen ready.
EraseRemembered == busy = "erase" => erasing

-----------------------------------------------------------------------------
(* The inductive invariant these rest on.                                    *)

\* The types the driver's fields and the device keep.
TypeOK ==
  /\ erasing \in BOOLEAN
  /\ call \in {"none", "read", "check", "start", "erase", "program"}
  /\ at \in {"free", "enable", "command", "wait"}
  /\ asked \subseteq Pages /\ todo \subseteq asked
  /\ busy \in {"no", "program", "erase"} /\ wel \in BOOLEAN
  /\ cell \in [Pages -> {"erased", "data", "torn"}]
  /\ failed \in BOOLEAN

\* Where each call can be, and that nothing is answered while one is in progress.
Placed ==
  /\ call = "none" => at = "free"
  /\ call # "none" => answer.kept
  /\ at = "enable" => call \in {"start", "erase", "program"}
  /\ at = "command" => call \in {"read", "start", "erase", "program"}
  /\ at = "wait" => call \in {"erase", "program"}

\* Who waits for what the device is busy with: an erase is waited for or remembered, a program
\* is waited for or was given up.
Awaited ==
  /\ EraseRemembered
  /\ busy = "erase" => at = "free" \/ (call = "erase" /\ at = "wait")
  /\ busy = "program" => failed \/ (call = "program" /\ at = "wait")

\* A command that needs the latch finds the device ready and takes it.
Enabled == at = "command" /\ call # "read" => busy = "no" /\ wel

\* What the pages hold on the way: a page is torn only while the device is busy, the pages of a
\* program that were taken are data or about to be, and an erase takes all.
Written ==
  /\ busy = "no" => \A p \in Pages : cell[p] # "torn"
  /\ call = "program" => \A p \in asked \ todo :
       cell[p] = "data" \/ (busy = "program" /\ at = "wait" /\ cell[p] = "torn")
  /\ call = "erase" /\ at = "wait" =>
       \A p \in Pages : IF busy = "no" THEN cell[p] = "erased" ELSE cell[p] = "torn"
  /\ call = "erase" /\ at = "wait" => busy # "program"

Inv == TypeOK /\ Placed /\ Awaited /\ Enabled /\ Written /\ AnswersAreTrue

=============================================================================
