------------------------------ MODULE Devices ------------------------------
(* The drivers of some devices side by side: a NOR flash behind SPI, a region of the flash of    *)
(* the MCU, a pulse sensor, the channels of solenoids and a key of a keypad.  None of them        *)
(* touches what another one keeps, so that a step is one of one of them.  What each promises is  *)
(* stated here of all behaviours, and proved in DevicesProofs.                                    *)
EXTENDS Integers

CONSTANTS
  NorPages, NorFaults,
  RegionSize, RegionEraseSize, RegionProgramSize, Chunks, Records,
  PulseSize, PulseWraps, PulseEdges, PulseResets, PulseValues,
  ValveSize, ValveOnTime, ValveDelays, ValveDirs, ValveTwoPoint, ValveLate, ValveNever,
  KeyHold, KeyDouble, KeyLong, KeyDelay, KeyPeriod, KeyMaxGap, KeyOldest, KeyPresses

\* pifFlash_Init() takes no region but one with a program unit, whose erase unit, if it has one,
\* is whole program units.
ASSUME RegionAssumption ==
  /\ RegionSize \in Nat /\ RegionEraseSize \in Nat
  /\ RegionProgramSize \in Nat /\ RegionProgramSize > 0
  /\ RegionEraseSize % RegionProgramSize = 0
  /\ Chunks \subseteq Nat

\* The edges of a pulse are kept in PIF_PULSE_DATA_SIZE slots, 4 if it is not configured: a
\* period needs two.  The sequence number of the edges is a uint8_t: PulseWraps is 256.
ASSUME PulseAssumption ==
  /\ PulseSize \in Nat /\ PulseSize >= 2
  /\ PulseWraps \in Nat /\ PulseWraps > 0
  /\ PulseValues \subseteq {"period", "average", "low", "high"}

\* There is a channel, each has a buffer of so many commands or none, and what is timed ends.
ASSUME ValveAssumption ==
  /\ DOMAIN ValveSize # {} /\ ValveSize \in [DOMAIN ValveSize -> Nat]
  /\ ValveNever \in Nat /\ ValveLate \in Nat
  /\ ValveOnTime \in Nat /\ ValveOnTime < ValveNever
  /\ \A delay \in ValveDelays : delay \in Nat /\ delay < ValveNever

\* The times of a key are in the order the setters keep them in, from pifKeypad_SetHoldTime() to
\* pifKeypad_SetRepeatTime(); a press takes time, and ages are told apart as far as one counts.
ASSUME KeyAssumption ==
  /\ KeyHold \in Nat /\ KeyDouble \in Nat /\ KeyLong \in Nat /\ KeyDelay \in Nat /\ KeyPeriod \in Nat
  /\ 0 < KeyHold /\ KeyHold < KeyDouble /\ KeyDouble < KeyLong /\ KeyDouble <= KeyDelay
  /\ KeyMaxGap \in Nat /\ KeyOldest \in Nat
  /\ KeyLong <= KeyOldest /\ KeyHold + KeyMaxGap <= KeyOldest

\* The task scans often enough for the time between a press and a long one not to pass unseen.
ASSUME ScansInTime ==
  KeyDouble + KeyMaxGap <= KeyLong /\ KeyHold + KeyMaxGap + KeyMaxGap <= KeyLong

VARIABLES
  \* the NOR flash
  norErasing, norCall, norAt, norAsked, norTodo, norBusy, norWel, norCell, norAnswer,
  norFailed, norFaulted,
  \* the record in the flash of the MCU
  recWriting, recPosition, recFill, recNextErase, recFailed, recRecord, recMem, recEnded,
  \* the pulse
  pulseRising, pulseFalling, pulsePtr, pulseLast, pulseCount, pulsePending, pulseHasRising,
  pulseSeq, pulseTime, pulseGap, pulseReset, pulseValue, pulsePc, pulseRead,
  \* the solenoids
  valveState, valveDir, valveEnd, valveWait, valveQueue, valveTrigger,
  \* the key
  keyDoubles, keyState, keyPressed, keyShort, keyDouble, keyLong, keyCount, keyAge, keyFirst,
  keyDown, keyRun, keyTold, keyCertain, keyPossible, keyReported, keyPresses

norVars ==
  <<norErasing, norCall, norAt, norAsked, norTodo, norBusy, norWel, norCell, norAnswer,
    norFailed, norFaulted>>
recVars ==
  <<recWriting, recPosition, recFill, recNextErase, recFailed, recRecord, recMem, recEnded>>
pulseVars ==
  <<pulseRising, pulseFalling, pulsePtr, pulseLast, pulseCount, pulsePending, pulseHasRising,
    pulseSeq, pulseTime, pulseGap, pulseReset, pulseValue, pulsePc, pulseRead>>
valveVars == <<valveState, valveDir, valveEnd, valveWait, valveQueue, valveTrigger>>
keyVars ==
  <<keyDoubles, keyState, keyPressed, keyShort, keyDouble, keyLong, keyCount, keyAge, keyFirst,
    keyDown, keyRun, keyTold, keyCertain, keyPossible, keyReported, keyPresses>>
deviceVars == <<norVars, recVars, pulseVars, valveVars, keyVars>>

Nor == INSTANCE NorFlash WITH
  Pages <- NorPages, Faults <- NorFaults, erasing <- norErasing, call <- norCall, at <- norAt,
  asked <- norAsked, todo <- norTodo, busy <- norBusy, wel <- norWel, cell <- norCell,
  answer <- norAnswer, failed <- norFailed, faults <- norFaulted

Record == INSTANCE FlashRecord WITH
  Size <- RegionSize, EraseSize <- RegionEraseSize, ProgramSize <- RegionProgramSize,
  writing <- recWriting, position <- recPosition, fill <- recFill, next_erase <- recNextErase,
  failed <- recFailed, record <- recRecord, mem <- recMem, ended <- recEnded

Edges == INSTANCE Pulse WITH
  Size <- PulseSize, Wraps <- PulseWraps, Edges <- PulseEdges, Resets <- PulseResets,
  Values <- PulseValues,
  rising <- pulseRising, falling <- pulseFalling, ptr <- pulsePtr, last <- pulseLast,
  count <- pulseCount, pending <- pulsePending, has_rising <- pulseHasRising,
  seq <- pulseSeq, time <- pulseTime, gap <- pulseGap, resets <- pulseReset,
  value <- pulseValue, pc <- pulsePc, read <- pulseRead

Valves == INSTANCE Solenoid WITH
  Size <- ValveSize, OnTime <- ValveOnTime, Delays <- ValveDelays, Dirs <- ValveDirs,
  TwoPoint <- ValveTwoPoint, Late <- ValveLate, Never <- ValveNever, state <- valveState,
  dir <- valveDir, end <- valveEnd, wait <- valveWait, queue <- valveQueue,
  trigger <- valveTrigger

Key == INSTANCE Keypad WITH
  Hold <- KeyHold, Double <- KeyDouble, Long <- KeyLong, Delay <- KeyDelay, Period <- KeyPeriod,
  MaxGap <- KeyMaxGap, Oldest <- KeyOldest, Presses <- KeyPresses, doubles <- keyDoubles,
  state <- keyState, pressed <- keyPressed, short <- keyShort, double <- keyDouble,
  long <- keyLong, count <- keyCount, age <- keyAge, first <- keyFirst, down <- keyDown,
  run <- keyRun, told <- keyTold, certain <- keyCertain, possible <- keyPossible,
  reported <- keyReported, presses <- keyPresses

-----------------------------------------------------------------------------
DevicesInit == Nor!Init /\ Record!Init /\ Edges!Init /\ Valves!Init /\ Key!Init

DevicesNext ==
  \/ Nor!Next /\ UNCHANGED <<recVars, pulseVars, valveVars, keyVars>>
  \/ Record!Next /\ UNCHANGED <<norVars, pulseVars, valveVars, keyVars>>
  \/ Edges!Next /\ UNCHANGED <<norVars, recVars, valveVars, keyVars>>
  \/ Valves!Next /\ UNCHANGED <<norVars, recVars, pulseVars, keyVars>>
  \/ Key!Next /\ UNCHANGED <<norVars, recVars, pulseVars, valveVars>>

DevicesSpec == DevicesInit /\ [][DevicesNext]_deviceVars

-----------------------------------------------------------------------------
\* NOR flash: a call that returns TRUE did what it says, and an erase that was left alone is
\* remembered.  MCU flash: a record that ended well is in the region whole, and what is
\* programmed of it stays.
AnswersAreTrue ==
  /\ Nor!AnswersAreTrue /\ Nor!EraseRemembered
  /\ Record!EndTells /\ Record!WrittenStays

\* Pulses: a measurement is about edges of one signal.
Consistent == Edges!Consistent

\* Solenoids: one trigger serves the deadlines of all channels, a queued command waits for the
\* moment it was asked for, and nothing is left of the queue of a channel switched off.
ValvesInTime == Valves!NeverLate /\ Valves!QueueBehindDelay /\ Valves!AsAsked

\* Keypad: the events of a key follow each other as they should, and every press that lasts is
\* told of once.
PressesTold == Key!EventsInOrder /\ Key!EachPressOnce
=============================================================================
