---------------------------- MODULE UartTxProofs ----------------------------
(* Proofs about the sending side of a UART, for every size of the buffer, every *)
(* hardware and every length of a frame.                                        *)
EXTENDS UartTx, TLAPS

(* The line.  The buffer gets empty before the hardware does, so what keeps the  *)
(* line driven in between is the wait: while it runs the hardware gets no bytes, *)
(* and each byte time of it takes one out.                                       *)
LineInv ==
  /\ handed <= fill /\ (dma \/ handed = 0)
  /\ dir_wait => fill = 0 /\ (wire = 0 \/ wire + since <= Depth)
  /\ ~direction => fill = 0 /\ wire = 0

(* The mark.  A transfer is started only when none is marked, so the hardware    *)
(* runs one that is.                                                             *)
MarkInv ==
  control # "device" =>
    /\ pc # "control"
    /\ handed > 0 => on /\ dma
    /\ MarkIsTrue
    /\ StartedOnce

(* The wakeup.  What a run found in the buffer it returns as its next release,   *)
(* unless it was stopped, and whoever stops it triggers it again; a byte put     *)
(* beside the frames starts a transfer of its own, if that is not refused.       *)
AwakeInv ==
  /\ control = "device" => ~refuses
  /\ pc = "control" => control = "device"
  /\ pc = "wait" /\ fill > 0 /\ ~Blocked => on \/ trigger # NoTrigger
  /\ pc \in {"state", "start", "turnaround"} /\ fill > 0 /\ ~Blocked =>
       bytes > 0 \/ on \/ trigger # NoTrigger

\* What a task returns is a number of byte times, and none only when neither of its
\* parts asks for one.
LEMMA ShorterNat ==
  ASSUME NEW a \in Nat, NEW b \in Nat
  PROVE  Shorter(a, b) \in Nat /\ (a > 0 \/ b > 0 => Shorter(a, b) > 0)
BY DEF Shorter, SmallerOf

\* The flags of the line stay flags.
LEMMA BeginTypes ==
  ASSUME BeginTransfer
  PROVE  direction' \in BOOLEAN /\ dir_auto' \in BOOLEAN /\ dir_wait' \in BOOLEAN /\ since' = 0
BY DEF BeginTransfer

\* The end of a run leaves a trigger that is a number of byte times or none, and one
\* of the two when it sent or has something to send.
LEMMA EndRunTrigger ==
  ASSUME TypeOK, NEW t \in Nat, EndRun(t)
  PROVE  /\ pc' = "wait" /\ bytes' = 0
         /\ trigger' \in Nat \cup {NoTrigger}
         /\ bytes > 0 \/ t > 0 \/ trigger # NoTrigger => trigger' # NoTrigger
<1>1. Shorter(bytes, t) \in Nat /\ (bytes > 0 \/ t > 0 => Shorter(bytes, t) > 0)
  BY ShorterNat DEF TypeOK
<1> QED
  BY <1>1, NoTriggerAssumption DEF EndRun, TypeOK

LEMMA InitTypes == Init => TypeOK
<1>1. 0 \in 0..Size /\ 0 \in 0..0 /\ 0 \in 0..Depth /\ 0 \in 0..DirDelay /\ 0 \in 0..Frames
  BY SizeAssumption
<1>2. Init => /\ direction \in BOOLEAN /\ fc_state \in BOOLEAN /\ on \in BOOLEAN
              /\ dir_auto \in BOOLEAN /\ dir_wait \in BOOLEAN
  BY DEF Init
<1>3. Init => /\ fill \in 0..Size /\ since \in 0..DirDelay /\ bytes \in Nat
              /\ block \in 0..handed /\ handed \in 0..Size
              /\ wire \in 0..Depth /\ frames \in 0..Frames
  BY <1>1 DEF Init
<1> QED
  BY <1>2, <1>3 DEF Init, TypeOK

\* The parts of the state that every step keeps in their types.
LEMMA TypeStep == ASSUME TypeOK, [Next]_vars PROVE TypeOK'
<1> USE SizeAssumption, NoTriggerAssumption DEF TypeOK, port, buffer, line, run, hardware
<1>1. CASE UNCHANGED vars
  BY <1>1 DEF vars
<1>2. ASSUME NEW n \in Lengths, SendTxData(n) PROVE TypeOK'
  <2>1. n \in Nat
    BY SizeAssumption
  <2> QED
    BY <1>2, <2>1, BeginTypes DEF SendTxData
<1>3. ASSUME NEW n \in Lengths, Send(n) PROVE TypeOK'
  <2>1. n \in Nat
    BY SizeAssumption
  <2>2. fill' \in 0..Size /\ bytes' \in Nat
    BY <1>3, <2>1 DEF Send, SmallerOf
  <2> QED
    BY <1>3, <2>2, BeginTypes DEF Send
<1>4. CASE TriggerSend BY <1>4 DEF TriggerSend
<1>5. CASE SendXonXoff
  <2>1. fill' \in 0..Size
    BY <1>5 DEF SendXonXoff, SmallerOf
  <2> QED
    BY <1>5, <2>1, BeginTypes DEF SendXonXoff
<1>6. CASE Release BY <1>6 DEF Release
<1>7. CASE TestBlocked BY <1>7 DEF TestBlocked
<1>8. CASE SendNothing BY <1>8 DEF SendNothing
<1>9. CASE ReadFill BY <1>9 DEF ReadFill
<1>10. CASE MarkSending BY <1>10 DEF MarkSending
<1>11. CASE Start BY <1>11 DEF Start, Starting
<1>12. CASE StartRefused BY <1>12 DEF StartRefused, Starting
<1>13. CASE NoTurnaround
  BY <1>13, EndRunTrigger DEF NoTurnaround
<1>14. CASE StillSending
  <2>1. dir_wait' \in BOOLEAN
    BY <1>14 DEF StillSending
  <2> QED
    BY <1>14, <2>1, EndRunTrigger DEF StillSending
<1>15. CASE WaitForLine
  <2>1. Waited \in 0..DirDelay /\ DirDelay - Waited \in Nat
    BY <1>15 DEF WaitForLine, Waited
  <2> QED
    BY <1>15, <2>1, EndRunTrigger DEF WaitForLine
<1>16. CASE GiveBack
  <2>1. direction' \in BOOLEAN /\ dir_auto' \in BOOLEAN /\ dir_wait' \in BOOLEAN /\ since' = 0
    BY <1>16 DEF GiveBack
  <2> QED
    BY <1>16, <2>1, EndRunTrigger DEF GiveBack
<1>17. CASE GetTxByte
  <2>1. on' \in BOOLEAN /\ tx_state' \in {"idle", "sending"}
    BY <1>17 DEF GetTxByte
  <2>2. fill' \in 0..Size /\ wire' \in 0..Depth
    BY <1>17 DEF GetTxByte
  <2> QED
    BY <1>17, <2>1, <2>2 DEF GetTxByte
<1>18. CASE StartGetTxData
  <2>1. on' \in BOOLEAN /\ tx_state' \in {"idle", "sending"}
    BY <1>18 DEF StartGetTxData
  <2>2. block' \in 0..handed' /\ handed' \in 0..Size
    <3>1. CASE fill = 0 \/ Blocked
      BY <1>18, <3>1 DEF StartGetTxData
    <3>2. CASE ~(fill = 0 \/ Blocked)
      <4>1. PICK n \in 1..fill : block' = n /\ handed' = n
        BY <1>18, <3>2 DEF StartGetTxData
      <4> QED
        BY <4>1
    <3> QED
      BY <3>1, <3>2
  <2> QED
    BY <1>18, <2>1, <2>2 DEF StartGetTxData
<1>19. CASE MoveByte BY <1>19 DEF MoveByte
<1>20. CASE EndGetTxData
  <2>1. on' \in BOOLEAN /\ tx_state' \in {"idle", "sending"}
    BY <1>20 DEF EndGetTxData
  <2>2. fill' \in 0..Size /\ block' \in 0..handed' /\ handed' \in 0..Size
    BY <1>20 DEF EndGetTxData
  <2> QED
    BY <1>20, <2>1, <2>2 DEF EndGetTxData
<1>21. CASE Tick
  <2>1. wire' \in 0..Depth
    BY <1>21 DEF Tick
  <2>2. since' \in 0..DirDelay
    BY <1>21 DEF Tick, SmallerOf
  <2>3. trigger' \in Nat \cup {NoTrigger}
    <3>1. CASE trigger \in {NoTrigger, 0}
      BY <1>21, <3>1 DEF Tick
    <3>2. CASE trigger \notin {NoTrigger, 0}
      <4>1. trigger \in Nat /\ trigger > 0 /\ trigger' = trigger - 1
        BY <1>21, <3>2 DEF Tick
      <4> QED
        BY <4>1
    <3> QED
      BY <3>1, <3>2
  <2> QED
    BY <1>21, <2>1, <2>2, <2>3 DEF Tick
<1>22. ASSUME NEW s \in BOOLEAN, SigTxFlowState(s) PROVE TypeOK'
  BY <1>22 DEF SigTxFlowState
<1>23. ASSUME NEW s \in BOOLEAN, SetDirection(s) PROVE TypeOK'
  <2>1. direction' \in BOOLEAN /\ dir_auto' \in BOOLEAN /\ dir_wait' \in BOOLEAN /\ since' = 0
    BY <1>23 DEF SetDirection
  <2> QED
    BY <1>23, <2>1 DEF SetDirection
<1> QED
  BY <1>1, <1>2, <1>3, <1>4, <1>5, <1>6, <1>7, <1>8, <1>9, <1>10, <1>11, <1>12, <1>13, <1>14,
     <1>15, <1>16, <1>17, <1>18, <1>19, <1>20, <1>21, <1>22, <1>23 DEF Next, Task, Interrupt

\* Every step keeps the line driven, when dir_delay covers what the hardware holds and
\* what the wait is too short by.
LEMMA LineStep == ASSUME DirDelay >= Depth + Short, TypeOK, LineInv, [Next]_vars PROVE LineInv'
<1> USE SizeAssumption DEF LineInv, TypeOK, port, buffer, line, run, hardware
<1>1. CASE UNCHANGED vars
  BY <1>1 DEF vars
<1>2. ASSUME NEW n \in Lengths, SendTxData(n) PROVE LineInv'
  <2>1. n \in Nat
    BY SizeAssumption
  <2> QED
    BY <1>2, <2>1 DEF SendTxData, BeginTransfer
<1>3. ASSUME NEW n \in Lengths, Send(n) PROVE LineInv'
  <2>1. n \in Nat
    BY SizeAssumption
  <2>2. fill' \in Nat /\ fill' >= fill
    BY <1>3, <2>1 DEF Send, SmallerOf
  <2> QED
    BY <1>3, <2>2 DEF Send, BeginTransfer
<1>4. CASE TriggerSend BY <1>4 DEF TriggerSend
<1>5. CASE SendXonXoff
  <2>1. fill' \in Nat /\ fill' >= fill
    BY <1>5 DEF SendXonXoff, SmallerOf
  <2> QED
    BY <1>5, <2>1 DEF SendXonXoff, BeginTransfer
<1>6. CASE Release BY <1>6 DEF Release
<1>7. CASE TestBlocked BY <1>7 DEF TestBlocked
<1>8. CASE SendNothing BY <1>8 DEF SendNothing
<1>9. CASE ReadFill BY <1>9 DEF ReadFill
<1>10. CASE MarkSending BY <1>10 DEF MarkSending
<1>11. CASE Start BY <1>11 DEF Start
<1>12. CASE StartRefused BY <1>12 DEF StartRefused
<1>13. CASE NoTurnaround BY <1>13 DEF NoTurnaround
<1>14. CASE StillSending BY <1>14 DEF StillSending
<1>15. CASE WaitForLine BY <1>15 DEF WaitForLine, Waited
<1>16. CASE GiveBack
  <2>1. Waited >= Depth
    BY <1>16 DEF GiveBack, Waited
  <2>2. dir_wait /\ since >= Depth
    BY <2>1 DEF Waited
  <2>3. fill = 0 /\ wire = 0
    BY <2>2
  <2> QED
    BY <1>16, <2>3 DEF GiveBack
<1>17. CASE GetTxByte
  <2>1. CASE Blocked \/ fill = 0
    BY <1>17, <2>1 DEF GetTxByte
  <2>2. CASE ~(Blocked \/ fill = 0)
    <3>1. handed = 0
      BY <1>17 DEF GetTxByte
    <3> QED
      BY <1>17, <2>2, <3>1 DEF GetTxByte
  <2> QED
    BY <2>1, <2>2
<1>18. CASE StartGetTxData
  <2>1. handed' <= fill
    <3>1. CASE fill = 0 \/ Blocked
      BY <1>18, <3>1 DEF StartGetTxData
    <3>2. CASE ~(fill = 0 \/ Blocked)
      <4>1. PICK n \in 1..fill : handed' = n
        BY <1>18, <3>2 DEF StartGetTxData
      <4> QED
        BY <4>1
    <3> QED
      BY <3>1, <3>2
  <2> QED
    BY <1>18, <2>1 DEF StartGetTxData
<1>19. CASE MoveByte
  <2>1. fill > 0
    BY <1>19 DEF MoveByte
  <2> QED
    BY <1>19, <2>1 DEF MoveByte
<1>20. CASE EndGetTxData BY <1>20 DEF EndGetTxData
<1>21. CASE Tick
  BY <1>21 DEF Tick, SmallerOf
<1>22. ASSUME NEW s \in BOOLEAN, SigTxFlowState(s) PROVE LineInv'
  BY <1>22 DEF SigTxFlowState
<1>23. ASSUME NEW s \in BOOLEAN, SetDirection(s) PROVE LineInv'
  BY <1>23 DEF SetDirection
<1> QED
  BY <1>1, <1>2, <1>3, <1>4, <1>5, <1>6, <1>7, <1>8, <1>9, <1>10, <1>11, <1>12, <1>13, <1>14,
     <1>15, <1>16, <1>17, <1>18, <1>19, <1>20, <1>21, <1>22, <1>23 DEF Next, Task, Interrupt

\* What the UART was set up with stays.
LEMMA PortKept == ASSUME [Next]_vars PROVE UNCHANGED port
BY DEF Next, vars, Task, Interrupt, SendTxData, Send, TriggerSend, SendXonXoff, Release,
   TestBlocked, SendNothing, ReadFill, MarkSending, Start, StartRefused, NoTurnaround,
   StillSending, WaitForLine, GiveBack, GetTxByte, StartGetTxData, MoveByte, EndGetTxData,
   Tick, SigTxFlowState, SetDirection

\* Every step keeps the mark, unless XON and XOFF are sent beside the frames.
LEMMA MarkStep ==
  ASSUME TypeOK, MarkInv, [Next]_vars
  PROVE  MarkInv'
<1> SUFFICES ASSUME control # "device", control' = control PROVE MarkInv'
  BY PortKept DEF port, MarkInv
<1> USE SizeAssumption DEF MarkInv, MarkIsTrue, StartedOnce, TypeOK, port, buffer, line, run, hardware
<1>1. CASE UNCHANGED vars
  BY <1>1 DEF vars
<1>2. ASSUME NEW n \in Lengths, SendTxData(n) PROVE MarkInv'
  BY <1>2 DEF SendTxData
<1>3. ASSUME NEW n \in Lengths, Send(n) PROVE MarkInv'
  BY <1>3 DEF Send
<1>4. CASE TriggerSend
  BY <1>4 DEF TriggerSend
<1>5. CASE SendXonXoff
  BY <1>5 DEF SendXonXoff
<1>6. CASE Release
  BY <1>6 DEF Release
<1>7. CASE TestBlocked
  BY <1>7 DEF TestBlocked
<1>8. CASE SendNothing
  BY <1>8 DEF SendNothing
<1>9. CASE ReadFill
  BY <1>9 DEF ReadFill
<1>10. CASE MarkSending
  BY <1>10 DEF MarkSending
<1>11. CASE Start
  BY <1>11 DEF Start, Starting
<1>12. CASE StartRefused
  BY <1>12 DEF StartRefused, Starting
<1>13. CASE NoTurnaround
  BY <1>13 DEF NoTurnaround, EndRun
<1>14. CASE StillSending
  BY <1>14 DEF StillSending, EndRun
<1>15. CASE WaitForLine
  BY <1>15 DEF WaitForLine, EndRun
<1>16. CASE GiveBack
  BY <1>16 DEF GiveBack, EndRun
<1>17. CASE GetTxByte
  <2>1. on /\ tx_state = "sending" /\ pc # "start"
    BY <1>17 DEF GetTxByte
  <2>2. \/ on' = FALSE /\ tx_state' = "idle"
        \/ on' = on /\ tx_state' = tx_state
    BY <1>17 DEF GetTxByte
  <2>3. ~dma /\ handed' = handed /\ pc' = pc
    BY <1>17 DEF GetTxByte
  <2> QED
    BY <2>1, <2>2, <2>3
<1>18. CASE StartGetTxData
  <2>1. on /\ tx_state = "sending" /\ pc # "start" /\ pc' = pc /\ handed = 0 /\ dma /\ dma' = dma
    BY <1>18 DEF StartGetTxData
  <2>2. \/ on' = FALSE /\ tx_state' = "idle" /\ ~(handed' > 0)
        \/ on' = on /\ tx_state' = tx_state
    <3>1. CASE fill = 0 \/ Blocked
      <4>1. handed' = 0
        BY <1>18, <3>1 DEF StartGetTxData
      <4>2. on' = FALSE /\ tx_state' = "idle"
        BY <1>18, <3>1 DEF StartGetTxData
      <4>3. ~(handed' > 0)
        BY <4>1
      <4> QED
        BY <4>2, <4>3
    <3>2. CASE ~(fill = 0 \/ Blocked)
      BY <1>18, <3>2 DEF StartGetTxData
    <3> QED
      BY <3>1, <3>2
  <2> QED
    BY <2>1, <2>2
<1>19. CASE MoveByte
  BY <1>19 DEF MoveByte
<1>20. CASE EndGetTxData
  <2>1. on /\ tx_state = "sending" /\ pc # "start" /\ pc' = pc
    BY <1>20 DEF EndGetTxData
  <2>3. ~(handed' > 0)
    BY <1>20 DEF EndGetTxData
  <2>2. \/ on' = FALSE /\ tx_state' = "idle"
        \/ on' = on /\ tx_state' = tx_state
    BY <1>20 DEF EndGetTxData
  <2> QED
    BY <2>1, <2>2, <2>3
<1>21. CASE Tick
  BY <1>21 DEF Tick
<1>22. ASSUME NEW s \in BOOLEAN, SigTxFlowState(s) PROVE MarkInv'
  BY <1>22 DEF SigTxFlowState
<1>23. ASSUME NEW s \in BOOLEAN, SetDirection(s) PROVE MarkInv'
  BY <1>23 DEF SetDirection
<1> QED
  BY <1>1, <1>2, <1>3, <1>4, <1>5, <1>6, <1>7, <1>8, <1>9, <1>10, <1>11, <1>12, <1>13, <1>14,
     <1>15, <1>16, <1>17, <1>18, <1>19, <1>20, <1>21, <1>22, <1>23 DEF Next, Task, Interrupt

\* Every step keeps the wakeup.
LEMMA AwakeStep ==
  ASSUME TypeOK, AwakeInv, [Next]_vars
  PROVE  AwakeInv'
<1> USE SizeAssumption, NoTriggerAssumption
    DEF AwakeInv, Blocked, TypeOK, port, buffer, line, run, hardware
<1>1. CASE UNCHANGED vars
  BY <1>1 DEF vars
<1>2. ASSUME NEW n \in Lengths, SendTxData(n) PROVE AwakeInv'
  BY <1>2 DEF SendTxData
<1>3. ASSUME NEW n \in Lengths, Send(n) PROVE AwakeInv'
  BY <1>3 DEF Send
<1>4. CASE TriggerSend
  BY <1>4 DEF TriggerSend
<1>5. CASE SendXonXoff
  BY <1>5 DEF SendXonXoff
<1>6. CASE Release
  BY <1>6 DEF Release
<1>7. CASE TestBlocked
  BY <1>7 DEF TestBlocked
<1>8. CASE SendNothing
  BY <1>8 DEF SendNothing
<1>9. CASE ReadFill
  BY <1>9 DEF ReadFill
<1>10. CASE MarkSending
  BY <1>10 DEF MarkSending
<1>11. CASE Start
  BY <1>11 DEF Start, Starting
<1>12. CASE StartRefused
  BY <1>12 DEF StartRefused, Starting
<1>13. CASE NoTurnaround
  BY <1>13, EndRunTrigger DEF NoTurnaround
<1>14. CASE StillSending
  BY <1>14, EndRunTrigger DEF StillSending
<1>15. CASE WaitForLine
  BY <1>15 DEF WaitForLine, EndRun
<1>16. CASE GiveBack
  BY <1>16 DEF GiveBack, EndRun
<1>17. CASE GetTxByte
  <2>1. on /\ UNCHANGED <<port, fc_state, trigger, pc, bytes>>
    BY <1>17 DEF GetTxByte
  <2>2. CASE Blocked
    BY <2>1, <2>2
  <2>3. CASE ~Blocked /\ fill <= 1
    <3>1. fill' = 0
      BY <1>17, <2>3 DEF GetTxByte
    <3> QED
      BY <2>1, <3>1
  <2>4. CASE ~Blocked /\ ~(fill <= 1)
    <3>1. on' = on
      BY <1>17, <2>4 DEF GetTxByte
    <3> QED
      BY <2>1, <3>1
  <2> QED
    BY <2>2, <2>3, <2>4
<1>18. CASE StartGetTxData
  <2>1. on /\ UNCHANGED <<port, fill, fc_state, trigger, pc, bytes>>
    BY <1>18 DEF StartGetTxData
  <2>2. CASE fill = 0 \/ Blocked
    BY <2>1, <2>2
  <2>3. CASE ~(fill = 0 \/ Blocked)
    <3>1. on' = on
      BY <1>18, <2>3 DEF StartGetTxData
    <3> QED
      BY <2>1, <3>1
  <2> QED
    BY <2>2, <2>3
<1>19. CASE MoveByte
  BY <1>19 DEF MoveByte
<1>20. CASE EndGetTxData
  BY <1>20 DEF EndGetTxData
<1>21. CASE Tick
  BY <1>21 DEF Tick
<1>22. ASSUME NEW s \in BOOLEAN, SigTxFlowState(s) PROVE AwakeInv'
  BY <1>22 DEF SigTxFlowState
<1>23. ASSUME NEW s \in BOOLEAN, SetDirection(s) PROVE AwakeInv'
  BY <1>23 DEF SetDirection
<1> QED
  BY <1>1, <1>2, <1>3, <1>4, <1>5, <1>6, <1>7, <1>8, <1>9, <1>10, <1>11, <1>12, <1>13, <1>14,
     <1>15, <1>16, <1>17, <1>18, <1>19, <1>20, <1>21, <1>22, <1>23 DEF Next, Task, Interrupt

\* The buffer, the hardware and the wait keep their types: the fill size stays within
\* the buffer, and what the hardware holds within the hardware.
THEOREM TypeCorrect == Spec => []TypeOK
<1>1. Init => TypeOK
  BY InitTypes
<1>2. TypeOK /\ [Next]_vars => TypeOK'
  BY TypeStep
<1> QED
  BY <1>1, <1>2, PTL DEF Spec

\* The line of a half duplex UART is driven till the last byte is on it
\* (_beginTransfer, _checkTurnaround), for every hardware that holds no more bytes
\* than dir_delay waits for, whatever the byte time loses by being cut off.
THEOREM LineIsDriven == ASSUME DirDelay >= Depth + Short PROVE Spec => []LineDriven
<1>1. Init => TypeOK /\ LineInv
  BY InitTypes DEF Init, LineInv
<1>2. TypeOK /\ LineInv /\ [Next]_vars => TypeOK' /\ LineInv'
  BY TypeStep, LineStep
<1>3. TypeOK /\ LineInv => LineDriven
  BY DEF TypeOK, LineInv, LineDriven
<1> QED
  BY <1>1, <1>2, <1>3, PTL DEF Spec

\* __tx_state marks the transfers of the hardware, and act_start_transfer is never
\* called while one runs, when XON and XOFF are not sent beside the frames.
THEOREM MarkIsRight == Spec => [](MarkIsTrue /\ StartedOnce)
<1>1. Init => TypeOK /\ MarkInv
  BY InitTypes DEF Init, MarkInv, MarkIsTrue, StartedOnce
<1>2. TypeOK /\ MarkInv /\ [Next]_vars => TypeOK' /\ MarkInv'
  BY TypeStep, MarkStep
<1>3. MarkInv => MarkIsTrue /\ StartedOnce
  BY DEF MarkInv, MarkIsTrue, StartedOnce
<1> QED
  BY <1>1, <1>2, <1>3, PTL DEF Spec

\* No byte is left in the transmit buffer: while it may be sent, the TX task is about
\* to look at it, whatever stopped and refused the transfer before, unless XON and XOFF
\* are sent beside the frames to a hardware that may refuse.
THEOREM NoByteLeft ==
  ASSUME \A p \in Ports : ~(p[2] = "device" /\ p[4]) PROVE Spec => []TxAwake
<1>1. Init => TypeOK /\ AwakeInv
  <2>1. Init => (control = "device" => ~refuses)
    BY DEF Init, port
  <2> QED
    BY <2>1, InitTypes DEF Init, AwakeInv
<1>2. TypeOK /\ AwakeInv /\ [Next]_vars => TypeOK' /\ AwakeInv'
  BY TypeStep, AwakeStep
<1>3. AwakeInv => TxAwake
  BY DEF AwakeInv, TxAwake
<1> QED
  BY <1>1, <1>2, <1>3, PTL DEF Spec
=============================================================================
