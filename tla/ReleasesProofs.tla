--------------------------- MODULE ReleasesProofs ---------------------------
(* A pending step is released in time and no signal is lost, a timeout has its task triggered and *)
(* a distance is that of one echo: proved for every set of delays and steps of any length.  And,  *)
(* of the log: every output gets the pieces in order, once or counted, and a command's texts come *)
(* out in order, for every size of its buffers and every load.                                    *)
EXTENDS Releases, Printing, Sequences, FiniteSetTheorems, WellFoundedInduction, TLAPS

-----------------------------------------------------------------------------
(* The sequence.                                                             *)

\* The longest delay is one, and none is longer.
LEMMA LongerBounds ==
  Steps!Longer \in Nat /\ Steps!Longer >= Steps!WaitPoll /\ \A d \in StepDelays : d \in 0..Steps!Longer
<1> DEFINE S == StepDelays \cup {Steps!WaitPoll}
<1>1. PICK m \in S : \A d \in S : d <= m
  BY StepAssumption DEF Steps!WaitPoll
<1>2. S \subseteq Nat
  BY StepAssumption DEF Steps!WaitPoll
<1>3. Steps!Longer = CHOOSE x \in S : \A y \in S : x >= y
  BY DEF Steps!Longer, Steps!Max
<1>4. \E x \in S : \A y \in S : x >= y
  BY <1>1, <1>2
<1> HIDE DEF S
<1>5. Steps!Longer \in S /\ \A y \in S : Steps!Longer >= y
  BY <1>3, <1>4
<1>6. StepDelays \subseteq S /\ Steps!WaitPoll \in S
  BY DEF S
<1> QED
  BY <1>2, <1>5, <1>6

LEMMA StepsInit == ASSUME Steps!Init PROVE Steps!Inv
<1>1. 0 \in 0..Steps!Longer /\ Steps!WaitPoll \in 0..Steps!Longer
  BY LongerBounds DEF Steps!WaitPoll
<1> QED
  BY <1>1 DEF Steps!Init, Steps!Inv, Steps!TypeOK, Steps!Unpaused, Steps!ReleasedInTime, Steps!SignalKept

\* Every step of the task, of another one, of the interrupt and of time keeps the invariant.
LEMMA StepsStep == ASSUME Steps!Inv, [Steps!Next]_(Steps!vars) PROVE Steps!Inv'
<1> USE LongerBounds DEF Steps!Inv, Steps!TypeOK, Steps!WaitPoll, Steps!sequence
<1>1. CASE Steps!Poll
  <2>1. Steps!TypeOK'
    BY <1>1 DEF Steps!Poll, Steps!Due, Steps!TimedOut
  <2>2. Steps!Unpaused'
    BY <1>1 DEF Steps!Poll, Steps!Due, Steps!TimedOut, Steps!Unpaused
  <2>3. Steps!ReleasedInTime'
    BY <1>1 DEF Steps!Poll, Steps!Due, Steps!TimedOut, Steps!Unpaused, Steps!ReleasedInTime
  <2>4. Steps!SignalKept'
    BY <1>1 DEF Steps!Poll, Steps!Due, Steps!TimedOut, Steps!SignalKept
  <2> QED
    BY <2>1, <2>2, <2>3, <2>4
<1>2. CASE Steps!Return
  <2>1. Steps!TypeOK'
    BY <1>2 DEF Steps!Return, Steps!NextPoll, Steps!TimedOut
  <2>2. Steps!Unpaused'
    BY <1>2 DEF Steps!Return, Steps!NextPoll, Steps!TimedOut, Steps!Unpaused
  <2>3. Steps!ReleasedInTime'
    BY <1>2 DEF Steps!Return, Steps!NextPoll, Steps!TimedOut, Steps!Unpaused, Steps!ReleasedInTime
  <2>4. Steps!SignalKept'
    BY <1>2 DEF Steps!Return, Steps!NextPoll, Steps!TimedOut, Steps!SignalKept
  <2> QED
    BY <2>1, <2>2, <2>3, <2>4
<1>3. CASE Steps!Next0
  <2>1. Steps!TypeOK'
    BY <1>3 DEF Steps!Next0, Steps!Chosen
  <2>2. Steps!Unpaused'
    BY <1>3 DEF Steps!Next0, Steps!Chosen, Steps!Unpaused
  <2>3. Steps!ReleasedInTime'
    BY <1>3 DEF Steps!Next0, Steps!Chosen, Steps!Unpaused, Steps!ReleasedInTime
  <2>4. Steps!SignalKept'
    BY SMTT(60), <1>3 DEF Steps!Next0, Steps!Chosen, Steps!SignalKept
  <2> QED
    BY <2>1, <2>2, <2>3, <2>4
<1>4. CASE Steps!Delay
  <2>1. Steps!TypeOK'
    BY <1>4 DEF Steps!Delay, Steps!Chosen
  <2>2. Steps!Unpaused'
    BY <1>4 DEF Steps!Delay, Steps!Chosen, Steps!Unpaused
  <2>3. Steps!ReleasedInTime'
    BY <1>4 DEF Steps!Delay, Steps!Chosen, Steps!Unpaused, Steps!ReleasedInTime
  <2>4. Steps!SignalKept'
    BY <1>4 DEF Steps!Delay, Steps!Chosen, Steps!SignalKept
  <2> QED
    BY <2>1, <2>2, <2>3, <2>4
<1>5. CASE Steps!Wait
  <2>1. Steps!TypeOK'
    <3>1. PICK wait \in StepDelays, h \in BOOLEAN :
            /\ Steps!Chosen("wait", wait) /\ stepTimed' = (wait > 0) /\ stepHandler' = h
            /\ stepEvent' = FALSE /\ stepRaised' = FALSE
      BY <1>5, Zenon DEF Steps!Wait
    <3>2. stepTimed' \in BOOLEAN /\ stepHandler' \in BOOLEAN
      BY <3>1
    <3>3. wait \in 0..Steps!Longer
      BY LongerBounds
    <3>4. stepLeft' \in 0..Steps!Longer /\ stepPeriod' \in 0..Steps!Longer /\ stepSince' \in 0..Steps!Longer
      BY <3>1, <3>3 DEF Steps!Chosen
    <3> QED
      BY <3>1, <3>2, <3>4 DEF Steps!Chosen
  <2>2. Steps!Unpaused'
    BY <1>5 DEF Steps!Wait, Steps!Chosen, Steps!Unpaused
  <2>3. Steps!ReleasedInTime'
    BY <1>5 DEF Steps!Wait, Steps!Chosen, Steps!Unpaused, Steps!ReleasedInTime
  <2>4. Steps!SignalKept'
    BY <1>5 DEF Steps!Wait, Steps!Chosen, Steps!SignalKept
  <2> QED
    BY <2>1, <2>2, <2>3, <2>4
<1>6. CASE Steps!Start
  <2>1. Steps!TypeOK'
    <3>1. stepPeriod' \in 0..Steps!Longer
      BY <1>6, LongerBounds DEF Steps!Start
    <3> QED
      BY <1>6, <3>1 DEF Steps!Start
  <2>2. Steps!Unpaused'
    BY <1>6 DEF Steps!Start, Steps!Unpaused
  <2>3. Steps!ReleasedInTime'
    BY <1>6 DEF Steps!Start, Steps!Unpaused, Steps!ReleasedInTime
  <2>4. Steps!SignalKept'
    BY <1>6 DEF Steps!Start, Steps!SignalKept
  <2> QED
    BY <2>1, <2>2, <2>3, <2>4
<1>7. CASE Steps!Stop
  <2>1. Steps!TypeOK'
    BY <1>7 DEF Steps!Stop
  <2>2. Steps!Unpaused'
    BY <1>7 DEF Steps!Stop, Steps!Unpaused
  <2>3. Steps!ReleasedInTime'
    BY <1>7 DEF Steps!Stop, Steps!Unpaused, Steps!ReleasedInTime
  <2>4. Steps!SignalKept'
    BY <1>7 DEF Steps!Stop, Steps!SignalKept
  <2> QED
    BY <2>1, <2>2, <2>3, <2>4
<1>8. CASE Steps!Signal
  <2>1. Steps!TypeOK'
    BY <1>8 DEF Steps!Signal
  <2>2. Steps!Unpaused'
    BY <1>8 DEF Steps!Signal, Steps!Unpaused
  <2>3. Steps!ReleasedInTime'
    BY <1>8 DEF Steps!Signal, Steps!Unpaused, Steps!ReleasedInTime
  <2>4. Steps!SignalKept'
    BY <1>8 DEF Steps!Signal, Steps!SignalKept
  <2> QED
    BY <2>1, <2>2, <2>3, <2>4
<1>9. CASE Steps!Tick
  <2>1. Steps!TypeOK'
    BY <1>9 DEF Steps!Tick
  <2>2. Steps!Unpaused'
    BY <1>9 DEF Steps!Tick, Steps!Unpaused
  <2>3. Steps!ReleasedInTime'
    BY <1>9 DEF Steps!Tick, Steps!Unpaused, Steps!ReleasedInTime
  <2>4. Steps!SignalKept'
    BY <1>9 DEF Steps!Tick, Steps!SignalKept
  <2> QED
    BY <2>1, <2>2, <2>3, <2>4
<1>10. CASE UNCHANGED Steps!vars
  BY <1>10 DEF Steps!vars, Steps!Unpaused, Steps!ReleasedInTime, Steps!SignalKept
<1> QED
  BY <1>1, <1>2, <1>3, <1>4, <1>5, <1>6, <1>7, <1>8, <1>9, <1>10 DEF Steps!Next

\* While a step is pending the task is released no later than it is due, and a signal raised
\* since a wait began is there when the wait is looked at.
THEOREM StepsFollow == Steps!Spec => [](Steps!ReleasedInTime /\ Steps!SignalKept)
<1>1. Steps!Inv => Steps!ReleasedInTime /\ Steps!SignalKept
  BY DEF Steps!Inv
<1> QED
  BY <1>1, StepsInit, StepsStep, PTL DEF Steps!Spec

-----------------------------------------------------------------------------
(* The trigger.                                                              *)

LEMMA Moments == 0 \in 0..TrigFar /\ -1 \in -1..TrigFar /\ TrigFar \in 0..TrigFar
  BY TriggerAssumption

LEMMA TriggerInit == ASSUME Trigger!Init PROVE Trigger!Inv
<1> USE DEF Trigger!Init, Trigger!Stopped, Trigger!Main
<1>1. Trigger!TypeOK
  <2>1. trigLeft \in [Trigger!Timeout -> -1..TrigFar]
    BY Moments
  <2> QED
    BY <2>1, Moments DEF Trigger!TypeOK
<1>2. Trigger!StoresApart /\ Trigger!Stored /\ Trigger!StoredTwice
  BY DEF Trigger!StoresApart, Trigger!Stored, Trigger!StoredTwice
<1>3. Trigger!AllArmed
  BY DEF Trigger!AllArmed, Trigger!Asked, Trigger!Armed, Trigger!Timeout
<1> QED
  BY <1>1, <1>2, <1>3 DEF Trigger!Inv

\* The stores of a trigger that is set in the main context.
LEMMA TriggerStores == ASSUME Trigger!Inv, Trigger!SetTrigger PROVE Trigger!Inv'
<1> USE DEF Trigger!Inv, Trigger!SetTrigger, Trigger!StoreTime, Trigger!StoreFlag, Trigger!StoreDelay,
         Trigger!Main
<1>1. Trigger!TypeOK'
  <2>1. trigFlag' \in BOOLEAN /\ trigDelay' \in 0..TrigFar /\ trigAge' \in 0..TrigFar
    BY Moments DEF Trigger!TypeOK
  <2> QED
    BY <2>1 DEF Trigger!TypeOK
<1>2. Trigger!StoresApart' /\ Trigger!Stored' /\ Trigger!StoredTwice'
  BY DEF Trigger!TypeOK, Trigger!StoresApart, Trigger!Stored, Trigger!StoredTwice
<1>3. Trigger!AllArmed'
  BY DEF Trigger!TypeOK, Trigger!StoredTwice, Trigger!AllArmed, Trigger!Asked, Trigger!Armed, Trigger!Timeout, Trigger!Stopped
<1> QED
  BY <1>1, <1>2, <1>3

\* An interrupt sets it at once.
LEMMA TriggerInterrupt ==
  ASSUME Trigger!Inv, NEW d \in TrigIsrDelays, Trigger!Interrupt(d) PROVE Trigger!Inv'
<1> USE DEF Trigger!Inv, Trigger!Interrupt, Trigger!Main
<1>0. d = 0
  BY TriggerAssumption
<1>1. Trigger!TypeOK'
  <2>1. trigFlag' \in BOOLEAN /\ trigDelay' \in 0..TrigFar /\ trigAge' \in 0..TrigFar
    BY <1>0, Moments
  <2> QED
    BY <2>1 DEF Trigger!TypeOK
<1>2. Trigger!StoresApart' /\ Trigger!Stored' /\ Trigger!StoredTwice'
  BY DEF Trigger!TypeOK, Trigger!StoresApart, Trigger!Stored, Trigger!StoredTwice
<1>3. Trigger!AllArmed'
  BY <1>0 DEF Trigger!TypeOK, Trigger!AllArmed, Trigger!Asked, Trigger!Armed, Trigger!Timeout, Trigger!Stopped
<1> QED
  BY <1>1, <1>2, <1>3

\* _triggerBefore(): what runs stays in time, and so does the timeout it is called for.
LEMMA Before ==
  ASSUME Trigger!TypeOK, Trigger!Main, NEW t \in 0..TrigFar, Trigger!TriggerBefore(t),
         UNCHANGED <<trigFlag, trigDelay, trigAge>>
  PROVE  /\ trigTodo' \in {"none", "time"} /\ trigArg' \in 0..TrigFar
         /\ trigTodo' = "none" => trigFlag /\ trigDelay - trigAge <= t
         /\ trigTodo' # "none" => trigArg' = t /\ ~(trigFlag /\ trigDelay - trigAge <= t)
  BY DEF Trigger!TypeOK, Trigger!Main, Trigger!TriggerBefore, Trigger!store

\* The other timeouts that have the trigger keep it, or have a nearer one.
LEMMA StillArmed ==
  ASSUME Trigger!TypeOK, Trigger!Main, NEW t \in 0..TrigFar, Trigger!TriggerBefore(t),
         UNCHANGED <<trigFlag, trigDelay, trigAge>>,
         NEW k \in Trigger!Timeout, Trigger!Armed(k), trigLeft'[k] = trigLeft[k]
  PROVE  Trigger!Armed(k)'
<1>1. trigLeft[k] \in -1..TrigFar
  BY DEF Trigger!TypeOK, Trigger!Stopped
<1>2. CASE trigTodo' = "none"
  BY <1>2 DEF Trigger!Armed, Trigger!Main
<1>3. CASE trigTodo' # "none"
  <2>1. trigArg' = t /\ ~(trigFlag /\ trigDelay - trigAge <= t)
    BY <1>3, Before
  <2>2. trigDelay - trigAge \in Int
    BY DEF Trigger!TypeOK
  <2>3. trigLeft[k] # Trigger!Stopped => t <= trigLeft[k]
    BY <1>1, <2>1, <2>2, TriggerAssumption DEF Trigger!Armed, Trigger!Main
  <2> QED
    BY <1>3, <2>1, <2>3 DEF Trigger!Armed, Trigger!Main
<1> QED
  BY <1>2, <1>3

LEMMA TriggerStart ==
  ASSUME Trigger!Inv, NEW k \in Trigger!Timeout, NEW t \in TrigTimes, Trigger!Start(k, t)
  PROVE  Trigger!Inv'
<1> USE DEF Trigger!Inv
<1>1. /\ trigPc = "top" /\ Trigger!Main /\ trigLeft' = [trigLeft EXCEPT ![k] = t]
      /\ Trigger!TriggerBefore(t) /\ UNCHANGED <<trigFlag, trigDelay, trigAge>> /\ trigPc' = "top"
  BY DEF Trigger!Start, Trigger!Main, Trigger!trigger
<1>2. t \in 0..TrigFar /\ t # Trigger!Stopped
  BY TriggerAssumption DEF Trigger!Stopped
<1>3. Trigger!TypeOK'
  <2>1. t \in Trigger!Stopped..TrigFar
    BY <1>2, TriggerAssumption DEF Trigger!Stopped
  <2>2. trigLeft' \in [Trigger!Timeout -> Trigger!Stopped..TrigFar]
    BY <1>1, <2>1 DEF Trigger!TypeOK
  <2> QED
    BY <1>1, <1>2, <2>2, Before DEF Trigger!TypeOK
<1>4. Trigger!StoresApart' /\ Trigger!Stored' /\ Trigger!StoredTwice'
  <2>1. trigTodo' \in {"none", "time"}
    BY <1>1, <1>2, Before
  <2> QED
    BY <1>1, <2>1 DEF Trigger!StoresApart, Trigger!Stored, Trigger!StoredTwice
<1>5. Trigger!AllArmed'
  <2> SUFFICES ASSUME NEW j \in Trigger!Timeout PROVE Trigger!Armed(j)'
    BY <1>1 DEF Trigger!AllArmed, Trigger!Asked
  <2>1. Trigger!Armed(j)
    BY <1>1 DEF Trigger!AllArmed, Trigger!Asked
  <2>2. CASE j = k
    <3>1. trigLeft'[j] = t
      BY <1>1, <2>2 DEF Trigger!TypeOK
    <3>2. CASE trigTodo' = "none"
      BY <1>1, <1>2, <3>1, <3>2, Before DEF Trigger!Armed, Trigger!Main
    <3>3. CASE trigTodo' # "none"
      <4>1. trigArg' = t /\ t <= t
        BY <1>1, <1>2, <3>3, Before
      <4> QED
        BY <3>1, <3>3, <4>1 DEF Trigger!Armed, Trigger!Main
    <3> QED
      BY <3>2, <3>3
  <2>3. CASE j # k
    <3>1. trigLeft'[j] = trigLeft[j]
      BY <1>1, <2>3 DEF Trigger!TypeOK
    <3> QED
      BY <1>1, <1>2, <2>1, <3>1, StillArmed
  <2> QED
    BY <2>2, <2>3
<1> QED
  BY <1>3, <1>4, <1>5

\* A timeout that is stopped leaves the others; a trigger is cancelled when all are.
LEMMA TriggerStop ==
  ASSUME Trigger!Inv, NEW k \in Trigger!Timeout, Trigger!Stop(k) PROVE Trigger!Inv'
<1> USE DEF Trigger!Inv, Trigger!Stop, Trigger!trigger, Trigger!store, Trigger!Main
<1>1. trigLeft' = [trigLeft EXCEPT ![k] = Trigger!Stopped]
  OBVIOUS
<1>2. Trigger!TypeOK'
  <2>1. Trigger!Stopped \in Trigger!Stopped..TrigFar
    BY TriggerAssumption DEF Trigger!Stopped
  <2>2. trigLeft' \in [Trigger!Timeout -> Trigger!Stopped..TrigFar]
    BY <1>1, <2>1 DEF Trigger!TypeOK
  <2> QED
    BY <2>2 DEF Trigger!TypeOK
<1>3. Trigger!StoresApart' /\ Trigger!Stored' /\ Trigger!StoredTwice'
  BY DEF Trigger!StoresApart, Trigger!Stored, Trigger!StoredTwice
<1>4. Trigger!AllArmed'
  <2> SUFFICES ASSUME NEW j \in Trigger!Timeout PROVE Trigger!Armed(j)'
    BY DEF Trigger!AllArmed, Trigger!Asked
  <2>1. Trigger!Armed(j)
    BY DEF Trigger!AllArmed, Trigger!Asked
  <2>2. trigLeft'[j] = trigLeft[j] \/ trigLeft'[j] = Trigger!Stopped
    BY <1>1 DEF Trigger!TypeOK
  <2> QED
    BY <2>1, <2>2 DEF Trigger!Armed
<1> QED
  BY <1>2, <1>3, <1>4

LEMMA TriggerCancel == ASSUME Trigger!Inv, Trigger!Cancel PROVE Trigger!Inv'
<1> USE DEF Trigger!Inv, Trigger!Cancel, Trigger!store, Trigger!Main
<1>1. Trigger!TypeOK'
  <2>1. trigFlag' \in BOOLEAN /\ trigDelay' \in 0..TrigFar
    BY Moments
  <2> QED
    BY <2>1 DEF Trigger!TypeOK
<1>2. Trigger!StoresApart' /\ Trigger!Stored' /\ Trigger!StoredTwice'
  BY DEF Trigger!StoresApart, Trigger!Stored, Trigger!StoredTwice
<1>3. Trigger!AllArmed'
  BY DEF Trigger!AllArmed, Trigger!Asked, Trigger!Armed
<1> QED
  BY <1>1, <1>2, <1>3

\* The tests of a pass: a delay that is over is taken back, and the trigger stays till it is clear.
LEMMA TriggerTests ==
  ASSUME Trigger!Inv, Trigger!Read \/ Trigger!TestFlag \/ Trigger!TestDelay \/ Trigger!TestNow
  PROVE  Trigger!Inv'
<1>1. /\ UNCHANGED <<trigFlag, trigDelay, trigAge, trigLeft, trigTodo, trigArg>>
      /\ trigPc \in {"top", "flag", "delay", "now"} /\ trigPc' \in {"top", "flag", "delay", "due", "now", "clear"}
      /\ Trigger!Main \/ trigPc # "top"
  BY DEF Trigger!Read, Trigger!TestFlag, Trigger!TestDelay, Trigger!TestNow, Trigger!trigger, Trigger!store
<1>2. Trigger!Main
  BY <1>1 DEF Trigger!Inv, Trigger!StoresApart
<1> QED
  BY <1>1, <1>2 DEF Trigger!Inv, Trigger!TypeOK, Trigger!StoresApart, Trigger!Stored, Trigger!StoredTwice,
    Trigger!AllArmed, Trigger!Asked, Trigger!Armed, Trigger!Main

LEMMA TriggerEndDelay == ASSUME Trigger!Inv, Trigger!EndDelay PROVE Trigger!Inv'
<1> USE DEF Trigger!Inv, Trigger!EndDelay, Trigger!store, Trigger!Main
<1>1. Trigger!TypeOK'
  BY Moments DEF Trigger!TypeOK
<1>2. trigTodo = "none" /\ trigTodo' = "none"
  BY DEF Trigger!StoresApart
<1>3. Trigger!StoresApart' /\ Trigger!Stored' /\ Trigger!StoredTwice'
  BY <1>2 DEF Trigger!StoresApart, Trigger!Stored, Trigger!StoredTwice
<1>4. Trigger!AllArmed'
  <2> SUFFICES ASSUME NEW j \in Trigger!Timeout PROVE Trigger!Armed(j)'
    BY DEF Trigger!AllArmed, Trigger!Asked
  <2>1. Trigger!Armed(j)
    BY DEF Trigger!AllArmed, Trigger!Asked
  <2>2. trigLeft[j] # Trigger!Stopped => trigLeft[j] \in Nat /\ 0 - trigAge <= trigLeft[j]
    BY DEF Trigger!TypeOK, Trigger!Stopped
  <2> QED
    BY <1>2, <2>1, <2>2 DEF Trigger!Armed
<1> QED
  BY <1>1, <1>3, <1>4

\* The run begins: no timeout has been asked.
LEMMA TriggerClear == ASSUME Trigger!Inv, Trigger!Clear PROVE Trigger!Inv'
  BY DEF Trigger!Inv, Trigger!Clear, Trigger!store, Trigger!TypeOK, Trigger!StoresApart, Trigger!Stored,
    Trigger!StoredTwice, Trigger!AllArmed, Trigger!Asked, Trigger!Main

\* The run asks a timeout: it is done with, or has the trigger from now on.
LEMMA TriggerCheck ==
  ASSUME Trigger!Inv, NEW k \in Trigger!Timeout, Trigger!Check(k) PROVE Trigger!Inv'
<1> USE DEF Trigger!Inv
<1>1. /\ trigPc = (IF k = 1 THEN "run1" ELSE "run2") /\ trigPc' = (IF k = 1 THEN "run2" ELSE "top")
      /\ Trigger!Main /\ UNCHANGED <<trigFlag, trigDelay, trigAge>>
  BY DEF Trigger!Check, Trigger!trigger
<1>2. k \in {1, 2} /\ trigLeft[k] \in Trigger!Stopped..TrigFar
  BY DEF Trigger!Timeout, Trigger!TypeOK
<1>3. \A j \in Trigger!Asked' : j = k \/ (j \in Trigger!Asked /\ j # k)
  BY <1>1, <1>2 DEF Trigger!Asked, Trigger!Timeout
<1>4. Trigger!Asked \subseteq Trigger!Timeout
  BY DEF Trigger!Asked, Trigger!Timeout
<1>5. CASE trigLeft[k] > 0
  <2>1. Trigger!TriggerBefore(trigLeft[k]) /\ trigLeft' = trigLeft /\ trigLeft[k] \in 0..TrigFar
    BY <1>2, <1>5, TriggerAssumption DEF Trigger!Check, Trigger!Stopped
  <2>2. Trigger!TypeOK'
    BY <1>1, <2>1, Before DEF Trigger!TypeOK
  <2>3. Trigger!StoresApart' /\ Trigger!Stored' /\ Trigger!StoredTwice'
    BY <1>1, <2>1, Before DEF Trigger!StoresApart, Trigger!Stored, Trigger!StoredTwice
  <2>4. Trigger!AllArmed'
    <3> SUFFICES ASSUME NEW j \in Trigger!Asked' PROVE Trigger!Armed(j)'
      BY DEF Trigger!AllArmed
    <3>1. CASE j = k
      <4>1. trigTodo' # "none" => trigArg' = trigLeft[k] /\ trigArg' <= trigLeft[k]
        BY <1>1, <2>1, Before
      <4> QED
        BY <1>1, <2>1, <3>1, <4>1, Before DEF Trigger!Armed, Trigger!Main
    <3>2. CASE j \in Trigger!Asked /\ j # k
      <4>1. j \in Trigger!Timeout /\ Trigger!Armed(j) /\ trigLeft'[j] = trigLeft[j]
        BY <1>4, <2>1, <3>2 DEF Trigger!AllArmed
      <4> QED
        BY <1>1, <2>1, <4>1, StillArmed
    <3> QED
      BY <1>3, <3>1, <3>2
  <2> QED
    BY <2>2, <2>3, <2>4
<1>6. CASE ~(trigLeft[k] > 0)
  <2>1. trigLeft' = [trigLeft EXCEPT ![k] = Trigger!Stopped] /\ UNCHANGED <<trigTodo, trigArg>>
    BY <1>6 DEF Trigger!Check, Trigger!store
  <2>2. Trigger!TypeOK'
    <3>1. Trigger!Stopped \in Trigger!Stopped..TrigFar
      BY TriggerAssumption DEF Trigger!Stopped
    <3>2. trigLeft' \in [Trigger!Timeout -> Trigger!Stopped..TrigFar]
      BY <2>1, <3>1 DEF Trigger!TypeOK
    <3> QED
      BY <1>1, <2>1, <3>2 DEF Trigger!TypeOK
  <2>3. Trigger!StoresApart' /\ Trigger!Stored' /\ Trigger!StoredTwice'
    BY <1>1, <2>1 DEF Trigger!StoresApart, Trigger!Stored, Trigger!StoredTwice, Trigger!Main
  <2>4. Trigger!AllArmed'
    <3> SUFFICES ASSUME NEW j \in Trigger!Asked' PROVE Trigger!Armed(j)'
      BY DEF Trigger!AllArmed
    <3>1. CASE j = k
      BY <2>1, <3>1 DEF Trigger!Armed, Trigger!TypeOK
    <3>2. CASE j \in Trigger!Asked /\ j # k
      <4>1. j \in Trigger!Timeout /\ Trigger!Armed(j)
        BY <1>4, <3>2 DEF Trigger!AllArmed
      <4>2. trigLeft'[j] = trigLeft[j]
        BY <2>1, <3>2, <4>1 DEF Trigger!TypeOK
      <4> QED
        BY <1>1, <2>1, <4>1, <4>2 DEF Trigger!Armed, Trigger!Main
    <3> QED
      BY <1>3, <3>1, <3>2
  <2> QED
    BY <2>2, <2>3, <2>4
<1> QED
  BY <1>5, <1>6

\* Time passes for the trigger as for the timeouts, and none is measured past its bound.
LEMMA TriggerTick == ASSUME Trigger!Inv, Trigger!Tick PROVE Trigger!Inv'
<1> USE DEF Trigger!Inv
<1> DEFINE Older == IF trigAge < TrigFar THEN trigAge + 1 ELSE trigAge
           Less(n) == IF n > 0 THEN n - 1 ELSE n
<1>1. /\ trigTodo = "none" /\ trigAge' = Older /\ UNCHANGED <<trigFlag, trigDelay, trigTodo, trigArg, trigPc>>
      /\ trigLeft' = [k \in Trigger!Timeout |-> Less(trigLeft[k])]
  BY DEF Trigger!Tick, Trigger!Main, Trigger!store, Trigger!Later
<1>2. Older \in 0..TrigFar
  BY TriggerAssumption DEF Trigger!TypeOK
<1>3. \A k \in Trigger!Timeout : Less(trigLeft[k]) \in Trigger!Stopped..TrigFar
  BY TriggerAssumption DEF Trigger!TypeOK, Trigger!Stopped
<1>4. \A k \in Trigger!Timeout :
        trigLeft[k] # Trigger!Stopped /\ trigDelay - trigAge <= trigLeft[k] =>
          trigDelay - Older <= Less(trigLeft[k])
  BY TriggerAssumption DEF Trigger!TypeOK, Trigger!Stopped
<1>5. \A k \in Trigger!Timeout : Less(trigLeft[k]) # Trigger!Stopped => trigLeft[k] # Trigger!Stopped
  BY DEF Trigger!Stopped
<1> HIDE DEF Older, Less
<1>6. Trigger!TypeOK'
  BY <1>1, <1>2, <1>3 DEF Trigger!TypeOK
<1>7. Trigger!StoresApart' /\ Trigger!Stored' /\ Trigger!StoredTwice'
  BY <1>1 DEF Trigger!StoresApart, Trigger!Stored, Trigger!StoredTwice, Trigger!Main
<1>8. Trigger!AllArmed'
  <2> SUFFICES ASSUME NEW j \in Trigger!Asked PROVE Trigger!Armed(j)'
    BY <1>1 DEF Trigger!AllArmed, Trigger!Asked
  <2>1. j \in Trigger!Timeout /\ Trigger!Armed(j)
    BY DEF Trigger!AllArmed, Trigger!Asked, Trigger!Timeout
  <2>2. trigLeft'[j] = Less(trigLeft[j])
    BY <1>1, <2>1
  <2>3. Less(trigLeft[j]) # Trigger!Stopped => trigFlag /\ trigDelay - Older <= Less(trigLeft[j])
    BY <1>1, <1>4, <1>5, <2>1 DEF Trigger!Armed, Trigger!Main
  <2> QED
    BY <1>1, <2>2, <2>3 DEF Trigger!Armed, Trigger!Main
<1> QED
  BY <1>6, <1>7, <1>8

LEMMA TriggerStep == ASSUME Trigger!Inv, [Trigger!Next]_(Trigger!vars) PROVE Trigger!Inv'
<1>1. CASE Trigger!Pass
  BY <1>1, TriggerTests, TriggerEndDelay, TriggerClear, TriggerStores, TriggerCheck DEF Trigger!Pass
<1>2. CASE Trigger!Tick \/ Trigger!Cancel
  BY <1>2, TriggerTick, TriggerCancel
<1>3. CASE \E d \in TrigIsrDelays : Trigger!Interrupt(d)
  BY <1>3, TriggerInterrupt
<1>4. CASE \E k \in Trigger!Timeout : Trigger!Stop(k) \/ \E t \in TrigTimes : Trigger!Start(k, t)
  BY <1>4, TriggerStop, TriggerStart
<1>5. CASE UNCHANGED Trigger!vars
  BY <1>5 DEF Trigger!vars, Trigger!Inv, Trigger!TypeOK, Trigger!StoresApart, Trigger!Stored, Trigger!StoredTwice,
    Trigger!AllArmed, Trigger!Asked, Trigger!Armed, Trigger!Main
<1> QED
  BY <1>1, <1>2, <1>3, <1>4, <1>5 DEF Trigger!Next

\* Between two passes a timeout that runs has a trigger that is due no later than it.
THEOREM TimeoutsAreArmed == Trigger!Spec => []Trigger!TimeoutArmed
<1>1. Trigger!Inv => Trigger!TimeoutArmed
  BY DEF Trigger!Inv, Trigger!AllArmed, Trigger!Asked, Trigger!Armed, Trigger!TimeoutArmed
<1> QED
  BY <1>1, TriggerInit, TriggerStep, PTL DEF Trigger!Spec

-----------------------------------------------------------------------------
(* The range sensor.                                                         *)

\* A distance is measured between the two edges of one echo, whatever edges are missed.
THEOREM EchoesAreOwn == Sonar!Spec => []Sonar!OneEcho
<1> USE DEF Sonar!Inv, Sonar!EchoIsOwn, Sonar!OneEcho
<1>1. Sonar!Init => Sonar!Inv
  BY DEF Sonar!Init
<1>2. ASSUME Sonar!Inv, [Sonar!Next]_(Sonar!vars) PROVE Sonar!Inv'
  <2>1. CASE Sonar!Release \/ Sonar!DoTask \/ Sonar!Report \/ Sonar!Fire
    BY <1>2, <2>1 DEF Sonar!Release, Sonar!DoTask, Sonar!Report, Sonar!Fire, Sonar!sensor
  <2>2. CASE Sonar!StartTrigger \/ Sonar!StopTrigger \/ Sonar!StopDrops
    BY <1>2, <2>2 DEF Sonar!StartTrigger, Sonar!StopTrigger, Sonar!StopDrops, Sonar!sensor
  <2>3. CASE Sonar!Rise \/ Sonar!Fall
    BY <1>2, <2>3 DEF Sonar!Rise, Sonar!Fall, Sonar!task
  <2>4. CASE Sonar!Miss \/ Sonar!Expire
    BY <1>2, <2>4 DEF Sonar!Miss, Sonar!Expire, Sonar!sensor, Sonar!task
  <2>5. CASE UNCHANGED Sonar!vars
    BY <1>2, <2>5 DEF Sonar!vars
  <2> QED
    BY <1>2, <2>1, <2>2, <2>3, <2>4, <2>5 DEF Sonar!Next
<1> QED
  BY <1>1, <1>2, PTL DEF Sonar!Spec

-----------------------------------------------------------------------------
(* The three side by side.                                                   *)

\* A behaviour of the three is one of each.
LEMMA ReleasesAreEach == ReleasesSpec => Trigger!Spec /\ Steps!Spec /\ Sonar!Spec
<1>1. ReleasesInit => Trigger!Init /\ Steps!Init /\ Sonar!Init
  BY DEF ReleasesInit
<1>2. [ReleasesNext]_releaseVars =>
        [Trigger!Next]_(Trigger!vars) /\ [Steps!Next]_(Steps!vars) /\ [Sonar!Next]_(Sonar!vars)
  BY DEF ReleasesNext, releaseVars, trigVars, stepVars, echoVars, Trigger!vars, Steps!vars, Sonar!vars
<1> QED
  BY <1>1, <1>2, PTL DEF ReleasesSpec, Trigger!Spec, Steps!Spec, Sonar!Spec

\* A task is released no later than it has to be, by a timeout that shares its trigger or by the
\* step that is pending, a signal that was raised is seen, and a distance is that of one echo.
THEOREM ReleasesHold == ReleasesSpec => []ReleasedInTime
<1>1. Trigger!TimeoutArmed /\ (Steps!ReleasedInTime /\ Steps!SignalKept) /\ Sonar!OneEcho => ReleasedInTime
  BY DEF ReleasedInTime
<1> QED
  BY <1>1, ReleasesAreEach, TimeoutsAreArmed, StepsFollow, EchoesAreOwn, PTL

-----------------------------------------------------------------------------
(* The log.                                                                  *)

Smaller == {pair \in Nat \X Nat : pair[1] < pair[2]}

\* A set of numbers that is not empty has a least one.
LEMMA LeastNumber == ASSUME NEW T \in SUBSET Nat, T # {} PROVE \E m \in T : \A j \in T : m <= j
<1>1. IsWellFoundedOn(Smaller, Nat)
  BY NatLessThanWellFounded DEF OpToRel, Smaller
<1>2. PICK m \in T : \A j \in T : ~(<<j, m>> \in Smaller)
  BY <1>1, WFMin
<1>3. ASSUME NEW j \in T PROVE m <= j
  <2>1. j \in Nat /\ m \in Nat /\ ~(<<j, m>> \in Smaller)
    BY <1>2
  <2>2. j < m => <<j, m>> \in Smaller
    BY <2>1 DEF Smaller
  <2> QED
    BY <2>1, <2>2
<1> QED
  BY <1>3

\* A piece that fits an empty log buffer has pieces to give way to it.
LEMMA GivesWay ==
  ASSUME logPieces \in Seq(Logging!Piece), logTail \in 0..Logging!Newest, NEW length \in 0..2
  PROVE  Logging!GiveWay(length) \in logTail..Logging!Newest
<1> DEFINE N == Logging!Newest
           Fits(n) == Logging!Bytes(n) + length <= LogSize
           T == {n \in logTail..N : Fits(n)}
<1>1. N \in Nat
  BY DEF Logging!Newest
<1>2. Logging!Bytes(N) = 0
  <2> HIDE DEF N
  <2> DEFINE From(f) == [k \in N..N |-> IF k = N THEN 0 ELSE logPieces[k + 1].length + f[k + 1]]
             f0 == [k \in N..N |-> 0]
             from == CHOOSE f : f = From(f)
  <2>1. N..N = {N}
    BY <1>1
  <2>2. f0 = From(f0)
    BY <2>1, Zenon
  <2>3. from = From(from)
    <3> HIDE DEF From, f0
    <3> QED
      BY <2>2, Zenon
  <2>4. from[N] = 0
    <3> HIDE DEF from
    <3> QED
      BY <2>1, <2>3, Zenon
  <2> QED
    BY <2>4 DEF Logging!Bytes, N
<1>3. N \in T /\ T \in SUBSET Nat
  BY <1>1, <1>2, LogAssumption
<1>4. PICK m \in T : \A j \in T : m <= j
  <2> HIDE DEF T
  <2> QED
    BY <1>3, LeastNumber
<1>5. \A k \in logTail..(m - 1) : ~Fits(k)
  <2> HIDE DEF Fits, N
  <2>1. TAKE k \in logTail..(m - 1)
  <2>2. k \in logTail..N /\ ~(m <= k)
    BY <1>1, <1>4, <2>1
  <2> QED
    BY <1>4, <2>2
<1>6. \E n \in logTail..N : Fits(n) /\ \A k \in logTail..(n - 1) : ~Fits(k)
  <2> HIDE DEF Fits, N
  <2> QED
    BY <1>4, <1>5
<1>7. Logging!GiveWay(length) =
        CHOOSE n \in logTail..N : Fits(n) /\ \A k \in logTail..(n - 1) : ~Fits(k)
  BY Zenon DEF Logging!GiveWay
<1> HIDE DEF Fits, N
<1> QED
  BY <1>6, <1>7, Zenon DEF N

\* The pieces of a range that an output takes, and those of them that it did not get.
Pieces == Logging!Piece
TakenBy(l, s, p) == s = "uart" \/ l[p + 1].kind = "line"
Given(q, p) == \E k \in 1..Len(q) : q[k] = p
Lost(l, s, q, from, to) == {p \in from..(to - 1) : TakenBy(l, s, p) /\ ~Given(q, p)}
Rising(q) == \A i, j \in 1..Len(q) : i < j => q[i] < q[j]

\* An output stands at a piece: what it got is in order and behind it, and what it lost is counted.
Stands(l, s, q, p, d, b) ==
  /\ b.pos <= p /\ b.drops <= d /\ p <= Len(l)
  /\ \A k \in 1..Len(q) : q[k] < p
  /\ Rising(q) /\ Cardinality(Lost(l, s, q, b.pos, p)) <= d - b.drops

Starts == [pos : Nat, drops : Nat]

LEMMA LostFinite ==
  ASSUME NEW l, NEW s, NEW q, NEW from \in Nat, NEW to \in Nat
  PROVE  IsFiniteSet(Lost(l, s, q, from, to)) /\ Cardinality(Lost(l, s, q, from, to)) \in Nat
<1>1. IsFiniteSet(from..(to - 1))
  BY FS_Interval
<1>2. Lost(l, s, q, from, to) \subseteq from..(to - 1)
  BY DEF Lost
<1> QED
  BY <1>1, <1>2, FS_Subset, FS_CardinalityType

\* Fewer are no more.
LEMMA Fewer ==
  ASSUME NEW S, NEW T, IsFiniteSet(T), S \subseteq T
  PROVE  IsFiniteSet(S) /\ Cardinality(S) \in Nat /\ Cardinality(T) \in Nat
         /\ Cardinality(S) <= Cardinality(T)
BY FS_Subset, FS_CardinalityType

\* A piece is stored behind, and what an output loses by it is counted.
LEMMA StandsPushed ==
  ASSUME NEW l \in Seq(Pieces), NEW piece \in Pieces, NEW s, NEW q \in Seq(Nat), NEW p \in Nat,
         NEW d \in Nat, NEW b \in Starts, NEW oldest \in 0..Len(l), Stands(l, s, q, p, d, b)
  PROVE  /\ Stands(Append(l, piece), s, q, IF p < oldest THEN oldest ELSE p,
                   d + Cardinality({x \in p..(oldest - 1) : TakenBy(l, s, x)}), b)
         /\ Cardinality({x \in p..(oldest - 1) : TakenBy(l, s, x)}) \in Nat
<1> DEFINE m == Append(l, piece)
           P == {x \in p..(oldest - 1) : TakenBy(l, s, x)}
           to == IF p < oldest THEN oldest ELSE p
           L == Lost(l, s, q, b.pos, p)
<1>1. b.pos \in Nat /\ b.drops \in Nat /\ to \in Nat /\ oldest \in Nat /\ Len(l) \in Nat
  BY DEF Starts
<1>2. IsFiniteSet(P) /\ Cardinality(P) \in Nat
  <2>1. IsFiniteSet(p..(oldest - 1))
    BY <1>1, FS_Interval
  <2>2. P \subseteq p..(oldest - 1)
    OBVIOUS
  <2> HIDE DEF P
  <2> QED
    BY <2>1, <2>2, Fewer
<1>3. IsFiniteSet(L) /\ Cardinality(L) \in Nat
  BY <1>1, LostFinite
<1>4. Lost(m, s, q, b.pos, to) \subseteq L \cup P
  <2>1. SUFFICES ASSUME NEW x \in Lost(m, s, q, b.pos, to) PROVE x \in L \cup P
    OBVIOUS
  <2>2. x \in Int /\ b.pos <= x /\ x < to /\ TakenBy(m, s, x) /\ ~Given(q, x)
    BY <1>1, <2>1 DEF Lost
  <2>3. x < Len(l) /\ x \in Nat
    BY <1>1, <2>2 DEF Stands
  <2>4. m[x + 1] = l[x + 1]
    BY <2>3
  <2>5. TakenBy(l, s, x)
    BY <2>2, <2>4 DEF TakenBy
  <2>6. CASE x < p
    BY <1>1, <2>2, <2>5, <2>6 DEF Lost
  <2>7. CASE ~(x < p)
    BY <1>1, <2>2, <2>5, <2>7
  <2> QED
    BY <2>6, <2>7
<1>5. IsFiniteSet(L \cup P) /\ Cardinality(L \cup P) <= Cardinality(L) + Cardinality(P)
  <2> HIDE DEF L, P
  <2>1. IsFiniteSet(L \cap P) /\ IsFiniteSet(L \cup P)
        /\ Cardinality(L \cup P) = Cardinality(L) + Cardinality(P) - Cardinality(L \cap P)
    BY <1>2, <1>3, FS_Union, FS_Intersection
  <2>2. Cardinality(L \cap P) \in Nat
    BY <2>1, FS_CardinalityType
  <2> QED
    BY <1>2, <1>3, <2>1, <2>2
<1>6. /\ Cardinality(Lost(m, s, q, b.pos, to)) <= Cardinality(L \cup P)
      /\ Cardinality(Lost(m, s, q, b.pos, to)) \in Nat /\ Cardinality(L \cup P) \in Nat
  <2> HIDE DEF L, P, m, to
  <2> QED
    BY <1>4, <1>5, Fewer
<1>7. Cardinality(L) <= d - b.drops /\ b.drops <= d /\ b.pos <= p /\ p <= Len(l) /\ Rising(q)
  BY DEF Stands
<1>8. Cardinality(Lost(m, s, q, b.pos, to)) <= (d + Cardinality(P)) - b.drops
  <2> HIDE DEF L, P, m, to
  <2> QED
    BY <1>1, <1>2, <1>3, <1>5, <1>6, <1>7
<1>9. Len(m) = Len(l) + 1
  OBVIOUS
<1>10. b.pos <= to /\ to <= Len(m) /\ p <= to
  BY <1>1, <1>7, <1>9
<1>11. \A k \in 1..Len(q) : q[k] \in Nat /\ q[k] < p
  BY DEF Stands
<1>12. \A k \in 1..Len(q) : q[k] < to
  <2> HIDE DEF to
  <2> QED
    BY <1>1, <1>10, <1>11
<1>13. b.drops <= d + Cardinality(P)
  <2> HIDE DEF P
  <2> QED
    BY <1>1, <1>2, <1>7
<1>14. Stands(m, s, q, to, d + Cardinality(P), b)
  <2> HIDE DEF m, to, P
  <2> QED
    BY <1>7, <1>8, <1>10, <1>12, <1>13 DEF Stands
<1> QED
  BY <1>2, <1>14

LEMMA NotLast == \A n \in Nat : \A k \in 1..(n + 1) : k # n + 1 => k \in 1..n
OBVIOUS

\* An output gets the piece it stands on, or stood on before a print moved it.
LEMMA StandsTook ==
  ASSUME NEW l, NEW s, NEW q \in Seq(Nat), NEW p \in Nat, NEW d \in Nat, NEW b \in Starts,
         Len(l) \in Nat, Stands(l, s, q, p, d, b), NEW c \in Nat, b.pos <= c, c <= p, c < Len(l),
         \A k \in 1..Len(q) : q[k] < c
  PROVE  Stands(l, s, Append(q, c), IF p = c THEN c + 1 ELSE p, d, b)
<1> DEFINE r == Append(q, c)
           to == IF p = c THEN c + 1 ELSE p
<1>1. b.pos \in Nat /\ b.drops \in Nat /\ to \in Nat /\ Len(q) \in Nat
  BY DEF Starts
<1>2. b.drops <= d /\ b.pos <= p /\ p <= Len(l) /\ Rising(q)
      /\ Cardinality(Lost(l, s, q, b.pos, p)) <= d - b.drops
  BY DEF Stands
<1>20. Len(r) = Len(q) + 1
  OBVIOUS
<1>3. Len(r) = Len(q) + 1 /\ r[Len(q) + 1] = c /\ \A k \in 1..Len(q) : r[k] = q[k] /\ q[k] \in Nat
  OBVIOUS
<1>4. b.pos <= to /\ to <= Len(l) /\ c < to /\ p <= to
  BY <1>1, <1>2
<1>5. \A k \in 1..Len(r) : r[k] < to
  <2> HIDE DEF to, r
  <2>1. TAKE k \in 1..Len(r)
  <2>2. CASE k = Len(q) + 1
    BY <1>3, <1>4, <2>2
  <2>3. CASE k # Len(q) + 1
    <3>1. k \in 1..Len(q)
      BY <1>1, <1>20, <2>3
    <3>2. q[k] < c /\ r[k] = q[k] /\ q[k] \in Nat
      BY <1>3, <3>1
    <3> QED
      BY <1>1, <1>4, <3>2
  <2> QED
    BY <2>2, <2>3
<1>6. Rising(r)
  <2> HIDE DEF r
  <2>1. SUFFICES ASSUME NEW i \in 1..Len(r), NEW j \in 1..Len(r), i < j PROVE r[i] < r[j]
    BY DEF Rising
  <2>2. i \in 1..Len(q)
    BY <1>1, <1>3, <2>1
  <2>3. CASE j = Len(q) + 1
    BY <1>3, <2>2, <2>3
  <2>4. CASE j # Len(q) + 1
    <3>1. j \in 1..(Len(q) + 1)
      BY <1>20
    <3>2. j \in 1..Len(q)
      BY <1>1, <2>4, <3>1, NotLast
    <3> QED
      BY <1>2, <1>3, <2>1, <2>2, <3>2 DEF Rising
  <2> QED
    BY <2>3, <2>4
<1>7. Lost(l, s, r, b.pos, to) \subseteq Lost(l, s, q, b.pos, p)
  <2>1. SUFFICES ASSUME NEW x \in Lost(l, s, r, b.pos, to) PROVE x \in Lost(l, s, q, b.pos, p)
    OBVIOUS
  <2>2. x \in Int /\ b.pos <= x /\ x < to /\ TakenBy(l, s, x) /\ ~Given(r, x)
    BY <1>1, <2>1 DEF Lost
  <2>3. x # c
    <3>1. Given(r, c)
      <4>1. Len(q) + 1 \in 1..Len(r)
        BY <1>1, <1>3
      <4> HIDE DEF r
      <4> QED
        BY <1>3, <4>1 DEF Given
    <3> QED
      BY <2>2, <3>1
  <2>4. x < p
    BY <2>2, <2>3
  <2>5. Given(q, x) => Given(r, x)
    <3>1. \A k \in 1..Len(q) : k \in 1..Len(r) /\ r[k] = q[k]
      BY <1>1, <1>3
    <3> HIDE DEF r
    <3> QED
      BY <3>1 DEF Given
  <2> QED
    BY <1>1, <2>2, <2>4, <2>5 DEF Lost
<1>8. /\ Cardinality(Lost(l, s, r, b.pos, to)) <= Cardinality(Lost(l, s, q, b.pos, p))
      /\ Cardinality(Lost(l, s, r, b.pos, to)) \in Nat
      /\ Cardinality(Lost(l, s, q, b.pos, p)) \in Nat
  <2> HIDE DEF r, to
  <2> QED
    BY <1>1, <1>7, LostFinite, Fewer
<1>9. Cardinality(Lost(l, s, r, b.pos, to)) <= d - b.drops
  <2> HIDE DEF r, to
  <2> QED
    BY <1>1, <1>2, <1>8
<1> HIDE DEF r, to
<1>10. Stands(l, s, r, to, d, b)
  BY <1>2, <1>4, <1>5, <1>6, <1>9 DEF Stands
<1> QED
  BY <1>10 DEF r, to

\* An output goes past a piece of a type it does not take.
LEMMA StandsSkipped ==
  ASSUME NEW l, NEW s, NEW q \in Seq(Nat), NEW p \in Nat, NEW d \in Nat, NEW b \in Starts,
         Len(l) \in Nat, Stands(l, s, q, p, d, b), p < Len(l), ~TakenBy(l, s, p)
  PROVE  Stands(l, s, q, p + 1, d, b)
<1>1. b.pos \in Nat /\ b.drops \in Nat
  BY DEF Starts
<1>2. Lost(l, s, q, b.pos, p + 1) \subseteq Lost(l, s, q, b.pos, p)
  <2>1. SUFFICES ASSUME NEW x \in Lost(l, s, q, b.pos, p + 1) PROVE x \in Lost(l, s, q, b.pos, p)
    OBVIOUS
  <2>2. x \in Int /\ b.pos <= x /\ x <= p /\ TakenBy(l, s, x) /\ ~Given(q, x)
    BY <1>1, <2>1 DEF Lost
  <2>3. x # p
    BY <2>2
  <2> QED
    BY <1>1, <2>2, <2>3 DEF Lost
<1>3. /\ Cardinality(Lost(l, s, q, b.pos, p + 1)) <= Cardinality(Lost(l, s, q, b.pos, p))
      /\ Cardinality(Lost(l, s, q, b.pos, p + 1)) \in Nat
      /\ Cardinality(Lost(l, s, q, b.pos, p)) \in Nat
  BY <1>1, <1>2, LostFinite, Fewer
<1>4. /\ b.pos <= p /\ b.drops <= d /\ p <= Len(l) /\ Rising(q)
      /\ Cardinality(Lost(l, s, q, b.pos, p)) <= d - b.drops
  BY DEF Stands
<1>5. Cardinality(Lost(l, s, q, b.pos, p + 1)) <= d - b.drops
  BY <1>1, <1>3, <1>4
<1>6. \A k \in 1..Len(q) : q[k] \in Nat /\ q[k] < p
  BY DEF Stands
<1>7. \A k \in 1..Len(q) : q[k] < p + 1
  BY <1>6
<1> QED
  BY <1>1, <1>4, <1>5, <1>7 DEF Stands

\* An output that is added has got and lost nothing yet.
LEMMA StandsNew ==
  ASSUME NEW l, NEW s, NEW p \in Nat, NEW d \in Nat, Len(l) \in Nat, p <= Len(l)
  PROVE  Stands(l, s, <<>>, p, d, [pos |-> p, drops |-> d])
<1>1. p..(p - 1) = {} /\ 1..0 = {} /\ Len(<<>>) = 0
  OBVIOUS
<1>2. Lost(l, s, <<>>, p, p) = {}
  BY <1>1 DEF Lost
<1>3. Cardinality(Lost(l, s, <<>>, p, p)) = 0
  BY <1>2, FS_EmptySet
<1>4. Rising(<<>>)
  BY <1>1 DEF Rising
<1> QED
  BY <1>1, <1>3, <1>4 DEF Stands

-----------------------------------------------------------------------------
\* The texts of a command, in the log buffer and out of it.
Of(l, c, p) == l[p + 1].kind = "console" /\ l[p + 1].of = c
Places(l) == 0..(Len(l) - 1)
NoText(l, c) == \A p \in Places(l) : ~Of(l, c, p)
Stored(l, c, m) ==
  \A p \in Places(l) :
    /\ l[p + 1].of <= c
    /\ Of(l, c, p) =>
         /\ l[p + 1].no \in 1..m
         /\ \A q \in Places(l) : p < q /\ Of(l, c, q) => l[p + 1].no < l[q + 1].no
Ahead(l, c, sh, from) ==
  \A p \in Places(l) :
    Of(l, c, p) /\ from <= p => \A k \in 1..Len(sh) : sh[k] < l[p + 1].no
Out(m, sh) == (\A k \in 1..Len(sh) : sh[k] \in 1..m) /\ Rising(sh)

LEMMA PiecesBefore ==
  ASSUME NEW l \in Seq(Pieces), NEW piece \in Pieces
  PROVE  /\ Append(l, piece) \in Seq(Pieces) /\ Len(Append(l, piece)) = Len(l) + 1 /\ Len(l) \in Nat
         /\ Append(l, piece)[Len(l) + 1] = piece
         /\ \A p \in Places(Append(l, piece)) :
              \/ p = Len(l)
              \/ p \in Places(l) /\ p < Len(l) /\ Append(l, piece)[p + 1] = l[p + 1]
         /\ \A p \in Places(l) : l[p + 1] \in Pieces
BY DEF Places

LEMMA PieceHas ==
  ASSUME NEW piece \in Pieces
  PROVE  piece.of \in Nat /\ piece.no \in Nat /\ piece.length \in Nat
BY DEF Pieces, Logging!Piece

\* A text waits behind those that wait, and a line stands between them.
LEMMA StoredText ==
  ASSUME NEW l \in Seq(Pieces), NEW c \in Nat, NEW m \in Nat, NEW length \in Nat, NEW sh,
         NEW from \in Int, Stored(l, c, m), Out(m, sh),
         NEW piece, piece = [kind |-> "console", of |-> c, no |-> m + 1, length |-> length]
  PROVE  /\ Stored(Append(l, piece), c, m + 1)
         /\ Ahead(l, c, sh, from) => Ahead(Append(l, piece), c, sh, from)
<1> DEFINE r == Append(l, piece)
<1>1. piece \in Pieces /\ piece.of = c /\ piece.no = m + 1
  BY DEF Pieces, Logging!Piece
<1>2. /\ r[Len(l) + 1] = piece /\ Len(l) \in Nat /\ Len(r) = Len(l) + 1
      /\ \A p \in Places(r) :
           p = Len(l) \/ (p \in Places(l) /\ p < Len(l) /\ r[p + 1] = l[p + 1])
      /\ \A p \in Places(l) : l[p + 1] \in Pieces
  BY <1>1, PiecesBefore
<1> HIDE DEF r
<1>3. Stored(r, c, m + 1)
  <2>1. SUFFICES ASSUME NEW p \in Places(r)
                 PROVE  /\ r[p + 1].of <= c
                        /\ Of(r, c, p) =>
                             /\ r[p + 1].no \in 1..(m + 1)
                             /\ \A q \in Places(r) :
                                  p < q /\ Of(r, c, q) => r[p + 1].no < r[q + 1].no
    BY DEF Stored
  <2>2. CASE p = Len(l)
    <3>1. r[p + 1].of <= c /\ r[p + 1].no \in 1..(m + 1)
      BY <1>1, <1>2, <2>2
    <3>2. \A q \in Places(r) : ~(p < q)
      BY <1>2, <2>2 DEF Places
    <3> QED
      BY <3>1, <3>2
  <2>3. CASE p \in Places(l) /\ p < Len(l) /\ r[p + 1] = l[p + 1]
    <3>1. r[p + 1].of <= c /\ (Of(r, c, p) => Of(l, c, p))
      BY <2>3 DEF Stored, Of
    <3>2. ASSUME Of(l, c, p) PROVE r[p + 1].no \in 1..m
      BY <2>3, <3>2 DEF Stored
    <3>3. ASSUME Of(l, c, p), NEW q \in Places(r), p < q, Of(r, c, q)
          PROVE  r[p + 1].no < r[q + 1].no
      <4>1. CASE q = Len(l)
        BY <1>1, <1>2, <3>2, <3>3, <4>1
      <4>2. CASE q \in Places(l) /\ r[q + 1] = l[q + 1]
        BY <2>3, <3>3, <4>2 DEF Stored, Of
      <4> QED
        BY <1>2, <4>1, <4>2
    <3> QED
      BY <3>1, <3>2, <3>3
  <2> QED
    BY <1>2, <2>2, <2>3
<1>4. ASSUME Ahead(l, c, sh, from) PROVE Ahead(r, c, sh, from)
  <2>1. SUFFICES ASSUME NEW p \in Places(r), Of(r, c, p), from <= p, NEW k \in 1..Len(sh)
                 PROVE  sh[k] < r[p + 1].no
    BY DEF Ahead
  <2>2. CASE p = Len(l)
    BY <1>1, <1>2, <2>2 DEF Out
  <2>3. CASE p \in Places(l) /\ r[p + 1] = l[p + 1]
    BY <1>4, <2>1, <2>3 DEF Ahead, Of
  <2> QED
    BY <1>2, <2>2, <2>3
<1> QED
  BY <1>3, <1>4 DEF r

LEMMA StoredLine ==
  ASSUME NEW l \in Seq(Pieces), NEW c \in Nat, NEW m \in Nat, NEW sh, NEW from,
         NEW piece \in Pieces, piece.kind = "line", piece.of = 0
  PROVE  /\ Stored(l, c, m) => Stored(Append(l, piece), c, m)
         /\ Ahead(l, c, sh, from) => Ahead(Append(l, piece), c, sh, from)
         /\ NoText(l, c) => NoText(Append(l, piece), c)
<1> DEFINE r == Append(l, piece)
<1>1. /\ r[Len(l) + 1] = piece /\ Len(l) \in Nat
      /\ \A p \in Places(r) :
           p = Len(l) \/ (p \in Places(l) /\ p < Len(l) /\ r[p + 1] = l[p + 1])
  BY PiecesBefore
<1> HIDE DEF r
<1>2. ASSUME NEW p \in Places(r), Of(r, c, p)
      PROVE  p \in Places(l) /\ r[p + 1] = l[p + 1] /\ Of(l, c, p)
  BY <1>1, <1>2 DEF Of
<1>3. ASSUME Stored(l, c, m) PROVE Stored(r, c, m)
  <2>1. SUFFICES ASSUME NEW p \in Places(r)
                 PROVE  /\ r[p + 1].of <= c
                        /\ Of(r, c, p) =>
                             /\ r[p + 1].no \in 1..m
                             /\ \A q \in Places(r) :
                                  p < q /\ Of(r, c, q) => r[p + 1].no < r[q + 1].no
    BY DEF Stored
  <2>2. r[p + 1].of <= c
    BY <1>1, <1>3, <2>1 DEF Stored
  <2>3. ASSUME Of(r, c, p) PROVE r[p + 1].no \in 1..m
    BY <1>2, <1>3, <2>1, <2>3 DEF Stored
  <2>4. ASSUME Of(r, c, p), NEW q \in Places(r), p < q, Of(r, c, q)
        PROVE  r[p + 1].no < r[q + 1].no
    BY <1>2, <1>3, <2>1, <2>4 DEF Stored
  <2> QED
    BY <2>2, <2>3, <2>4
<1>4. ASSUME Ahead(l, c, sh, from) PROVE Ahead(r, c, sh, from)
  BY <1>2, <1>4 DEF Ahead
<1>5. ASSUME NoText(l, c) PROVE NoText(r, c)
  BY <1>2, <1>5 DEF NoText
<1> QED
  BY <1>3, <1>4, <1>5 DEF r

\* Nothing waits: the command may print, begin or be another one.
LEMMA NothingWaits ==
  ASSUME NEW l \in Seq(Pieces), NEW c \in Nat, NEW m \in Nat, NEW sh, NEW from, NEW n,
         Stored(l, c, m), NoText(l, c)
  PROVE  Stored(l, c, n) /\ Ahead(l, c, sh, from)
BY DEF Stored, NoText, Ahead

LEMMA NextCommand ==
  ASSUME NEW l \in Seq(Pieces), NEW c \in Nat, NEW m \in Nat, Stored(l, c, m)
  PROVE  Stored(l, c + 1, m) /\ NoText(l, c + 1)
<1>1. ASSUME NEW p \in Places(l) PROVE l[p + 1].of <= c + 1 /\ ~Of(l, c + 1, p)
  <2>1. l[p + 1] \in Pieces
    BY DEF Places
  <2>2. l[p + 1].of \in Nat /\ l[p + 1].of <= c
    BY <2>1, PieceHas DEF Stored
  <2> QED
    BY <2>2 DEF Of
<1> QED
  BY <1>1 DEF Stored, NoText

LEMMA MoreTexts ==
  ASSUME NEW l \in Seq(Pieces), NEW c \in Nat, NEW m \in Nat, NEW sh, Stored(l, c, m), Out(m, sh)
  PROVE  Stored(l, c, m + 1) /\ Out(m + 1, sh)
<1>1. 1..m \subseteq 1..(m + 1)
  OBVIOUS
<1> QED
  BY <1>1 DEF Stored, Out

\* A text goes out behind those that went.
LEMMA OutAppended ==
  ASSUME NEW m \in Nat, NEW sh \in Seq(Nat), NEW no \in 1..m, Out(m, sh),
         \A k \in 1..Len(sh) : sh[k] < no
  PROVE  Out(m, Append(sh, no))
<1> DEFINE r == Append(sh, no)
<1>1. Len(r) = Len(sh) + 1 /\ Len(sh) \in Nat
  OBVIOUS
<1>2. r[Len(sh) + 1] = no /\ \A k \in 1..Len(sh) : r[k] = sh[k]
  OBVIOUS
<1> HIDE DEF r
<1>3. \A k \in 1..Len(r) : k = Len(sh) + 1 \/ k \in 1..Len(sh)
  BY <1>1
<1>4. \A k \in 1..Len(r) : r[k] \in 1..m
  BY <1>2, <1>3 DEF Out
<1>5. Rising(r)
  <2>1. SUFFICES ASSUME NEW i \in 1..Len(r), NEW j \in 1..Len(r), i < j PROVE r[i] < r[j]
    BY DEF Rising
  <2>2. i \in 1..Len(sh)
    BY <1>1, <2>1
  <2>3. CASE j = Len(sh) + 1
    BY <1>2, <2>2, <2>3
  <2>4. CASE j \in 1..Len(sh)
    BY <1>2, <2>1, <2>2, <2>4 DEF Out, Rising
  <2> QED
    BY <1>3, <2>3, <2>4
<1> QED
  BY <1>4, <1>5 DEF Out, r

LEMMA OutNothing == ASSUME NEW m PROVE Out(m, <<>>)
BY DEF Out, Rising

LEMMA AheadNothing == ASSUME NEW l, NEW c, NEW from PROVE Ahead(l, c, <<>>, from)
BY DEF Ahead

LEMMA AheadLater ==
  ASSUME NEW l \in Seq(Pieces), NEW c, NEW sh, NEW from \in Int, NEW to \in Int, from <= to,
         Ahead(l, c, sh, from)
  PROVE  Ahead(l, c, sh, to)
BY DEF Ahead, Places

\* The text at a position goes out, and those behind it stay ahead of what went.
LEMMA TextWritten ==
  ASSUME NEW l \in Seq(Pieces), NEW c \in Nat, NEW m \in Nat, NEW sh \in Seq(Nat),
         NEW p \in Places(l), Of(l, c, p), Stored(l, c, m), Out(m, sh), Ahead(l, c, sh, p)
  PROVE  Out(m, Append(sh, l[p + 1].no)) /\ Ahead(l, c, Append(sh, l[p + 1].no), p + 1)
<1> DEFINE no == l[p + 1].no
           r == Append(sh, no)
<1>1. no \in 1..m /\ p \in Int /\ p <= p
  BY DEF Stored, Places
<1>2. \A k \in 1..Len(sh) : sh[k] < no
  BY <1>1, Zenon DEF Ahead
<1>3. Out(m, r)
  <2> HIDE DEF no
  <2> QED
    BY <1>1, <1>2, OutAppended
<1>4. Len(sh) \in Nat /\ \A k \in 1..Len(r) : r[k] = no \/ (k \in 1..Len(sh) /\ r[k] = sh[k])
  <2> HIDE DEF no
  <2> QED
    OBVIOUS
<1>5. SUFFICES ASSUME NEW q \in Places(l), Of(l, c, q), p + 1 <= q, NEW k \in 1..Len(r)
               PROVE  r[k] < l[q + 1].no
  BY <1>3 DEF Ahead
<1>6. no < l[q + 1].no /\ q \in Int /\ p <= q
  <2>1. q \in Int /\ p < q
    BY <1>1, <1>5 DEF Places
  <2>2. no < l[q + 1].no
    BY <1>5, <2>1, Zenon DEF Stored
  <2> QED
    BY <1>1, <2>1, <2>2
<1> HIDE DEF r, no
<1>7. CASE r[k] = no
  BY <1>6, <1>7
<1>8. CASE k \in 1..Len(sh) /\ r[k] = sh[k]
  BY <1>5, <1>6, <1>8 DEF Ahead
<1> QED
  BY <1>4, <1>5, <1>7, <1>8

-----------------------------------------------------------------------------
\* The parts of the invariant.
AllStand ==
  \A s \in logSinks : Stands(logPieces, s, logGot[s], logPos[s], logDrops[s], logSince[s])
From == IF logPc = "write" /\ logCur = 1 THEN logCopy ELSE logPos["uart"]
TextsHold ==
  /\ Stored(logPieces, logCommands, logMade) /\ Out(logMade, logShown)
  /\ "uart" \in logSinks => Ahead(logPieces, logCommands, logShown, From)
TurnsHold ==
  /\ logQueued => Logging!InCommand /\ logMade > 0
  /\ logDump.active => logMade = 0 /\ ~logCmdDone /\ ~Logging!InCommand
  /\ (IF Logging!InCommand THEN ~logQueued ELSE logCmdDone) => NoText(logPieces, logCommands)
Parts == Logging!Values /\ AllStand /\ Logging!WriteBehind /\ TextsHold /\ TurnsHold

LEMMA SumIs == ASSUME NEW a \in Nat, NEW b \in Nat PROVE a + b \in Nat
OBVIOUS

LEMMA LessIs == ASSUME NEW a \in Nat, NEW b \in Nat, b < a PROVE a - b \in Nat
OBVIOUS

LEMMA ValuesAre ==
  ASSUME Logging!Values
  PROVE  /\ logPieces \in Seq(Pieces) /\ Len(logPieces) \in Nat /\ Logging!Newest = Len(logPieces)
         /\ logTail \in 0..Len(logPieces) /\ logSinks \subseteq {"uart", "file"}
         /\ \A s \in {"uart", "file"} :
              /\ logPos[s] \in Nat /\ logPos[s] <= Len(logPieces) /\ logDrops[s] \in Nat
              /\ logSince[s] \in Starts /\ logSince[s].pos \in Nat /\ logSince[s].drops \in Nat
              /\ logGot[s] \in Seq(Nat)
         /\ logCur \in 1..3 /\ logCommands \in Nat /\ logMade \in Nat /\ logShown \in Seq(Nat)
<1>1. Logging!Outputs = {"uart", "file"}
  BY DEF Logging!Outputs
<1>2. logPieces \in Seq(Pieces) /\ Len(logPieces) \in Nat /\ Logging!Newest = Len(logPieces)
  BY DEF Logging!Values, Logging!Newest, Pieces
<1>3. logTail \in 0..Len(logPieces) /\ logSinks \subseteq {"uart", "file"} /\ logCur \in 1..3
      /\ logCommands \in Nat /\ logMade \in Nat /\ logShown \in Seq(Nat)
  BY <1>1, <1>2 DEF Logging!Values
<1>4. ASSUME NEW s \in {"uart", "file"}
      PROVE  /\ logPos[s] \in 0..Len(logPieces) /\ logDrops[s] \in Nat
             /\ logSince[s] \in Starts /\ logGot[s] \in Seq(Nat)
  BY <1>1, <1>2 DEF Logging!Values, Starts
<1>5. ASSUME NEW b \in Starts PROVE b.pos \in Nat /\ b.drops \in Nat
  BY DEF Starts
<1>6. \A n \in 0..Len(logPieces) : n \in Nat /\ n <= Len(logPieces)
  BY <1>2
<1> QED
  BY <1>2, <1>3, <1>4, <1>5, <1>6

\* Log counts with the same Cardinality.
LEMMA CountsAre == \A S : Logging!Cardinality(S) = Cardinality(S)
BY Zenon DEF Logging!Cardinality, Cardinality

LEMMA MissedIs == \A s : Logging!Missed(s) = Lost(logPieces, s, logGot[s], logSince[s].pos, logPos[s])
BY Zenon DEF Logging!Missed, Lost, TakenBy, Given, Logging!Takes

LEMMA InvFrom == ASSUME Parts PROVE Logging!Inv
<1>1. Logging!Values
  BY DEF Parts
<1> USE ValuesAre, <1>1
<1>2. ASSUME NEW s \in logSinks
      PROVE  /\ Logging!Behind(s) /\ Logging!Increasing(logGot[s])
             /\ Cardinality(Lost(logPieces, s, logGot[s], logSince[s].pos, logPos[s]))
                  <= logDrops[s] - logSince[s].drops
  <2>1. Stands(logPieces, s, logGot[s], logPos[s], logDrops[s], logSince[s])
    BY DEF Parts, AllStand
  <2> QED
    BY <2>1 DEF Stands, Logging!Behind, Logging!Increasing, Rising
<1>3. Logging!PiecesKept /\ \A s \in logSinks : Logging!Behind(s)
  BY <1>2, CountsAre, MissedIs, Zenon DEF Logging!PiecesKept
<1>4. TextsHold /\ Logging!WriteBehind /\ TurnsHold
  BY DEF Parts
<1>5. Logging!CommandInOrder /\ \A k \in 1..Len(logShown) : logShown[k] \in 1..logMade
  BY <1>4 DEF TextsHold, Logging!CommandInOrder, Logging!Increasing, Out, Rising
<1>6. ASSUME NEW p \in Places(logPieces), Logging!ToCome(p) PROVE "uart" \in logSinks /\ From <= p
  <2>1. "uart" \in logSinks /\ p \in Int
    BY <1>6 DEF Logging!ToCome, Places
  <2>2. CASE logPc = "write" /\ logCur = 1
    <3>1. Logging!Order[logCur] = "uart"
      BY <2>2 DEF Logging!Order
    <3>2. logCopy \in 0..(Logging!Newest - 1) /\ logCopy <= logPos["uart"]
      BY <1>4, <2>2, <3>1 DEF Logging!WriteBehind
    <3>3. logPos["uart"] \in Nat /\ logCopy \in Int
      BY <3>2
    <3> QED
      BY <1>6, <2>1, <2>2, <3>2, <3>3 DEF Logging!ToCome, From
  <2>3. CASE ~(logPc = "write" /\ logCur = 1)
    BY <1>6, <2>1, <2>3 DEF Logging!ToCome, From
  <2> QED
    BY <2>2, <2>3
<1>7. Logging!TextsInOrder
  <2>1. \A p \in Places(logPieces) : Of(logPieces, logCommands, p) /\ Logging!ToCome(p) =>
          \A k \in 1..Len(logShown) : logShown[k] < logPieces[p + 1].no
    BY <1>4, <1>6 DEF TextsHold, Ahead
  <2>2. Stored(logPieces, logCommands, logMade)
    BY <1>4 DEF TextsHold
  <2> QED
    BY <1>5, <2>1, <2>2 DEF Logging!TextsInOrder, Logging!OfCommand, Stored, Of, Places
<1>8. Logging!Turns
  <2>1. (\A p \in 0..(Logging!Newest - 1) : ~Logging!OfCommand(p)) <=> NoText(logPieces, logCommands)
    BY DEF NoText, Of, Places, Logging!OfCommand
  <2> QED
    BY <1>4, <2>1 DEF Logging!Turns, TurnsHold
<1> QED
  BY <1>3, <1>4, <1>5, <1>7, <1>8 DEF Logging!Inv

-----------------------------------------------------------------------------
\* The start.
LEMMA LogInit == ASSUME Logging!Init PROVE Parts
<1>1. Logging!Newest = 0 /\ Logging!Outputs = {"uart", "file"}
  BY DEF Logging!Init, Logging!Newest, Logging!Outputs
<1>2. <<>> \in Seq(Logging!Piece) /\ <<>> \in Seq(Nat) /\ Len(<<>>) = 0 /\ 0..0 = {0} /\ 0 \in Nat
  OBVIOUS
<1>3. Logging!Values
  <2>1. /\ logPieces \in Seq(Logging!Piece) /\ logTail \in 0..Logging!Newest
        /\ logSinks \subseteq Logging!Outputs /\ logPos \in [Logging!Outputs -> 0..Logging!Newest]
        /\ logDrops \in [Logging!Outputs -> Nat] /\ logGot \in [Logging!Outputs -> Seq(Nat)]
        /\ logCommands \in Nat /\ logMade \in Nat /\ logShown \in Seq(Nat)
    BY <1>1, <1>2 DEF Logging!Init
  <2>2. logCur \in 1..3
    BY DEF Logging!Init
  <2>3. logDump \in [active : BOOLEAN, pos : Nat, end : Int]
    BY DEF Logging!Init, Logging!NoDump
  <2>4. logSince \in [Logging!Outputs -> [pos : Nat, drops : Nat]]
    BY DEF Logging!Init
  <2> QED
    BY <2>1, <2>2, <2>3, <2>4 DEF Logging!Values
<1>4. AllStand
  <2>1. SUFFICES ASSUME NEW s \in logSinks
                 PROVE  Stands(logPieces, s, logGot[s], logPos[s], logDrops[s], logSince[s])
    BY DEF AllStand
  <2>2. /\ s \in Logging!Outputs /\ logGot[s] = <<>> /\ logPos[s] = 0 /\ logDrops[s] = 0
        /\ logSince[s] = [pos |-> 0, drops |-> 0] /\ Len(logPieces) = 0
    BY <1>2 DEF Logging!Init
  <2> QED
    BY <2>2, StandsNew
<1>5. Logging!WriteBehind
  BY DEF Logging!Init, Logging!WriteBehind
<1>6. Places(logPieces) = {}
  BY <1>2 DEF Logging!Init, Places
<1>7. TextsHold
  BY <1>6, OutNothing DEF Logging!Init, TextsHold, Stored, Ahead
<1>8. TurnsHold
  <2>1. NoText(logPieces, logCommands)
    BY <1>6 DEF NoText
  <2> QED
    BY <2>1 DEF Logging!Init, TurnsHold, Logging!NoDump
<1> QED
  BY <1>3, <1>4, <1>5, <1>7, <1>8 DEF Parts

\* What leaves the pieces, the outputs and the texts alone.
LEMMA StandSame ==
  ASSUME AllStand, UNCHANGED <<logPieces, logSinks, logGot, logPos, logDrops, logSince>>
  PROVE  AllStand'
BY DEF AllStand

LEMMA ValuesSame ==
  ASSUME Logging!Values,
         UNCHANGED <<logPieces, logTail, logSinks, logGot, logPos, logDrops, logSince, logCommands>>,
         logCur' \in 1..3, logDump' \in [active : BOOLEAN, pos : Nat, end : Int],
         logMade' \in Nat, logShown' \in Seq(Nat)
  PROVE  Logging!Values'
BY DEF Logging!Values, Logging!Newest

LEMMA Idle ==
  ASSUME logPc # "write", logPc' # "write", UNCHANGED logPos
  PROVE  From = logPos["uart"] /\ From' = logPos["uart"] /\ Logging!WriteBehind'
BY DEF From, Logging!WriteBehind

LEMMA QuietStep ==
  ASSUME Parts,
         UNCHANGED <<logPieces, logTail, logSinks, logGot, logPos, logDrops, logSince, logCommands,
                     logMade, logShown, logQueued, logCmdDone>>,
         logPc # "write", logPc' # "write", ~Logging!InCommand, logPc' \notin {"command", "prompt"},
         logCur' \in 1..3, logDump' \in [active : BOOLEAN, pos : Nat, end : Int],
         logDump'.active => logDump.active
  PROVE  Parts'
<1>1. Logging!Values'
  <2>1. logMade' \in Nat /\ logShown' \in Seq(Nat)
    BY DEF Parts, Logging!Values
  <2> QED
    BY <2>1, ValuesSame DEF Parts
<1>2. AllStand'
  BY StandSame DEF Parts
<1>3. Logging!WriteBehind' /\ From' = From
  BY Idle
<1>4. TextsHold'
  BY <1>3 DEF Parts, TextsHold
<1>5. TurnsHold'
  <2>1. ~Logging!InCommand'
    BY DEF Logging!InCommand
  <2> QED
    BY <2>1 DEF Parts, TurnsHold
<1> QED
  BY <1>1, <1>2, <1>3, <1>4, <1>5 DEF Parts

\* What is left of a dump.
LEMMA DumpIs ==
  ASSUME logDump \in [active : BOOLEAN, pos : Nat, end : Int]
  PROVE  /\ Logging!NoDump \in [active : BOOLEAN, pos : Nat, end : Int] /\ Logging!NoDump.active = FALSE
         /\ \A p \in Nat, n \in Nat :
              /\ [logDump EXCEPT !.pos = p, !.end = Logging!Less(n)]
                   \in [active : BOOLEAN, pos : Nat, end : Int]
              /\ [logDump EXCEPT !.pos = p, !.end = Logging!Less(n)].active = logDump.active
<1>1. Logging!NoDump \in [active : BOOLEAN, pos : Nat, end : Int] /\ Logging!NoDump.active = FALSE
  BY DEF Logging!NoDump
<1>2. \A n \in Nat : Logging!Less(n) \in Int
  BY DEF Logging!Less, Logging!Astray
<1> QED
  BY <1>1, <1>2

\* The dump, the ways past an output and the end of a run.
LEMMA QuietSteps ==
  ASSUME Parts,
         \/ Logging!DumpSkips \/ Logging!DumpPauses \/ Logging!DumpCopies \/ Logging!DumpPuts
         \/ Logging!DrainSkips \/ Logging!DrainPauses \/ Logging!Finish \/ Logging!RetryDue
         \/ Logging!Send
  PROVE  Parts'
<1>1. logDump \in [active : BOOLEAN, pos : Nat, end : Int] /\ logCur \in 1..3
  BY DEF Parts, Logging!Values
<1> USE <1>1, QuietStep DEF Logging!InCommand, Logging!DumpKeeps, Logging!DrainKeeps,
        Logging!outputs, Logging!buffer, Logging!run, Logging!line, Logging!bounds
<1>2. CASE Logging!DumpSkips
  <2>1. logDump' \in [active : BOOLEAN, pos : Nat, end : Int] /\ logDump'.active = FALSE
    BY <1>1, <1>2, DumpIs DEF Logging!DumpSkips
  <2> QED
    BY <1>2, <2>1 DEF Logging!DumpSkips, Logging!ToDrain
<1>3. CASE Logging!DumpPauses
  BY <1>3 DEF Logging!DumpPauses, Logging!ToDrain
<1>4. CASE Logging!DumpCopies
  BY <1>4 DEF Logging!DumpCopies
<1>5. CASE Logging!DumpPuts
  <2>1. PICK length \in 0..2 :
          IF Logging!Room < length
          THEN Logging!ToDrain /\ UNCHANGED logDump
          ELSE /\ logPc' = "dump" /\ UNCHANGED logCur
               /\ logDump' = IF logDump.pos = logCopy /\ logCopy < Logging!Newest
                               THEN [logDump EXCEPT !.pos = @ + 1, !.end = Logging!Less(1)]
                               ELSE logDump
    BY <1>5 DEF Logging!DumpPuts
  <2>2. logPc' \in {"drain", "dump"} /\ logCur' \in 1..3
    BY <2>1 DEF Logging!ToDrain
  <2>3. [logDump EXCEPT !.pos = @ + 1, !.end = Logging!Less(1)]
          = [logDump EXCEPT !.pos = logDump.pos + 1, !.end = Logging!Less(1)]
        /\ logDump.pos + 1 \in Nat
    BY <1>1
  <2>4. logDump' \in [active : BOOLEAN, pos : Nat, end : Int] /\ logDump'.active = logDump.active
    <3>1. CASE UNCHANGED logDump
      BY <1>1, <3>1
    <3>2. CASE logDump' = [logDump EXCEPT !.pos = logDump.pos + 1, !.end = Logging!Less(1)]
      BY <1>1, <2>3, <3>2, DumpIs
    <3> QED
      BY <2>1, <2>3, <3>1, <3>2
  <2> QED
    BY <1>5, <2>2, <2>4 DEF Logging!DumpPuts
<1>6. CASE Logging!DrainSkips
  <2>1. logCur + 1 \in 1..3
    BY <1>6 DEF Logging!DrainSkips
  <2> QED
    BY <1>6, <2>1 DEF Logging!DrainSkips, Logging!NextOutput
<1>7. CASE Logging!DrainPauses
  <2>1. logCur + 1 \in 1..3
    BY <1>7 DEF Logging!DrainPauses
  <2> QED
    BY <1>7, <2>1 DEF Logging!DrainPauses, Logging!NextOutput
<1>8. CASE Logging!Finish
  BY <1>8 DEF Logging!Finish
<1>9. CASE Logging!RetryDue
  BY <1>9 DEF Logging!RetryDue
<1>10. CASE Logging!Send
  BY <1>10 DEF Logging!Send
<1> QED
  BY <1>2, <1>3, <1>4, <1>5, <1>6, <1>7, <1>8, <1>9, <1>10

-----------------------------------------------------------------------------
LEMMA Ranges ==
  \A p, o, n \in Nat :
    p <= n /\ o <= n => o \in 0..(n + 1) /\ p \in 0..(n + 1) /\ p <= p /\ (p < o => p <= o)
OBVIOUS

\* A piece is stored.
LEMMA StoreStep ==
  ASSUME Logging!Values, AllStand, NEW piece \in Pieces, piece.length \in 0..2,
         Logging!Store(piece), UNCHANGED <<logSinks, logSince, logGot>>
  PROVE  /\ logPieces' = Append(logPieces, piece) /\ AllStand'
         /\ logPieces' \in Seq(Pieces) /\ Len(logPieces') = Len(logPieces) + 1
         /\ logTail' \in 0..Len(logPieces')
         /\ logPos' \in [{"uart", "file"} -> 0..Len(logPieces')]
         /\ \A s \in logSinks : logPos'[s] \in Nat /\ logPos[s] <= logPos'[s]
         /\ logDrops' \in [{"uart", "file"} -> Nat]
         /\ logDump' \in [active : BOOLEAN, pos : Nat, end : Int] /\ logDump'.active = logDump.active
<1> DEFINE N == Len(logPieces)
           O == {"uart", "file"}
           oldest == Logging!GiveWay(piece.length)
           Gone(s) == {x \in logPos[s]..(oldest - 1) : TakenBy(logPieces, s, x)}
<1> USE ValuesAre
<1>1. N \in Nat /\ Logging!Newest = N /\ Logging!Outputs = O /\ logTail \in 0..N
  BY DEF Logging!Outputs
<1>2. oldest \in logTail..N
  BY <1>1, GivesWay DEF Pieces
<1>3. oldest \in 0..N /\ oldest \in Nat
  BY <1>1, <1>2
<1>4. /\ logPieces' = Append(logPieces, piece) /\ logTail' = oldest
      /\ logPos' = [s \in O |-> IF s \in logSinks /\ logPos[s] < oldest THEN oldest ELSE logPos[s]]
      /\ logDrops' = [s \in O |-> logDrops[s] + Logging!Pushed(s, oldest)]
      /\ logDump' = IF logDump.active /\ logDump.pos < oldest
                      THEN [logDump EXCEPT !.pos = oldest, !.end = Logging!Less(oldest - logDump.pos)]
                      ELSE logDump
  BY <1>1 DEF Logging!Store
<1>5. logPieces' \in Seq(Pieces) /\ Len(logPieces') = N + 1
  BY <1>4, PiecesBefore
<1>6. \A s : Logging!Pushed(s, oldest) = IF s \in logSinks THEN Cardinality(Gone(s)) ELSE 0
  BY CountsAre, Zenon DEF Logging!Pushed, Logging!Takes, TakenBy
<1> HIDE DEF oldest
<1>7. ASSUME NEW s \in O
      PROVE  /\ logPos'[s] = IF s \in logSinks /\ logPos[s] < oldest THEN oldest ELSE logPos[s]
             /\ logDrops'[s] = logDrops[s] + Logging!Pushed(s, oldest)
             /\ logPos[s] \in Nat /\ logPos[s] <= N /\ logDrops[s] \in Nat /\ logSince[s] \in Starts
             /\ logGot[s] \in Seq(Nat)
  BY <1>4
<1>8. ASSUME NEW s \in logSinks
      PROVE  /\ Stands(logPieces', s, logGot[s], logPos'[s], logDrops'[s], logSince[s])
             /\ Cardinality(Gone(s)) \in Nat
  <2>1. s \in O
    OBVIOUS
  <2>2. Stands(logPieces, s, logGot[s], logPos[s], logDrops[s], logSince[s])
    BY DEF AllStand
  <2>3. /\ logPos'[s] = IF logPos[s] < oldest THEN oldest ELSE logPos[s]
        /\ logDrops'[s] = logDrops[s] + Cardinality(Gone(s))
    BY <1>6, <1>7, <2>1
  <2>4. /\ Stands(Append(logPieces, piece), s, logGot[s],
                  IF logPos[s] < oldest THEN oldest ELSE logPos[s],
                  logDrops[s] + Cardinality(Gone(s)), logSince[s])
        /\ Cardinality(Gone(s)) \in Nat
    BY <1>3, <1>7, <2>1, <2>2, StandsPushed
  <2> HIDE DEF Gone
  <2> QED
    BY <1>4, <2>3, <2>4
<1>9. AllStand'
  BY <1>8 DEF AllStand
<1>10. ASSUME NEW s \in O
       PROVE  logPos'[s] \in 0..(N + 1) /\ logPos'[s] \in Nat /\ logPos[s] <= logPos'[s]
  <2>1. oldest \in 0..(N + 1) /\ logPos[s] \in 0..(N + 1) /\ logPos[s] <= logPos[s]
        /\ (logPos[s] < oldest => logPos[s] <= oldest)
    <3>1. N \in Nat /\ oldest \in Nat /\ oldest <= N
      BY <1>1, <1>3
    <3>2. logPos[s] \in Nat /\ logPos[s] <= N
      BY <1>7
    <3> HIDE DEF N
    <3> QED
      BY <3>1, <3>2, Ranges
  <2>2. 0..(N + 1) \subseteq Nat
    BY <1>1
  <2>3. \/ logPos'[s] = oldest /\ logPos[s] < oldest
        \/ logPos'[s] = logPos[s]
    BY <1>7
  <2> QED
    BY <2>1, <2>2, <2>3
<1>11. ASSUME NEW s \in O PROVE logDrops'[s] \in Nat
  <2>1. Logging!Pushed(s, oldest) \in Nat
    <3>1. CASE s \in logSinks
      <4>1. Cardinality(Gone(s)) \in Nat /\ Logging!Pushed(s, oldest) = Cardinality(Gone(s))
        BY <1>6, <1>8, <3>1, Zenon
      <4> HIDE DEF Gone
      <4> QED
        BY <4>1, Zenon
    <3>2. CASE s \notin logSinks
      <4>1. Logging!Pushed(s, oldest) = 0
        BY <1>6, <3>2, Zenon
      <4> QED
        BY <4>1
    <3> QED
      BY <3>1, <3>2
  <2>2. logDrops[s] + Logging!Pushed(s, oldest) \in Nat
    BY <1>7, <2>1, SumIs, Zenon
  <2> QED
    BY <1>7, <2>2
<1>12. logPos' \in [O -> 0..(N + 1)] /\ logDrops' \in [O -> Nat]
  <2>1. logPos' = [s \in O |-> logPos'[s]] /\ logDrops' = [s \in O |-> logDrops'[s]]
    BY <1>4, Zenon
  <2> QED
    BY <1>10, <1>11, <2>1, Zenon
<1>13. oldest \in 0..(N + 1)
  BY <1>1, <1>3
<1>14. logDump' \in [active : BOOLEAN, pos : Nat, end : Int] /\ logDump'.active = logDump.active
  <2>1. logDump \in [active : BOOLEAN, pos : Nat, end : Int]
    BY DEF Logging!Values
  <2>2. CASE logDump.active /\ logDump.pos < oldest
    <3>1. oldest - logDump.pos \in Nat
      <4>1. logDump.pos \in Nat
        BY <2>1
      <4> QED
        BY <1>3, <2>2, <4>1, LessIs, Zenon
    <3> QED
      BY <1>3, <1>4, <2>1, <2>2, <3>1, DumpIs
  <2>3. CASE ~(logDump.active /\ logDump.pos < oldest)
    BY <1>4, <2>1, <2>3
  <2> QED
    BY <2>2, <2>3
<1> HIDE DEF N
<1>15. /\ logTail' \in 0..Len(logPieces') /\ logPos' \in [O -> 0..Len(logPieces')]
  BY <1>4, <1>5, <1>12, <1>13, Zenon
<1> QED
  BY <1>4, <1>5, <1>9, <1>10, <1>12, <1>14, <1>15 DEF N

\* The positions move on, and the UART is behind none of what it was not behind.
LEMMA StoreBehind ==
  ASSUME Logging!Values, Logging!WriteBehind, Len(logPieces') = Len(logPieces) + 1,
         UNCHANGED <<logSinks, logSince, logGot>>,
         \A s \in logSinks : logPos'[s] \in Nat /\ logPos[s] <= logPos'[s],
         UNCHANGED <<logPc, logCur, logCopy>> \/ (logPc # "write" /\ logPc' # "write")
  PROVE  /\ Logging!WriteBehind'
         /\ "uart" \in logSinks => From \in Int /\ From' \in Int /\ From <= From'
<1> USE ValuesAre
<1>1. CASE logPc = "write"
  <2> DEFINE s == Logging!Order[logCur]
  <2>1. /\ logPc' = "write" /\ logCur' = logCur /\ logCopy' = logCopy /\ logCur <= 2 /\ s \in logSinks
        /\ logCopy \in 0..(Len(logPieces) - 1) /\ logSince[s].pos <= logCopy /\ logCopy <= logPos[s]
        /\ \A k \in 1..Len(logGot[s]) : logGot[s][k] < logCopy
    BY <1>1 DEF Logging!WriteBehind
  <2>2. s \in {"uart", "file"}
    BY <2>1
  <2> HIDE DEF s
  <2>3. logPos[s] \in Nat /\ logPos'[s] \in Nat /\ logPos[s] <= logPos'[s] /\ logCopy \in Int
    BY <2>1, <2>2
  <2>4. \A c \in Int, p \in Nat, q \in Nat : c <= p /\ p <= q => c <= q
    OBVIOUS
  <2>5. logCopy <= logPos'[s]
    BY <2>1, <2>3, <2>4
  <2>6. \A n \in Nat : \A c \in 0..(n - 1) : c \in 0..((n + 1) - 1)
    OBVIOUS
  <2>7. logCopy \in 0..(Len(logPieces') - 1)
    BY <2>1, <2>6
  <2>8. Logging!WriteBehind'
    BY <2>1, <2>5, <2>7 DEF Logging!WriteBehind, Logging!Newest, s, Logging!Order
  <2>9. logCur = 1 => From = logCopy /\ From' = logCopy
    BY <2>1 DEF From
  <2>10. logCur # 1 => From = logPos["uart"] /\ From' = logPos'["uart"]
    BY <2>1 DEF From
  <2>11. ASSUME "uart" \in logSinks PROVE From \in Int /\ From' \in Int /\ From <= From'
    <3>1. CASE logCur = 1
      <4>1. From = logCopy /\ From' = logCopy
        BY <2>9, <3>1
      <4> HIDE DEF From
      <4> QED
        BY <2>3, <4>1
    <3>2. CASE logCur # 1
      <4>1. From = logPos["uart"] /\ From' = logPos'["uart"]
        BY <2>10, <3>2
      <4>2. logPos["uart"] \in Nat /\ logPos'["uart"] \in Nat /\ logPos["uart"] <= logPos'["uart"]
        BY <2>11
      <4> HIDE DEF From
      <4> QED
        BY <4>1, <4>2
    <3> QED
      BY <3>1, <3>2
  <2> QED
    BY <2>8, <2>11
<1>2. CASE logPc # "write"
  <2>1. logPc' # "write"
    BY <1>2
  <2> QED
    BY <1>2, <2>1 DEF From, Logging!WriteBehind
<1> QED
  BY <1>1, <1>2

\* A line is printed, at any time.
LEMMA PrintStep == ASSUME Parts, Logging!PrintLine PROVE Parts'
<1> DEFINE piece == [kind |-> "line", of |-> 0, no |-> 0, length |-> 2]
<1>1. piece \in Pieces /\ piece.length \in 0..2 /\ piece.kind = "line" /\ piece.of = 0
  BY DEF Pieces, Logging!Piece
<1>2. /\ Logging!Store(piece)
      /\ UNCHANGED <<logSinks, logSince, logGot, logPc, logCur, logCopy, logCmdDone, logCommands,
                     logQueued, logMade, logShown>>
  BY DEF Logging!PrintLine, Logging!outputs, Logging!run, Logging!line
<1>3. Logging!Values /\ AllStand /\ Logging!WriteBehind /\ TextsHold /\ TurnsHold
  BY DEF Parts
<1> HIDE DEF piece
<1>4. /\ logPieces' = Append(logPieces, piece) /\ AllStand'
      /\ logPieces' \in Seq(Pieces) /\ Len(logPieces') = Len(logPieces) + 1
      /\ logTail' \in 0..Len(logPieces')
      /\ logPos' \in [{"uart", "file"} -> 0..Len(logPieces')]
      /\ \A s \in logSinks : logPos'[s] \in Nat /\ logPos[s] <= logPos'[s]
      /\ logDrops' \in [{"uart", "file"} -> Nat]
      /\ logDump' \in [active : BOOLEAN, pos : Nat, end : Int] /\ logDump'.active = logDump.active
  BY <1>1, <1>2, <1>3, StoreStep
<1>5. Logging!Values'
  BY <1>2, <1>3, <1>4 DEF Logging!Values, Logging!Outputs, Logging!Newest, Pieces
<1>6. Logging!WriteBehind' /\ ("uart" \in logSinks => From \in Int /\ From' \in Int /\ From <= From')
  BY <1>2, <1>3, <1>4, StoreBehind
<1>7. logPieces \in Seq(Pieces) /\ logCommands \in Nat /\ logMade \in Nat
  BY <1>3, ValuesAre
<1>8. TextsHold'
  <2>1. Stored(logPieces', logCommands, logMade)
    BY <1>1, <1>3, <1>4, <1>7, StoredLine DEF TextsHold
  <2>2. ASSUME "uart" \in logSinks PROVE Ahead(logPieces', logCommands, logShown, From')
    <3>1. Ahead(logPieces, logCommands, logShown, From)
      BY <1>3, <2>2 DEF TextsHold
    <3>2. Ahead(logPieces', logCommands, logShown, From)
      BY <1>1, <1>4, <1>7, <3>1, StoredLine
    <3> HIDE DEF From
    <3> QED
      BY <1>4, <1>6, <2>2, <3>2, AheadLater
  <2> QED
    BY <1>2, <1>3, <2>1, <2>2 DEF TextsHold
<1>9. TurnsHold'
  <2>1. NoText(logPieces, logCommands) => NoText(logPieces', logCommands)
    BY <1>1, <1>4, <1>7, StoredLine
  <2>2. Logging!InCommand' = Logging!InCommand
    BY <1>2 DEF Logging!InCommand
  <2> QED
    BY <1>2, <1>3, <1>4, <2>1, <2>2 DEF TurnsHold
<1> QED
  BY <1>4, <1>5, <1>6, <1>8, <1>9 DEF Parts

-----------------------------------------------------------------------------
\* A text of a command goes out, or waits, or is lost.
LEMMA PutStep ==
  ASSUME Parts, NEW length, Logging!Put(length), logMade' = logMade + 1,
         NoText(logPieces, logCommands), UNCHANGED <<logSinks, logSince, logGot, logCommands>>,
         logPc # "write", logPc' # "write", logCur' \in 1..3
  PROVE  Logging!Values' /\ AllStand' /\ Logging!WriteBehind' /\ TextsHold'
         /\ UNCHANGED <<logPieces, logDump>>
<1>1. /\ logShown' = Append(logShown, logMade + 1)
      /\ UNCHANGED <<logPieces, logTail, logPos, logDrops, logDump>>
  BY DEF Logging!Put, Logging!buffer
<1>2. Logging!Values /\ AllStand /\ TextsHold
  BY DEF Parts
<1>3. logPieces \in Seq(Pieces) /\ logCommands \in Nat /\ logMade \in Nat /\ logShown \in Seq(Nat)
      /\ logMade + 1 \in Nat
  BY <1>2, ValuesAre
<1>4. logShown' \in Seq(Nat)
  BY <1>1, <1>3
<1>5. Logging!Values'
  <2>1. logDump' \in [active : BOOLEAN, pos : Nat, end : Int]
    BY <1>1, <1>2 DEF Logging!Values
  <2> QED
    BY <1>1, <1>2, <1>3, <1>4, <2>1, ValuesSame
<1>6. AllStand'
  BY <1>1, <1>2, StandSame
<1>7. Logging!WriteBehind'
  BY <1>1, Idle
<1>8. TextsHold'
  <2>1. Stored(logPieces, logCommands, logMade) /\ Out(logMade, logShown)
    BY <1>2 DEF TextsHold
  <2>2. Stored(logPieces, logCommands, logMade + 1)
        /\ Ahead(logPieces, logCommands, Append(logShown, logMade + 1), From')
    BY <1>3, <2>1, NothingWaits
  <2>3. Out(logMade + 1, logShown)
    BY <1>3, <2>1, MoreTexts
  <2>4. \A k \in 1..Len(logShown) : logShown[k] < logMade + 1
    BY <1>3, <2>1 DEF Out
  <2>5. logMade + 1 \in 1..(logMade + 1)
    BY <1>3
  <2>6. Out(logMade + 1, Append(logShown, logMade + 1))
    BY <1>3, <2>3, <2>4, <2>5, OutAppended
  <2> QED
    BY <1>1, <2>2, <2>6 DEF TextsHold
<1> QED
  BY <1>1, <1>5, <1>6, <1>7, <1>8

LEMMA WaitStep ==
  ASSUME Parts, NEW length \in 0..2, Logging!Wait(length), logMade' = logMade + 1,
         UNCHANGED <<logSinks, logSince, logGot, logCommands>>,
         logPc # "write", logPc' # "write", logCur' \in 1..3
  PROVE  Logging!Values' /\ AllStand' /\ Logging!WriteBehind' /\ TextsHold'
         /\ logDump'.active = logDump.active
<1> DEFINE piece == [kind |-> "console", of |-> logCommands, no |-> logMade + 1, length |-> length]
<1>1. Logging!Store(piece) /\ UNCHANGED logShown
  BY DEF Logging!Wait
<1>2. Logging!Values /\ AllStand /\ Logging!WriteBehind /\ TextsHold
  BY DEF Parts
<1>3. logPieces \in Seq(Pieces) /\ logCommands \in Nat /\ logMade \in Nat /\ logShown \in Seq(Nat)
      /\ logMade + 1 \in Nat /\ length \in Nat
  <2>1. logPieces \in Seq(Pieces) /\ logCommands \in Nat /\ logMade \in Nat /\ logShown \in Seq(Nat)
    BY <1>2, ValuesAre, Zenon
  <2>2. logMade + 1 \in Nat /\ length \in Nat
    BY <2>1
  <2> QED
    BY <2>1, <2>2
<1>4. piece \in Pieces /\ piece.length \in 0..2
  BY <1>3 DEF Pieces, Logging!Piece
<1> HIDE DEF piece
<1>5. /\ logPieces' = Append(logPieces, piece) /\ AllStand'
      /\ logPieces' \in Seq(Pieces) /\ Len(logPieces') = Len(logPieces) + 1
      /\ logTail' \in 0..Len(logPieces')
      /\ logPos' \in [{"uart", "file"} -> 0..Len(logPieces')]
      /\ \A s \in logSinks : logPos'[s] \in Nat /\ logPos[s] <= logPos'[s]
      /\ logDrops' \in [{"uart", "file"} -> Nat]
      /\ logDump' \in [active : BOOLEAN, pos : Nat, end : Int] /\ logDump'.active = logDump.active
  BY <1>1, <1>2, <1>4, StoreStep
<1>6. Logging!Values'
  BY <1>1, <1>2, <1>3, <1>5 DEF Logging!Values, Logging!Outputs, Logging!Newest, Pieces
<1>7. Logging!WriteBehind' /\ ("uart" \in logSinks => From \in Int /\ From' \in Int /\ From <= From')
  BY <1>2, <1>5, StoreBehind
<1>8. TextsHold'
  <2>1. Stored(logPieces, logCommands, logMade) /\ Out(logMade, logShown)
        /\ ("uart" \in logSinks => Ahead(logPieces, logCommands, logShown, From))
    BY <1>2 DEF TextsHold
  <2>2. Stored(logPieces', logCommands, logMade + 1)
    BY <1>3, <1>5, <2>1, StoredText DEF piece
  <2>3. Out(logMade + 1, logShown)
    BY <1>3, <2>1, MoreTexts
  <2>4. ASSUME "uart" \in logSinks PROVE Ahead(logPieces', logCommands, logShown, From')
    <3>1. From \in Int /\ Ahead(logPieces, logCommands, logShown, From)
      BY <1>7, <2>1, <2>4
    <3> HIDE DEF From
    <3>2. Ahead(logPieces', logCommands, logShown, From)
      BY <1>3, <1>5, <2>1, <3>1, StoredText DEF piece
    <3> QED
      BY <1>5, <1>7, <2>4, <3>2, AheadLater
  <2> QED
    BY <1>1, <2>2, <2>3, <2>4 DEF TextsHold
<1> QED
  BY <1>5, <1>6, <1>7, <1>8

LEMMA LostStep ==
  ASSUME Parts, logMade' = logMade + 1,
         UNCHANGED <<logPieces, logTail, logPos, logDrops, logDump, logShown, logSinks, logSince,
                     logGot, logCommands>>,
         logPc # "write", logPc' # "write", logCur' \in 1..3
  PROVE  Logging!Values' /\ AllStand' /\ Logging!WriteBehind' /\ TextsHold'
<1>1. Logging!Values /\ AllStand /\ TextsHold
  BY DEF Parts
<1>2. logPieces \in Seq(Pieces) /\ logCommands \in Nat /\ logMade \in Nat /\ logShown \in Seq(Nat)
      /\ logMade + 1 \in Nat /\ logDump \in [active : BOOLEAN, pos : Nat, end : Int]
  BY <1>1, ValuesAre DEF Logging!Values
<1>3. Logging!Values' /\ AllStand' /\ Logging!WriteBehind' /\ From' = From
  BY <1>1, <1>2, ValuesSame, StandSame, Idle
<1>4. TextsHold'
  <2>1. Stored(logPieces, logCommands, logMade) /\ Out(logMade, logShown)
    BY <1>1 DEF TextsHold
  <2>2. Stored(logPieces, logCommands, logMade + 1) /\ Out(logMade + 1, logShown)
    BY <1>2, <2>1, MoreTexts
  <2> QED
    BY <1>1, <1>3, <2>2 DEF TextsHold
<1> QED
  BY <1>3, <1>4

LEMMA CommandsAre ==
  ASSUME Parts, Logging!InCommand
  PROVE  /\ ~logDump.active /\ logPc # "write" /\ logMade \in Nat /\ logMade + 1 > 0
         /\ ~logQueued => NoText(logPieces, logCommands)
<1>1. logMade \in Nat /\ TurnsHold
  BY ValuesAre DEF Parts
<1>2. logMade + 1 > 0
  BY <1>1
<1>3. logPc # "write"
  BY DEF Logging!InCommand
<1> QED
  BY <1>1, <1>2, <1>3 DEF TurnsHold

LEMMA ConsoleStep ==
  ASSUME Parts, Logging!InCommand, NEW length \in 0..2, Logging!PutConsole(length),
         UNCHANGED <<logSinks, logSince, logGot, logCommands>>, logPc' # "write", logCur' \in 1..3
  PROVE  /\ Logging!Values' /\ AllStand' /\ Logging!WriteBehind' /\ TextsHold'
         /\ ~logDump'.active /\ logMade' = logMade + 1
         /\ ~logQueued => NoText(logPieces', logCommands)
<1> USE CommandsAre
<1>1. logMade' = logMade + 1
  BY DEF Logging!PutConsole
<1>2. CASE logQueued
  <2>1. Logging!Wait(length)
    BY <1>2 DEF Logging!PutConsole
  <2> QED
    BY <1>1, <1>2, <2>1, WaitStep
<1>3. CASE ~logQueued
  <2>1. NoText(logPieces, logCommands)
    BY <1>3
  <2>2. CASE Logging!Room >= length
    <3>1. Logging!Put(length)
      BY <1>3, <2>2, Zenon DEF Logging!PutConsole
    <3> QED
      BY <1>1, <2>1, <3>1, PutStep
  <2>3. CASE ~(Logging!Room >= length)
    <3>1. UNCHANGED <<Logging!buffer, logTx, logShown>>
      BY <1>3, <2>3, Zenon DEF Logging!PutConsole
    <3>2. UNCHANGED <<logPieces, logTail, logPos, logDrops, logDump, logShown>>
      BY <3>1 DEF Logging!buffer
    <3> QED
      BY <1>1, <2>1, <3>2, LostStep
  <2> QED
    BY <2>2, <2>3
<1> QED
  BY <1>2, <1>3

LEMMA CommandStep ==
  ASSUME Parts, Logging!CommandPrints \/ Logging!CommandFails \/ Logging!CommandEnds
  PROVE  Parts'
<1> USE CommandsAre
<1>0. logCur \in 1..3
  BY DEF Parts, Logging!Values
<1>1. CASE Logging!CommandPrints
  <2>1. /\ Logging!InCommand /\ logMade' = logMade + 1
        /\ UNCHANGED <<logSinks, logSince, logGot, logPc, logCur, logCopy, logCmdDone, logCommands>>
    BY <1>1 DEF Logging!CommandPrints, Logging!InCommand, Logging!outputs, Logging!run, Logging!line
  <2>2. PICK length \in 1..2 :
          IF Logging!Direct(length) THEN Logging!Put(length) /\ UNCHANGED logQueued
                                    ELSE Logging!Wait(length) /\ logQueued' = TRUE
    BY <1>1, Zenon DEF Logging!CommandPrints
  <2>3. length \in 0..2
    OBVIOUS
  <2>4. logPc' # "write" /\ logCur' \in 1..3 /\ Logging!InCommand'
    BY <1>0, <2>1 DEF Logging!InCommand
  <2>5. logMade' > 0
    BY <2>1
  <2>6. CASE Logging!Direct(length)
    <3>1. Logging!Put(length) /\ UNCHANGED logQueued /\ ~logQueued
      BY <2>2, <2>6 DEF Logging!Direct
    <3>2. Logging!Values' /\ AllStand' /\ Logging!WriteBehind' /\ TextsHold'
          /\ UNCHANGED <<logPieces, logDump>>
      BY <2>1, <2>4, <3>1, PutStep
    <3>3. TurnsHold'
      BY <2>1, <2>4, <3>1, <3>2 DEF TurnsHold
    <3> QED
      BY <3>2, <3>3 DEF Parts
  <2>7. CASE ~Logging!Direct(length)
    <3>1. Logging!Wait(length) /\ logQueued' = TRUE
      BY <2>2, <2>7
    <3>2. Logging!Values' /\ AllStand' /\ Logging!WriteBehind' /\ TextsHold'
          /\ logDump'.active = logDump.active
      BY <2>1, <2>3, <2>4, <3>1, WaitStep
    <3>3. TurnsHold'
      BY <2>1, <2>4, <2>5, <3>1, <3>2 DEF TurnsHold
    <3> QED
      BY <3>2, <3>3 DEF Parts
  <2> QED
    BY <2>6, <2>7
<1>2. CASE Logging!CommandFails
  <2>1. /\ Logging!InCommand /\ Logging!PutConsole(2) /\ logPc' = "prompt"
        /\ UNCHANGED <<logSinks, logSince, logGot, logCur, logCmdDone, logCommands, logQueued>>
    BY <1>2 DEF Logging!CommandFails, Logging!InCommand, Logging!outputs, Logging!line
  <2>2. logPc' # "write" /\ logCur' \in 1..3 /\ Logging!InCommand' /\ 2 \in 0..2
    BY <1>0, <2>1 DEF Logging!InCommand
  <2>3. /\ Logging!Values' /\ AllStand' /\ Logging!WriteBehind' /\ TextsHold'
        /\ ~logDump'.active /\ logMade' = logMade + 1
        /\ ~logQueued => NoText(logPieces', logCommands)
    BY <2>1, <2>2, ConsoleStep
  <2>4. logMade' > 0
    BY <2>1, <2>3
  <2>5. TurnsHold'
    BY <2>1, <2>2, <2>3, <2>4 DEF TurnsHold
  <2> QED
    BY <2>3, <2>5 DEF Parts
<1>3. CASE Logging!CommandEnds
  <2>1. /\ Logging!InCommand /\ Logging!PutConsole(1) /\ logPc' = "dump"
        /\ logQueued' = FALSE /\ logCmdDone' = FALSE
        /\ UNCHANGED <<logSinks, logSince, logGot, logCur, logCommands>>
    BY <1>3 DEF Logging!CommandEnds, Logging!InCommand, Logging!ToDump, Logging!outputs
  <2>2. logPc' # "write" /\ logCur' \in 1..3 /\ ~Logging!InCommand' /\ 1 \in 0..2
    BY <1>0, <2>1 DEF Logging!InCommand
  <2>3. /\ Logging!Values' /\ AllStand' /\ Logging!WriteBehind' /\ TextsHold'
        /\ ~logDump'.active
    BY <2>1, <2>2, ConsoleStep
  <2>4. TurnsHold'
    BY <2>1, <2>2, <2>3 DEF TurnsHold
  <2> QED
    BY <2>3, <2>4 DEF Parts
<1> QED
  BY <1>1, <1>2, <1>3

\* A command is typed and begins, shows the log, or has nobody to hear it.
LEMMA LineStep ==
  ASSUME Parts,
         Logging!Typed \/ Logging!Begin \/ Logging!ShowsLog \/ Logging!CommandUnheard
  PROVE  Parts'
<1>1. Logging!Values /\ AllStand /\ TextsHold /\ TurnsHold
  BY DEF Parts
<1>2. logPieces \in Seq(Pieces) /\ logCommands \in Nat /\ logMade \in Nat /\ logShown \in Seq(Nat)
      /\ logCur \in 1..3 /\ logDump \in [active : BOOLEAN, pos : Nat, end : Int]
  BY <1>1, ValuesAre DEF Logging!Values
<1>3. Stored(logPieces, logCommands, logMade) /\ Out(logMade, logShown)
  BY <1>1 DEF TextsHold
<1> USE DEF Logging!outputs, Logging!run, Logging!bounds, Logging!line
<1>4. CASE Logging!Typed
  <2>1. /\ logPc = "idle" /\ logPc' = "idle" /\ ~logDump.active /\ logCmdDone' = TRUE
        /\ logCommands' = logCommands + 1
        /\ UNCHANGED <<logPieces, logTail, logPos, logDrops, logDump, logSinks, logSince, logGot,
                       logCur, logQueued, logMade, logShown>>
    BY <1>4 DEF Logging!Typed
  <2>2. logCommands + 1 \in Nat
    BY <1>2
  <2>3. Logging!Values'
    BY <1>1, <2>1, <2>2 DEF Logging!Values, Logging!Newest
  <2>4. AllStand' /\ Logging!WriteBehind'
    BY <1>1, <2>1, StandSame, Idle
  <2>5. Stored(logPieces, logCommands + 1, logMade) /\ NoText(logPieces, logCommands + 1)
    BY <1>2, <1>3, NextCommand
  <2>6. TextsHold'
    <3>1. Ahead(logPieces, logCommands + 1, logShown, From')
      BY <1>2, <2>2, <2>5, NothingWaits
    <3> QED
      BY <1>3, <2>1, <2>5, <3>1 DEF TextsHold
  <2>7. TurnsHold'
    BY <1>1, <2>1, <2>5 DEF TurnsHold, Logging!InCommand
  <2> QED
    BY <2>3, <2>4, <2>6, <2>7 DEF Parts
<1>5. CASE Logging!Begin
  <2>1. /\ logPc = "idle" /\ UNCHANGED <<logPieces, logTail, logPos, logDrops, logDump, logSinks,
                       logSince, logGot, logCur, logQueued, logCmdDone, logCommands>>
        /\ IF logCmdDone THEN logPc' = "command" /\ logMade' = 0 /\ logShown' = <<>>
                         ELSE logPc' = "dump" /\ UNCHANGED <<logMade, logShown>>
    BY <1>5 DEF Logging!Begin
  <2>2. CASE ~logCmdDone
    BY <1>2, <2>1, <2>2, QuietStep DEF Logging!InCommand
  <2>3. CASE logCmdDone
    <3>1. logPc' = "command" /\ logMade' = 0 /\ logShown' = <<>>
      BY <2>1, <2>3
    <3>2. <<>> \in Seq(Nat) /\ 0 \in Nat
      OBVIOUS
    <3>3. Logging!Values'
      BY <1>1, <1>2, <2>1, <3>1, <3>2, ValuesSame
    <3>4. AllStand' /\ Logging!WriteBehind'
      BY <1>1, <2>1, <3>1, StandSame, Idle
    <3>5. NoText(logPieces, logCommands) /\ ~logQueued /\ ~logDump.active
      BY <1>1, <2>1, <2>3 DEF TurnsHold, Logging!InCommand
    <3>6. Stored(logPieces, logCommands, 0) /\ Out(0, <<>>)
          /\ Ahead(logPieces, logCommands, <<>>, From')
      BY <1>2, <1>3, <3>5, NothingWaits, OutNothing, AheadNothing
    <3>7. TextsHold'
      BY <2>1, <3>1, <3>6 DEF TextsHold
    <3>8. TurnsHold'
      BY <2>1, <3>1, <3>5 DEF TurnsHold, Logging!InCommand
    <3> QED
      BY <3>3, <3>4, <3>7, <3>8 DEF Parts
  <2> QED
    BY <2>2, <2>3
<1>6. CASE Logging!ShowsLog
  <2>1. /\ logPc = "command" /\ logMade = 0 /\ logPc' = "dump" /\ logCmdDone' = FALSE
        /\ UNCHANGED <<logPieces, logTail, logPos, logDrops, logSinks, logSince, logGot, logCur,
                       logQueued, logCommands, logMade, logShown>>
    BY <1>6 DEF Logging!ShowsLog, Logging!ToDump
  <2>2. PICK p \in logTail..Logging!Newest :
          logDump' = [active |-> TRUE, pos |-> p, end |-> Logging!Newest - p]
    BY <1>6, Zenon DEF Logging!ShowsLog
  <2>3. logDump' \in [active : BOOLEAN, pos : Nat, end : Int]
    <3>1. logTail \in Nat /\ Logging!Newest \in Nat
      BY <1>1, ValuesAre
    <3>2. p \in Nat /\ Logging!Newest - p \in Int
      BY <3>1
    <3> QED
      BY <2>2, <3>2
  <2>4. Logging!Values' /\ AllStand' /\ Logging!WriteBehind' /\ From' = From
    BY <1>1, <1>2, <2>1, <2>3, ValuesSame, StandSame, Idle
  <2>5. TextsHold'
    BY <1>1, <2>1, <2>4 DEF TextsHold
  <2>6. ~logQueued
    <3>1. ~(0 > 0)
      OBVIOUS
    <3> QED
      BY <1>1, <2>1, <3>1 DEF TurnsHold
  <2>7. TurnsHold'
    BY <2>1, <2>6 DEF TurnsHold, Logging!InCommand
  <2> QED
    BY <2>4, <2>5, <2>7 DEF Parts
<1>7. CASE Logging!CommandUnheard
  <2>1. /\ logPc = "command" /\ logPc' = "dump" /\ logCmdDone' = FALSE /\ logQueued' = FALSE
        /\ logDump' = Logging!NoDump
        /\ UNCHANGED <<logPieces, logTail, logPos, logDrops, logSinks, logSince, logGot, logCur,
                       logCommands, logMade, logShown>>
    BY <1>7 DEF Logging!CommandUnheard, Logging!ToDump
  <2>2. logDump' \in [active : BOOLEAN, pos : Nat, end : Int] /\ logDump'.active = FALSE
    BY <1>2, <2>1, DumpIs
  <2>3. Logging!Values' /\ AllStand' /\ Logging!WriteBehind' /\ From' = From
    BY <1>1, <1>2, <2>1, <2>2, ValuesSame, StandSame, Idle
  <2>4. TextsHold'
    BY <1>1, <2>1, <2>3 DEF TextsHold
  <2>5. TurnsHold'
    BY <2>1, <2>2 DEF TurnsHold, Logging!InCommand
  <2> QED
    BY <2>3, <2>4, <2>5 DEF Parts
<1> QED
  BY <1>4, <1>5, <1>6, <1>7

\* A dump ends, by itself or by a key, and the prompt goes out if it has room.
LEMMA EndDumpStep ==
  ASSUME Parts, Logging!KeyStops \/ Logging!DumpEnds
  PROVE  Parts'
<1>1. Logging!Values /\ AllStand /\ TextsHold /\ TurnsHold
  BY DEF Parts
<1>2. logPieces \in Seq(Pieces) /\ logCommands \in Nat /\ logMade \in Nat /\ logShown \in Seq(Nat)
      /\ logCur \in 1..3 /\ logDump \in [active : BOOLEAN, pos : Nat, end : Int]
  BY <1>1, ValuesAre DEF Logging!Values
<1>3. /\ logDump.active /\ Logging!EndDump /\ logPc \in {"idle", "dump"} /\ logPc' \in {"idle", "drain"}
      /\ logCur' \in 1..3
      /\ UNCHANGED <<logPieces, logTail, logPos, logDrops, logSinks, logSince, logGot,
                     logQueued, logCmdDone, logCommands>>
  BY <1>2 DEF Logging!KeyStops, Logging!DumpEnds, Logging!ToDrain, Logging!DumpKeeps, Logging!outputs,
     Logging!run, Logging!line
<1>4. /\ logMade = 0 /\ logDump' = Logging!NoDump /\ logMade' = logMade + 1
      /\ logShown' \in {logShown, Append(logShown, logMade + 1)}
  BY <1>1, <1>3 DEF TurnsHold, Logging!EndDump
<1>5. logDump' \in [active : BOOLEAN, pos : Nat, end : Int] /\ logDump'.active = FALSE
  BY <1>2, <1>4, DumpIs
<1>6. logMade + 1 \in Nat /\ logShown' \in Seq(Nat)
  <2>1. logMade + 1 \in Nat
    BY <1>2
  <2>2. Append(logShown, logMade + 1) \in Seq(Nat)
    BY <1>2, <2>1
  <2> QED
    BY <1>2, <1>4, <2>1, <2>2
<1>7. Logging!Values' /\ AllStand' /\ Logging!WriteBehind'
  BY <1>1, <1>3, <1>4, <1>5, <1>6, ValuesSame, StandSame, Idle
<1>8. Stored(logPieces, logCommands, logMade) /\ Out(logMade, logShown)
  BY <1>1 DEF TextsHold
<1>9. NoText(logPieces, logCommands)
  <2>1. 1..0 = {}
    OBVIOUS
  <2> QED
    BY <1>4, <1>8, <2>1 DEF Stored, NoText
<1>10. TextsHold'
  <2>1. \A sh : Stored(logPieces, logCommands, logMade + 1) /\ Ahead(logPieces, logCommands, sh, From')
    BY <1>2, <1>8, <1>9, NothingWaits
  <2>2. Out(logMade + 1, logShown)
    BY <1>2, <1>8, MoreTexts
  <2>3. \A k \in 1..Len(logShown) : logShown[k] < logMade + 1
    BY <1>2, <1>8 DEF Out
  <2>4. logMade + 1 \in 1..(logMade + 1)
    BY <1>2
  <2>5. Out(logMade + 1, Append(logShown, logMade + 1))
    BY <1>2, <1>6, <2>2, <2>3, <2>4, OutAppended
  <2>6. Out(logMade + 1, logShown')
    BY <1>4, <2>2, <2>5
  <2> QED
    BY <1>3, <1>4, <2>1, <2>6 DEF TextsHold
<1>11. TurnsHold'
  <2>1. ~Logging!InCommand /\ ~Logging!InCommand'
    BY <1>3 DEF Logging!InCommand
  <2> QED
    BY <1>1, <1>3, <1>5, <1>9, <2>1 DEF TurnsHold
<1> QED
  BY <1>7, <1>10, <1>11 DEF Parts

\* The task copies the piece that an output stands on.
LEMMA CopyStep == ASSUME Parts, Logging!DrainCopies PROVE Parts'
<1> DEFINE s == Logging!Order[logCur]
<1>1. Logging!Values /\ AllStand /\ TextsHold /\ TurnsHold
  BY DEF Parts
<1>2. /\ logPc = "drain" /\ logPc' = "write" /\ logCur <= 2 /\ s \in logSinks
      /\ logPos[s] < Logging!Newest /\ logCopy' = logPos[s]
      /\ UNCHANGED <<logPieces, logTail, logPos, logDrops, logDump, logSinks, logSince, logGot, logCur,
                     logQueued, logCmdDone, logCommands, logMade, logShown>>
  BY DEF Logging!DrainCopies, Logging!Skipped, Logging!DrainKeeps, Logging!line
<1>3. logPieces \in Seq(Pieces) /\ logMade \in Nat /\ logShown \in Seq(Nat)
      /\ logCur \in 1..3 /\ logDump \in [active : BOOLEAN, pos : Nat, end : Int]
  BY <1>1, ValuesAre DEF Logging!Values
<1>4. Logging!Values' /\ AllStand'
  BY <1>1, <1>2, <1>3, ValuesSame, StandSame
<1>5. Logging!WriteBehind'
  <2>1. Stands(logPieces, s, logGot[s], logPos[s], logDrops[s], logSince[s])
    BY <1>1, <1>2 DEF AllStand
  <2>2. s \in {"uart", "file"} /\ Logging!Newest \in Nat
    BY <1>1, <1>2, ValuesAre
  <2> HIDE DEF s
  <2>3. logPos[s] \in Nat
    BY <1>1, <2>2, ValuesAre
  <2>4. logPos[s] \in 0..(Logging!Newest - 1) /\ logPos[s] <= logPos[s]
    BY <1>2, <2>2, <2>3
  <2>5. Logging!Newest' = Logging!Newest
    BY <1>2 DEF Logging!Newest
  <2>6. Logging!Order'[logCur'] = s
    BY <1>2 DEF s, Logging!Order
  <2>7. /\ logCur' <= 2 /\ s \in logSinks' /\ logCopy' \in 0..(Logging!Newest' - 1)
        /\ logSince'[s].pos <= logCopy' /\ logCopy' <= logPos'[s]
        /\ \A k \in 1..Len(logGot'[s]) : logGot'[s][k] < logCopy'
    BY <1>2, <2>1, <2>4, <2>5 DEF Stands
  <2> QED
    BY <2>6, <2>7 DEF Logging!WriteBehind
<1>6. From' = From
  <2>1. CASE logCur = 1
    <3>1. s = "uart"
      BY <2>1 DEF Logging!Order
    <3> QED
      BY <1>2, <2>1, <3>1 DEF From
  <2>2. CASE logCur # 1
    BY <1>2, <2>2 DEF From
  <2> QED
    BY <2>1, <2>2
<1>7. TextsHold'
  BY <1>1, <1>2, <1>6 DEF TextsHold
<1>8. TurnsHold'
  BY <1>1, <1>2 DEF TurnsHold, Logging!InCommand
<1> QED
  BY <1>4, <1>5, <1>7, <1>8 DEF Parts

\* An output takes the piece, goes past it, or refuses it.
LEMMA WriteFacts ==
  ASSUME Parts, logPc = "write"
  PROVE  LET s == Logging!Order[logCur] IN
         /\ logCur \in {1, 2} /\ s = (IF logCur = 1 THEN "uart" ELSE "file") /\ s \in logSinks
         /\ logCopy \in Nat /\ logCopy < Len(logPieces) /\ logSince[s].pos <= logCopy
         /\ logCopy <= logPos[s] /\ logPos[s] \in Nat /\ logDrops[s] \in Nat
         /\ logSince[s] \in Starts /\ logGot[s] \in Seq(Nat)
         /\ \A k \in 1..Len(logGot[s]) : logGot[s][k] < logCopy
         /\ Stands(logPieces, s, logGot[s], logPos[s], logDrops[s], logSince[s])
<1> DEFINE s == Logging!Order[logCur]
<1>1. Logging!Values /\ AllStand /\ Logging!WriteBehind
  BY DEF Parts
<1>2. /\ logCur <= 2 /\ s \in logSinks /\ logCopy \in 0..(Logging!Newest - 1)
      /\ logSince[s].pos <= logCopy /\ logCopy <= logPos[s]
      /\ \A k \in 1..Len(logGot[s]) : logGot[s][k] < logCopy
  BY <1>1 DEF Logging!WriteBehind
<1>3. logCur \in {1, 2}
  BY <1>1, <1>2, ValuesAre
<1>4. s = IF logCur = 1 THEN "uart" ELSE "file"
  BY <1>3 DEF Logging!Order
<1>5. logCopy \in Nat /\ logCopy < Len(logPieces)
  BY <1>1, <1>2, ValuesAre
<1> HIDE DEF s
<1>6. s \in {"uart", "file"}
  BY <1>4
<1>7. logPos[s] \in Nat /\ logDrops[s] \in Nat /\ logSince[s] \in Starts /\ logGot[s] \in Seq(Nat)
  BY <1>1, <1>6, ValuesAre
<1>8. Stands(logPieces, s, logGot[s], logPos[s], logDrops[s], logSince[s])
  BY <1>1, <1>2 DEF AllStand
<1> QED
  BY <1>2, <1>3, <1>4, <1>5, <1>7, <1>8 DEF s

\* Advance: the position of the output is behind the piece, wherever a print moved it.
LEMMA AdvanceIs ==
  ASSUME Parts, logPc = "write", NEW s, s = Logging!Order[logCur], Logging!Advance(s)
  PROVE  /\ logPos' \in [{"uart", "file"} -> 0..Len(logPieces)]
         /\ logPos'[s] = IF logPos[s] = logCopy THEN logCopy + 1 ELSE logPos[s]
         /\ logPos'[s] \in Nat /\ logCopy + 1 <= logPos'[s]
         /\ \A t \in {"uart", "file"} : t # s => logPos'[t] = logPos[t]
<1>1. /\ s \in {"uart", "file"} /\ logCopy \in Nat /\ logCopy < Len(logPieces)
      /\ logCopy <= logPos[s] /\ logPos[s] \in Nat
  BY WriteFacts
<1>2. Logging!Values /\ Len(logPieces) \in Nat
  BY ValuesAre DEF Parts
<1>3. logPos \in [{"uart", "file"} -> 0..Len(logPieces)]
  BY <1>2 DEF Logging!Values, Logging!Outputs, Logging!Newest
<1>4. CASE logPos[s] = logCopy
  <2>1. logPos' = [logPos EXCEPT ![s] = logCopy + 1]
    BY <1>4 DEF Logging!Advance
  <2>2. logCopy + 1 \in 0..Len(logPieces) /\ logCopy + 1 \in Nat /\ logCopy + 1 <= logCopy + 1
    BY <1>1, <1>2
  <2> QED
    BY <1>1, <1>3, <1>4, <2>1, <2>2
<1>5. CASE logPos[s] # logCopy
  <2>1. logPos' = logPos
    BY <1>5 DEF Logging!Advance
  <2>2. logCopy + 1 <= logPos[s]
    BY <1>1, <1>5
  <2> QED
    BY <1>1, <1>3, <1>5, <2>1, <2>2
<1> QED
  BY <1>4, <1>5

WriteKeeps ==
  UNCHANGED <<logPieces, logTail, logDrops, logDump, logSinks, logSince, logQueued, logCmdDone,
              logCommands, logMade>>

\* What the output did leaves it where it stands.
LEMMA OutputMoves ==
  ASSUME Parts, logPc = "write", logPc' = "drain", WriteKeeps, logCur' \in 1..3,
         logShown' \in Seq(Nat), NEW s, s = Logging!Order[logCur],
         \/ /\ Logging!Advance(s)
            /\ \/ logGot' = [logGot EXCEPT ![s] = Append(@, logCopy)]
               \/ UNCHANGED logGot /\ ~TakenBy(logPieces, s, logCopy)
         \/ UNCHANGED <<logPos, logGot>>
  PROVE  Logging!Values' /\ AllStand' /\ Logging!WriteBehind' /\ TurnsHold'
<1>1. Logging!Values /\ AllStand /\ TurnsHold
  BY DEF Parts
<1>2. /\ s \in {"uart", "file"} /\ s \in logSinks /\ logCopy \in Nat /\ logCopy < Len(logPieces)
      /\ logSince[s].pos <= logCopy /\ logCopy <= logPos[s] /\ logPos[s] \in Nat /\ logDrops[s] \in Nat
      /\ logSince[s] \in Starts /\ logGot[s] \in Seq(Nat)
      /\ \A k \in 1..Len(logGot[s]) : logGot[s][k] < logCopy
      /\ Stands(logPieces, s, logGot[s], logPos[s], logDrops[s], logSince[s])
  BY WriteFacts
<1>3. /\ logGot \in [{"uart", "file"} -> Seq(Nat)] /\ logPos \in [{"uart", "file"} -> 0..Len(logPieces)]
      /\ Len(logPieces) \in Nat /\ logSinks \subseteq {"uart", "file"}
  BY <1>1, ValuesAre DEF Logging!Values, Logging!Outputs, Logging!Newest
<1>4. Append(logGot[s], logCopy) \in Seq(Nat)
  BY <1>2
<1>5. logGot' \in [{"uart", "file"} -> Seq(Nat)]
  <2>1. CASE logGot' = [logGot EXCEPT ![s] = Append(@, logCopy)]
    BY <1>2, <1>3, <1>4, <2>1
  <2>2. CASE UNCHANGED logGot
    BY <1>3, <2>2
  <2> QED
    BY <2>1, <2>2
<1>6. logPos' \in [{"uart", "file"} -> 0..Len(logPieces)]
  BY <1>3, AdvanceIs
<1>7. Logging!Values'
  BY <1>1, <1>5, <1>6 DEF WriteKeeps, Logging!Values, Logging!Outputs, Logging!Newest
<1>8. ASSUME NEW t \in {"uart", "file"}, t # s
      PROVE  logPos'[t] = logPos[t] /\ logGot'[t] = logGot[t]
  <2>1. logGot'[t] = logGot[t]
    BY <1>2, <1>3, <1>8
  <2>2. logPos'[t] = logPos[t]
    BY <1>8, AdvanceIs
  <2> QED
    BY <2>1, <2>2
<1>9. Stands(logPieces, s, logGot'[s], logPos'[s], logDrops[s], logSince[s])
  <2>1. CASE UNCHANGED <<logPos, logGot>>
    BY <1>2, <2>1
  <2>2. CASE Logging!Advance(s) /\ logGot' = [logGot EXCEPT ![s] = Append(@, logCopy)]
    <3>1. logGot'[s] = Append(logGot[s], logCopy)
      BY <1>2, <1>3, <2>2
    <3>2. logPos'[s] = IF logPos[s] = logCopy THEN logCopy + 1 ELSE logPos[s]
      BY <2>2, AdvanceIs
    <3>3. Stands(logPieces, s, Append(logGot[s], logCopy),
                 IF logPos[s] = logCopy THEN logCopy + 1 ELSE logPos[s], logDrops[s], logSince[s])
      BY <1>2, <1>3, StandsTook
    <3> QED
      BY <3>1, <3>2, <3>3
  <2>3. CASE Logging!Advance(s) /\ UNCHANGED logGot /\ ~TakenBy(logPieces, s, logCopy)
    <3>1. logPos'[s] = IF logPos[s] = logCopy THEN logCopy + 1 ELSE logPos[s]
      BY <2>3, AdvanceIs
    <3>2. CASE logPos[s] = logCopy
      <4>1. Stands(logPieces, s, logGot[s], logPos[s] + 1, logDrops[s], logSince[s])
        BY <1>2, <1>3, <2>3, <3>2, StandsSkipped
      <4> QED
        BY <2>3, <3>1, <3>2, <4>1
    <3>3. CASE logPos[s] # logCopy
      BY <1>2, <2>3, <3>1, <3>3
    <3> QED
      BY <3>2, <3>3
  <2> QED
    BY <2>1, <2>2, <2>3
<1>10. AllStand'
  <2>1. SUFFICES ASSUME NEW t \in logSinks
                 PROVE  Stands(logPieces, t, logGot'[t], logPos'[t], logDrops[t], logSince[t])
    BY DEF AllStand, WriteKeeps
  <2>2. CASE t = s
    BY <1>9, <2>2
  <2>3. CASE t # s
    <3>1. t \in {"uart", "file"}
      BY <1>3, <2>1
    <3>2. Stands(logPieces, t, logGot[t], logPos[t], logDrops[t], logSince[t])
      BY <1>1, <2>1 DEF AllStand
    <3> QED
      BY <1>8, <2>3, <3>1, <3>2
  <2> QED
    BY <2>2, <2>3
<1>11. Logging!WriteBehind'
  BY DEF Logging!WriteBehind
<1>12. TurnsHold'
  BY <1>1 DEF WriteKeeps, TurnsHold, Logging!InCommand
<1> QED
  BY <1>7, <1>10, <1>11, <1>12

LEMMA UartStep == ASSUME Parts, Logging!UartWrites PROVE Parts'
<1> DEFINE piece == logPieces[logCopy + 1]
<1>1. Logging!Values /\ TextsHold
  BY DEF Parts
<1>2. logPc = "write" /\ Logging!Order[logCur] = "uart" /\ WriteKeeps
  BY DEF Logging!UartWrites, Logging!DrainKeeps, WriteKeeps, Logging!line
<1>3. /\ logCur = 1 /\ "uart" \in logSinks /\ logCopy \in Nat /\ logCopy < Len(logPieces)
      /\ logCopy <= logPos["uart"] /\ logPos["uart"] \in Nat
  BY <1>2, WriteFacts
<1>4. logPieces \in Seq(Pieces) /\ Len(logPieces) \in Nat /\ logCommands \in Nat /\ logMade \in Nat
      /\ logShown \in Seq(Nat)
  BY <1>1, ValuesAre
<1>5. From = logCopy /\ logCopy \in Places(logPieces)
  BY <1>2, <1>3, <1>4 DEF From, Places
<1>6. /\ Stored(logPieces, logCommands, logMade) /\ Out(logMade, logShown)
      /\ Ahead(logPieces, logCommands, logShown, logCopy)
  BY <1>1, <1>3, <1>5 DEF TextsHold
<1>7. CASE Logging!Room >= piece.length
  <2>1. /\ Logging!Took("uart")
        /\ logShown' = IF piece.kind = "console" /\ piece.of = logCommands
                         THEN Append(logShown, piece.no) ELSE logShown
    BY <1>7, Zenon DEF Logging!UartWrites
  <2>2. /\ logGot' = [logGot EXCEPT !["uart"] = Append(@, logCopy)] /\ Logging!Advance("uart")
        /\ logPc' = "drain" /\ logCur' \in 1..3
    BY <1>1, <2>1, ValuesAre DEF Logging!Took
  <2>3. logPos'["uart"] \in Nat /\ logCopy + 1 <= logPos'["uart"] /\ From' = logPos'["uart"]
    BY <1>2, <2>2, AdvanceIs DEF From
  <2>4. logShown' \in Seq(Nat) /\ Out(logMade, logShown')
        /\ Ahead(logPieces, logCommands, logShown', logCopy + 1)
    <3>1. CASE Of(logPieces, logCommands, logCopy)
      <4>1. logShown' = Append(logShown, piece.no)
        BY <2>1, <3>1 DEF Of
      <4>2. piece \in Pieces
        BY <1>4, <1>5, <1>3
      <4>3. piece.no \in Nat
        <5> HIDE DEF piece
        <5> QED
          BY <4>2, PieceHas
      <4>4. Out(logMade, Append(logShown, piece.no))
            /\ Ahead(logPieces, logCommands, Append(logShown, piece.no), logCopy + 1)
        BY <1>4, <1>5, <1>6, <3>1, TextWritten
      <4> HIDE DEF piece
      <4>5. Append(logShown, piece.no) \in Seq(Nat)
        BY <1>4, <4>3
      <4> QED
        BY <4>1, <4>4, <4>5
    <3>2. CASE ~Of(logPieces, logCommands, logCopy)
      <4>1. logShown' = logShown
        BY <2>1, <3>2 DEF Of
      <4>2. logCopy + 1 \in Int /\ logCopy <= logCopy + 1 /\ logCopy \in Int
        BY <1>3
      <4>3. Ahead(logPieces, logCommands, logShown, logCopy + 1)
        BY <1>4, <1>6, <4>2, AheadLater
      <4> QED
        BY <1>4, <1>6, <4>1, <4>3
    <3> QED
      BY <3>1, <3>2
  <2>5. Logging!Values' /\ AllStand' /\ Logging!WriteBehind' /\ TurnsHold'
    BY <1>2, <2>2, <2>4, OutputMoves
  <2>6. Ahead(logPieces, logCommands, logShown', From')
    <3>1. logCopy + 1 \in Int /\ From' \in Int /\ logCopy + 1 <= From'
      BY <1>3, <2>3
    <3> HIDE DEF From
    <3> QED
      BY <1>4, <2>4, <3>1, AheadLater
  <2>7. TextsHold'
    BY <1>2, <1>6, <2>4, <2>6 DEF TextsHold, WriteKeeps
  <2> QED
    BY <2>5, <2>7 DEF Parts
<1>8. CASE ~(Logging!Room >= piece.length)
  <2>1. Logging!Refused /\ UNCHANGED logShown
    BY <1>8, Zenon DEF Logging!UartWrites
  <2>2. UNCHANGED <<logPos, logGot>> /\ logPc' = "drain" /\ logCur' = 2
    BY <1>3, <2>1 DEF Logging!Refused, Logging!NextOutput
  <2>3. Logging!Values' /\ AllStand' /\ Logging!WriteBehind' /\ TurnsHold'
    BY <1>2, <1>4, <2>1, <2>2, OutputMoves
  <2>4. From' = logPos["uart"]
    BY <2>2 DEF From
  <2>5. Ahead(logPieces, logCommands, logShown, logPos["uart"])
    BY <1>3, <1>4, <1>6, AheadLater
  <2>6. TextsHold'
    BY <1>2, <1>6, <2>1, <2>4, <2>5 DEF TextsHold, WriteKeeps
  <2> QED
    BY <2>3, <2>6 DEF Parts
<1> QED
  BY <1>7, <1>8

LEMMA FileStep == ASSUME Parts, Logging!FileWrites PROVE Parts'
<1>1. Logging!Values /\ TextsHold
  BY DEF Parts
<1>2. /\ logPc = "write" /\ Logging!Order[logCur] = "file" /\ WriteKeeps /\ UNCHANGED logShown
  BY DEF Logging!FileWrites, Logging!DrainKeeps, WriteKeeps, Logging!line
<1>3. logCur = 2 /\ logCopy < Len(logPieces)
  BY <1>2, WriteFacts
<1>4. logPc' = "drain" /\ logCur' \in 1..3
  <2>1. logPc' = "drain" /\ logCur' \in {logCur, logCur + 1}
    BY DEF Logging!FileWrites, Logging!Took, Logging!Refused, Logging!NextOutput
  <2> QED
    BY <1>3, <2>1
<1>5. Logging!Takes("file", logCopy) <=> TakenBy(logPieces, "file", logCopy)
  BY DEF Logging!Takes, TakenBy
<1>6. \/ /\ Logging!Advance("file")
         /\ \/ logGot' = [logGot EXCEPT !["file"] = Append(@, logCopy)]
            \/ UNCHANGED logGot /\ ~TakenBy(logPieces, "file", logCopy)
      \/ UNCHANGED <<logPos, logGot>>
  BY <1>5 DEF Logging!FileWrites, Logging!Took, Logging!Refused
<1>7. logShown' \in Seq(Nat)
  BY <1>1, <1>2, ValuesAre
<1>8. Logging!Values' /\ AllStand' /\ Logging!WriteBehind' /\ TurnsHold'
  BY <1>2, <1>4, <1>6, <1>7, OutputMoves
<1>9. From = logPos["uart"] /\ From' = logPos'["uart"]
  BY <1>3, <1>4 DEF From
<1>10. logPos'["uart"] = logPos["uart"]
  BY <1>2, <1>6, AdvanceIs
<1>11. TextsHold'
  BY <1>1, <1>2, <1>9, <1>10 DEF TextsHold, WriteKeeps
<1> QED
  BY <1>8, <1>11 DEF Parts

-----------------------------------------------------------------------------
\* An output is taken away.
LEMMA RemoveStep == ASSUME Parts, NEW s \in {"uart", "file"}, Logging!RemoveSink(s) PROVE Parts'
<1>1. Logging!Values /\ AllStand /\ TextsHold /\ TurnsHold
  BY DEF Parts
<1>2. /\ logPc = "idle" /\ logPc' = "idle" /\ logSinks' = logSinks \ {s}
      /\ UNCHANGED <<logPieces, logTail, logPos, logDrops, logDump, logSince, logGot, logCur,
                     logCmdDone, logCommands, logMade, logShown>>
      /\ logQueued' \in {FALSE, logQueued}
  BY DEF Logging!RemoveSink, Logging!buffer, Logging!run, Logging!line
<1>3. Logging!Values'
  BY <1>1, <1>2 DEF Logging!Values, Logging!Newest
<1>4. AllStand'
  BY <1>1, <1>2 DEF AllStand
<1>5. Logging!WriteBehind' /\ From' = From
  BY <1>2, Idle
<1>6. TextsHold'
  BY <1>1, <1>2, <1>5 DEF TextsHold
<1>7. TurnsHold'
  <2>1. ~Logging!InCommand /\ ~Logging!InCommand'
    BY <1>2 DEF Logging!InCommand
  <2>2. ~logQueued'
    BY <1>1, <1>2, <2>1 DEF TurnsHold
  <2> QED
    BY <1>1, <1>2, <2>1, <2>2 DEF TurnsHold
<1> QED
  BY <1>3, <1>4, <1>5, <1>6, <1>7 DEF Parts

\* An output is added, at the oldest piece.
LEMMA AddStep == ASSUME Parts, NEW s \in {"uart", "file"}, Logging!AddSink(s) PROVE Parts'
<1> DEFINE O == {"uart", "file"}
<1>1. Logging!Values /\ AllStand /\ TextsHold /\ TurnsHold
  BY DEF Parts
<1>2. /\ logPc = "idle" /\ logPc' = "idle" /\ s \notin logSinks /\ logSinks' = logSinks \cup {s}
      /\ logPos' = [logPos EXCEPT ![s] = logTail] /\ logGot' = [logGot EXCEPT ![s] = <<>>]
      /\ logDrops' = IF s = "file" THEN [logDrops EXCEPT ![s] = 0] ELSE logDrops
      /\ logSince' = [logSince EXCEPT ![s] = [pos |-> logTail, drops |-> logDrops'[s]]]
      /\ IF s = "uart" THEN logShown' = <<>> ELSE UNCHANGED logShown
      /\ UNCHANGED <<logPieces, logTail, logDump, logCur, logQueued, logCmdDone, logCommands, logMade>>
  BY DEF Logging!AddSink, Logging!run, Logging!line
<1>3. /\ logPieces \in Seq(Pieces) /\ Len(logPieces) \in Nat /\ logTail \in 0..Len(logPieces)
      /\ logSinks \subseteq O /\ logCommands \in Nat /\ logMade \in Nat /\ logShown \in Seq(Nat)
      /\ logPos \in [O -> 0..Len(logPieces)] /\ logDrops \in [O -> Nat] /\ logGot \in [O -> Seq(Nat)]
      /\ logSince \in [O -> [pos : Nat, drops : Nat]]
  BY <1>1, ValuesAre DEF Logging!Values, Logging!Outputs, Logging!Newest
<1>4. logTail \in Nat /\ logTail <= Len(logPieces)
  BY <1>3
<1>5. logDrops' \in [O -> Nat] /\ logDrops'[s] \in Nat /\ \A t \in O : t # s => logDrops'[t] = logDrops[t]
  <2>1. 0 \in Nat
    OBVIOUS
  <2>2. CASE s = "file"
    BY <1>2, <1>3, <2>1, <2>2
  <2>3. CASE s # "file"
    BY <1>2, <1>3, <2>3
  <2> QED
    BY <2>2, <2>3
<1>6. logPos' \in [O -> 0..Len(logPieces)] /\ logPos'[s] = logTail
      /\ \A t \in O : t # s => logPos'[t] = logPos[t]
  BY <1>2, <1>3
<1>7. logGot' \in [O -> Seq(Nat)] /\ logGot'[s] = <<>> /\ \A t \in O : t # s => logGot'[t] = logGot[t]
  <2>1. <<>> \in Seq(Nat)
    OBVIOUS
  <2> QED
    BY <1>2, <1>3, <2>1
<1>8. logSince' \in [O -> [pos : Nat, drops : Nat]]
      /\ logSince'[s] = [pos |-> logTail, drops |-> logDrops'[s]]
      /\ \A t \in O : t # s => logSince'[t] = logSince[t]
  <2> DEFINE d == logDrops'[s]
  <2>1. [pos |-> logTail, drops |-> d] \in [pos : Nat, drops : Nat]
    BY <1>4, <1>5
  <2>2. logSince' = [logSince EXCEPT ![s] = [pos |-> logTail, drops |-> d]]
    BY <1>2
  <2> HIDE DEF d
  <2>3. logSince' \in [O -> [pos : Nat, drops : Nat]]
        /\ logSince'[s] = [pos |-> logTail, drops |-> d]
        /\ \A t \in O : t # s => logSince'[t] = logSince[t]
    BY <1>3, <2>1, <2>2
  <2> QED
    BY <2>3 DEF d
<1>9. logShown' \in Seq(Nat) /\ Out(logMade, logShown') /\ (s = "uart" => logShown' = <<>>)
      /\ (s # "uart" => logShown' = logShown)
  <2>1. <<>> \in Seq(Nat) /\ Out(logMade, <<>>) /\ Out(logMade, logShown)
    BY <1>1, OutNothing DEF TextsHold
  <2> QED
    BY <1>2, <1>3, <2>1
<1>10. Logging!Values'
  BY <1>1, <1>2, <1>5, <1>6, <1>7, <1>8, <1>9 DEF Logging!Values, Logging!Outputs, Logging!Newest
<1>11. AllStand'
  <2>1. SUFFICES ASSUME NEW t \in logSinks'
                 PROVE  Stands(logPieces, t, logGot'[t], logPos'[t], logDrops'[t], logSince'[t])
    BY <1>2 DEF AllStand
  <2>2. CASE t = s
    <3>1. Stands(logPieces, s, <<>>, logTail, logDrops'[s], [pos |-> logTail, drops |-> logDrops'[s]])
      <4> DEFINE d == logDrops'[s]
      <4>1. d \in Nat
        BY <1>5
      <4> HIDE DEF d
      <4>2. Stands(logPieces, s, <<>>, logTail, d, [pos |-> logTail, drops |-> d])
        BY <1>3, <1>4, <4>1, StandsNew
      <4> QED
        BY <4>2 DEF d
    <3> QED
      BY <1>6, <1>7, <1>8, <2>2, <3>1
  <2>3. CASE t # s
    <3>1. t \in logSinks /\ t \in O
      BY <1>2, <1>3, <2>1, <2>3
    <3>2. Stands(logPieces, t, logGot[t], logPos[t], logDrops[t], logSince[t])
      BY <1>1, <3>1 DEF AllStand
    <3> QED
      BY <1>5, <1>6, <1>7, <1>8, <2>3, <3>1, <3>2
  <2> QED
    BY <2>2, <2>3
<1>12. Logging!WriteBehind' /\ From = logPos["uart"] /\ From' = logPos'["uart"]
  BY <1>2 DEF From, Logging!WriteBehind
<1>13. TextsHold'
  <2>1. Stored(logPieces, logCommands, logMade)
    BY <1>1 DEF TextsHold
  <2>2. ASSUME "uart" \in logSinks' PROVE Ahead(logPieces, logCommands, logShown', From')
    <3>1. CASE s = "uart"
      BY <1>9, <3>1, AheadNothing
    <3>2. CASE s # "uart"
      <4>1. "uart" \in logSinks /\ From' = From /\ logShown' = logShown
        BY <1>2, <1>6, <1>9, <1>12, <2>2, <3>2
      <4> QED
        BY <1>1, <4>1 DEF TextsHold
    <3> QED
      BY <3>1, <3>2
  <2> QED
    BY <1>2, <1>9, <2>1, <2>2 DEF TextsHold
<1>14. TurnsHold'
  BY <1>1, <1>2 DEF TurnsHold, Logging!InCommand
<1> QED
  BY <1>10, <1>11, <1>12, <1>13, <1>14 DEF Parts

-----------------------------------------------------------------------------
\* Every step keeps the invariant.
LEMMA LogStep == ASSUME Parts, [Logging!Next]_Logging!vars PROVE Parts'
<1>1. CASE UNCHANGED Logging!vars
  BY <1>1 DEF Logging!vars, Parts, Logging!Values, AllStand, Logging!WriteBehind, TextsHold,
     TurnsHold, From, Logging!InCommand, Logging!Newest
<1>2. CASE Logging!Next
  <2>1. CASE Logging!PrintLine
    BY <2>1, PrintStep
  <2>2. CASE Logging!Typed \/ Logging!Begin \/ Logging!ShowsLog \/ Logging!CommandUnheard
    BY <2>2, LineStep
  <2>3. CASE Logging!CommandPrints \/ Logging!CommandFails \/ Logging!CommandEnds
    BY <2>3, CommandStep
  <2>4. CASE Logging!KeyStops \/ Logging!DumpEnds
    BY <2>4, EndDumpStep
  <2>5. CASE \/ Logging!DumpSkips \/ Logging!DumpPauses \/ Logging!DumpCopies \/ Logging!DumpPuts
             \/ Logging!DrainSkips \/ Logging!DrainPauses \/ Logging!Finish \/ Logging!RetryDue
             \/ Logging!Send
    BY <2>5, QuietSteps
  <2>6. CASE Logging!DrainCopies
    BY <2>6, CopyStep
  <2>7. CASE Logging!UartWrites
    BY <2>7, UartStep
  <2>8. CASE Logging!FileWrites
    BY <2>8, FileStep
  <2>9. CASE \E s \in Logging!Outputs : Logging!RemoveSink(s) \/ Logging!AddSink(s)
    <3>1. PICK s \in {"uart", "file"} : Logging!RemoveSink(s) \/ Logging!AddSink(s)
      BY <2>9 DEF Logging!Outputs
    <3> QED
      BY <3>1, RemoveStep, AddStep
  <2> QED
    BY <1>2, <2>1, <2>2, <2>3, <2>4, <2>5, <2>6, <2>7, <2>8, <2>9 DEF Logging!Next, Logging!Task
<1> QED
  BY <1>1, <1>2

\* Whatever is printed while the task hands pieces over, each output gets them in order and once, or
\* counts the loss, and a command's texts come out in order (pif_log.c:228): LogKept.
THEOREM LogHolds == Logging!Spec => []LogKept
<1>1. Logging!Init => Parts
  BY LogInit
<1>2. Parts /\ [Logging!Next]_Logging!vars => Parts'
  BY LogStep
<1>3. Parts => LogKept
  BY InvFrom DEF Logging!Inv, LogKept
<1> QED
  BY <1>1, <1>2, <1>3, PTL DEF Logging!Spec
=============================================================================
