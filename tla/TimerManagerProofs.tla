------------------------- MODULE TimerManagerProofs -------------------------
(* The walk of the timer task stays in the list, no expiry is left behind, and the tick handler   *)
(* finds the storage; a timer that runs has left what it should, and one that was removed rests:  *)
(* proved for every number of timers and every tick count.  Behind it, the lists of the           *)
(* scheduler, of which one is a list of timers: a pass over them never goes astray.               *)
EXTENDS TimerManager, Lists, SequenceTheorems, TLAPS

Distinct(s) == \A i, j \in DOMAIN s : s[i] = s[j] => i = j

PoolTypes == list \in Seq(Timer) /\ free \in Seq(Timer)

\* A slot is in use or free, not both, and in its list once.
SlotsOnce ==
  /\ Distinct(list) /\ Distinct(free)
  /\ \A i \in DOMAIN list, j \in DOMAIN free : list[i] # free[j]

\* While the manager is initialised every slot is somewhere; else nothing is in use.
PoolWhole ==
  IF ready THEN ToSet(list) \cup ToSet(free) = Timer /\ Len(list) + Len(free) = MaxCount
  ELSE list = <<>> /\ wpc = "idle" /\ slot = 0

WalkTypes == wpc \in {"idle", "step", "event", "call"} /\ event \in [Timer -> BOOLEAN]

Inv == PoolTypes /\ SlotsOnce /\ PoolWhole /\ WalkTypes /\ WalkInList /\ EventsAwaited

-----------------------------------------------------------------------------
(* The lists.                                                                *)

LEMMA PrependIs ==
  ASSUME NEW S, NEW s \in Seq(S), NEW x \in S
  PROVE  LET r == <<x>> \o s
         IN  /\ r \in Seq(S) /\ Len(r) = Len(s) + 1
             /\ r[1] = x /\ \A i \in DOMAIN s : r[i + 1] = s[i]
             /\ ToSet(r) = {x} \cup ToSet(s)
<1> DEFINE r == <<x>> \o s
<1>1. /\ r \in Seq(S) /\ Len(r) = Len(s) + 1
      /\ r[1] = x /\ \A i \in DOMAIN s : r[i + 1] = s[i]
  OBVIOUS
<1> HIDE DEF r
<1>2. \A i \in DOMAIN r : i = 1 \/ (i - 1 \in DOMAIN s /\ r[i] = s[i - 1])
  BY <1>1
<1>3. \A i \in DOMAIN s : i + 1 \in DOMAIN r
  BY <1>1
<1>4. 1 \in DOMAIN r
  BY <1>1
<1>5. ToSet(r) = {x} \cup ToSet(s)
  BY <1>1, <1>2, <1>3, <1>4 DEF ToSet
<1> QED
  BY <1>1, <1>5 DEF r

LEMMA TailIs ==
  ASSUME NEW S, NEW s \in Seq(S), s # <<>>
  PROVE  LET r == Tail(s)
         IN  /\ r \in Seq(S) /\ Len(r) = Len(s) - 1
             /\ \A i \in DOMAIN r : i + 1 \in DOMAIN s /\ r[i] = s[i + 1]
             /\ ToSet(s) = {Head(s)} \cup ToSet(r)
<1> DEFINE r == Tail(s)
<1>1. /\ r \in Seq(S) /\ Len(r) = Len(s) - 1
      /\ \A i \in DOMAIN r : i + 1 \in DOMAIN s /\ r[i] = s[i + 1]
  OBVIOUS
<1>2. Head(s) = s[1] /\ 1 \in DOMAIN s
  OBVIOUS
<1> HIDE DEF r
<1>3. \A i \in DOMAIN s : i = 1 \/ (i - 1 \in DOMAIN r /\ r[i - 1] = s[i])
  BY <1>1
<1>4. \A x \in ToSet(s) : x = Head(s) \/ x \in ToSet(r)
  BY <1>2, <1>3 DEF ToSet
<1>5. \A x \in ToSet(r) : x \in ToSet(s)
  <2> SUFFICES ASSUME NEW x \in ToSet(r) PROVE x \in ToSet(s)
    OBVIOUS
  <2>1. PICK i \in DOMAIN r : x = r[i]
    BY DEF ToSet
  <2>2. i + 1 \in DOMAIN s /\ s[i + 1] = x
    BY <1>1, <2>1
  <2> QED
    BY <2>2, Zenon DEF ToSet
<1>6. Head(s) \in ToSet(s)
  BY <1>2, Zenon DEF ToSet
<1>7. ToSet(s) = {Head(s)} \cup ToSet(r)
  BY <1>4, <1>5, <1>6
<1> QED
  BY <1>1, <1>7 DEF r

LEMMA RemoveAtIs ==
  ASSUME NEW S, NEW s \in Seq(S), NEW p \in DOMAIN s
  PROVE  LET r == RemoveAt(s, p)
         IN  /\ r \in Seq(S) /\ Len(r) = Len(s) - 1
             /\ \A i \in DOMAIN r : r[i] = IF i < p THEN s[i] ELSE s[i + 1]
<1> DEFINE r == RemoveAt(s, p)
<1>1. p \in 1..Len(s)
  OBVIOUS
<1> DEFINE a == SubSeq(s, 1, p - 1)
           b == SubSeq(s, p + 1, Len(s))
<1>2. a \in Seq(S) /\ Len(a) = p - 1 /\ \A i \in 1..(p - 1) : a[i] = s[i]
  BY <1>1
<1>3. b \in Seq(S) /\ Len(b) = Len(s) - p /\ \A i \in 1..(Len(s) - p) : b[i] = s[p + i]
  BY <1>1
<1>4. r = a \o b
  BY DEF RemoveAt
<1> HIDE DEF a, b, r
<1>5. r \in Seq(S) /\ Len(r) = Len(s) - 1
  BY <1>1, <1>2, <1>3, <1>4
<1>6. \A i \in 1..(Len(s) - 1) : r[i] = IF i < p THEN a[i] ELSE b[i - (p - 1)]
  <2>1. \A i \in 1..(Len(a) + Len(b)) : r[i] = IF i <= Len(a) THEN a[i] ELSE b[i - Len(a)]
    BY <1>2, <1>3, <1>4, ConcatProperties
  <2>2. Len(a) + Len(b) = Len(s) - 1 /\ p - 1 = Len(a)
    BY <1>1, <1>2, <1>3
  <2>3. \A i \in 1..(Len(s) - 1) : i < p <=> i <= Len(a)
    BY <1>1, <2>2
  <2> QED
    BY <2>1, <2>2, <2>3
<1>7. \A i \in 1..(Len(s) - 1) : r[i] = IF i < p THEN s[i] ELSE s[i + 1]
  <2> SUFFICES ASSUME NEW i \in 1..(Len(s) - 1)
               PROVE  r[i] = IF i < p THEN s[i] ELSE s[i + 1]
    OBVIOUS
  <2>1. CASE i < p
    BY <1>1, <1>2, <1>6, <2>1
  <2>2. CASE ~(i < p)
    <3>1. i - (p - 1) \in 1..(Len(s) - p) /\ p + (i - (p - 1)) = i + 1
      BY <1>1, <2>2
    <3>2. b[i - (p - 1)] = s[i + 1]
      BY <1>3, <3>1
    <3> QED
      BY <1>6, <2>2, <3>2
  <2> QED
    BY <2>1, <2>2
<1> QED
  BY <1>5, <1>7 DEF r

-----------------------------------------------------------------------------
(* The steps.                                                                *)

\* The walk's place in the list.
LEMMA PlaceIs ==
  ASSUME PoolTypes, SlotsOnce, NEW t \in ToSet(list)
  PROVE  /\ Place(t) \in DOMAIN list /\ list[Place(t)] = t
         /\ \A i \in DOMAIN list : list[i] = t => i = Place(t)
<1>1. \E i \in DOMAIN list : list[i] = t
  BY DEF ToSet
<1>2. Place(t) \in DOMAIN list /\ list[Place(t)] = t
  BY <1>1 DEF Place
<1> QED
  BY <1>2 DEF SlotsOnce, Distinct

LEMMA InvInit == Init => Inv
<1> SUFFICES ASSUME Init PROVE Inv
  OBVIOUS
<1>1. list = <<>> /\ free \in Seq(Timer) /\ Len(free) = MaxCount /\ \A i \in Timer : free[i] = i
  BY MaxAssumption DEF Init, Timer
<1>2. DOMAIN free = Timer /\ DOMAIN list = {}
  BY <1>1, MaxAssumption DEF Init, Timer
<1>3. ToSet(list) = {} /\ ToSet(free) = Timer
  BY <1>1, <1>2 DEF ToSet
<1>4. PoolTypes /\ SlotsOnce
  BY <1>1, <1>2 DEF PoolTypes, SlotsOnce, Distinct
<1>5. PoolWhole
  <2>1. ready /\ Len(list) = 0
    BY <1>1 DEF Init
  <2>2. ToSet(list) \cup ToSet(free) = Timer /\ Len(list) + Len(free) = MaxCount
    BY <1>1, <1>3, <2>1, MaxAssumption
  <2> QED
    BY <2>1, <2>2 DEF PoolWhole
<1>6. WalkTypes /\ WalkInList /\ EventsAwaited
  BY <1>3 DEF Init, WalkTypes, WalkInList, EventsAwaited
<1> QED
  BY <1>4, <1>5, <1>6 DEF Inv

\* What the walk has still to visit, place by place.
LEMMA AheadIs ==
  ASSUME NEW t
  PROVE  t \in Ahead <=>
           \/ wpc = "event" /\ t = at
           \/ /\ wpc # "idle" /\ (IF wpc = "step" THEN at ELSE next) # NoTimer
              /\ \E i \in DOMAIN list : /\ list[i] = t
                   /\ \E k \in 1..i : list[k] = IF wpc = "step" THEN at ELSE next
BY DEF Ahead

\* A timer is taken from the free list.
LEMMA AddKeeps == ASSUME Inv, Add PROVE Inv'
<1> DEFINE t == Head(free)
<1>0. /\ list \in Seq(Timer) /\ free \in Seq(Timer) /\ free # <<>> /\ t \in Timer
      /\ list' = <<t>> \o list /\ free' = Tail(free)
  BY DEF Inv, PoolTypes, Add
<1> HIDE DEF t
<1>1. /\ list' \in Seq(Timer) /\ Len(list') = Len(list) + 1
      /\ list'[1] = t /\ \A i \in DOMAIN list : list'[i + 1] = list[i]
      /\ ToSet(list') = {t} \cup ToSet(list)
  <2>1. LET r == <<t>> \o list
        IN  /\ r \in Seq(Timer) /\ Len(r) = Len(list) + 1
            /\ r[1] = t /\ \A i \in DOMAIN list : r[i + 1] = list[i]
            /\ ToSet(r) = {t} \cup ToSet(list)
    BY <1>0, PrependIs
  <2> QED
    BY <1>0, <2>1
<1>2. /\ free' \in Seq(Timer) /\ Len(free') = Len(free) - 1
      /\ \A i \in DOMAIN free' : i + 1 \in DOMAIN free /\ free'[i] = free[i + 1]
      /\ ToSet(free) = {t} \cup ToSet(free')
  <2>1. LET r == Tail(free)
        IN  /\ r \in Seq(Timer) /\ Len(r) = Len(free) - 1
            /\ \A i \in DOMAIN r : i + 1 \in DOMAIN free /\ r[i] = free[i + 1]
            /\ ToSet(free) = {Head(free)} \cup ToSet(r)
    BY <1>0, TailIs
  <2> QED
    BY <1>0, <2>1 DEF t
<1>3. t = free[1] /\ 1 \in DOMAIN free
  BY <1>0 DEF t
<1>4. \A i \in DOMAIN list' : i = 1 \/ (i - 1 \in DOMAIN list /\ list'[i] = list[i - 1])
  BY <1>0, <1>1
<1>5. SlotsOnce'
  <2>1. Distinct(list)'
    BY <1>1, <1>3, <1>4 DEF Inv, SlotsOnce, Distinct
  <2>2. Distinct(free)'
    BY <1>2 DEF Inv, SlotsOnce, Distinct
  <2>3. \A i \in DOMAIN list', j \in DOMAIN free' : list'[i] # free'[j]
    BY <1>1, <1>2, <1>3, <1>4 DEF Inv, SlotsOnce, Distinct
  <2> QED
    BY <2>1, <2>2, <2>3 DEF SlotsOnce
<1>6. PoolWhole'
  <2>1. /\ ready /\ ready'
        /\ ToSet(list) \cup ToSet(free) = Timer /\ Len(list) + Len(free) = MaxCount
    BY DEF Inv, PoolWhole, Add, AppRuns
  <2>2. ToSet(list') \cup ToSet(free') = Timer
    BY <1>1, <1>2, <2>1
  <2>3. Len(list') + Len(free') = MaxCount
    BY <1>0, <1>1, <1>2, <2>1, MaxAssumption
  <2> QED
    BY <2>1, <2>2, <2>3 DEF PoolWhole
<1>7. WalkTypes' /\ WalkInList'
  BY <1>1 DEF Inv, WalkTypes, WalkInList, Add, walk
<1>8. EventsAwaited'
  <2> SUFFICES ASSUME NEW u \in ToSet(list'), event'[u] PROVE pending' \/ u \in Ahead'
    BY DEF EventsAwaited
  <2>1. u # t /\ u \in ToSet(list) /\ event[u]
    BY <1>1 DEF Inv, WalkTypes, Add
  <2>2. pending \/ u \in Ahead
    BY <2>1 DEF Inv, EventsAwaited
  <2>3. CASE u \in Ahead
    <3>1. wpc = "call" /\ wpc' = "call" /\ next' = next /\ next # NoTimer
      BY <2>3, AheadIs DEF Add, AppRuns, walk
    <3>2. PICK i \in DOMAIN list : list[i] = u /\ \E k \in 1..i : list[k] = next
      BY <2>3, <3>1, AheadIs
    <3>3. PICK k \in 1..i : list[k] = next
      BY <3>2
    <3>4. /\ i + 1 \in DOMAIN list' /\ list'[i + 1] = u
          /\ k + 1 \in 1..(i + 1) /\ list'[k + 1] = next
      BY <1>0, <1>1, <3>2, <3>3
    <3> QED
      BY <3>1, <3>4 DEF Ahead
  <2> QED
    BY <2>2, <2>3 DEF Add
<1> QED
  BY <1>1, <1>2, <1>5, <1>6, <1>7, <1>8 DEF Inv, PoolTypes

\* The slot of the timer the walk is at is given back.
LEMMA FreeKeeps == ASSUME Inv, WalkFree PROVE Inv'
<1> DEFINE p == Place(at)
<1>0. /\ list \in Seq(Timer) /\ free \in Seq(Timer) /\ at \in ToSet(list) /\ at \in Timer
      /\ wpc = "step" /\ ready /\ ready' = ready
      /\ list' = RemoveAt(list, p) /\ free' = <<at>> \o free
  <2>1. wpc = "step" /\ at \in ToSet(list) /\ ready
    BY DEF Inv, WalkInList, PoolWhole, WalkFree
  <2>2. at \in Timer
    BY <2>1 DEF Inv, PoolTypes, ToSet
  <2> QED
    BY <2>1, <2>2 DEF Inv, PoolTypes, WalkFree
<1>1. p \in DOMAIN list /\ list[p] = at /\ \A i \in DOMAIN list : list[i] = at => i = p
  BY <1>0, PlaceIs DEF Inv
<1>2. next' = (IF p < Len(list) THEN list[p + 1] ELSE NoTimer) /\ at' = next'
  BY DEF WalkFree, Following, GoTo
<1>3. wpc' = (IF at' = NoTimer THEN "idle" ELSE "step") /\ slot' = slot /\ event' = event
  BY <1>2 DEF WalkFree, GoTo
<1> HIDE DEF p
<1>4. /\ list' \in Seq(Timer) /\ Len(list') = Len(list) - 1
      /\ \A i \in DOMAIN list' : list'[i] = IF i < p THEN list[i] ELSE list[i + 1]
  <2>1. LET r == RemoveAt(list, p)
        IN  /\ r \in Seq(Timer) /\ Len(r) = Len(list) - 1
            /\ \A i \in DOMAIN r : r[i] = IF i < p THEN list[i] ELSE list[i + 1]
    BY <1>0, <1>1, RemoveAtIs
  <2> QED
    BY <1>0, <2>1
<1>5. /\ free' \in Seq(Timer) /\ Len(free') = Len(free) + 1
      /\ free'[1] = at /\ \A i \in DOMAIN free : free'[i + 1] = free[i]
      /\ ToSet(free') = {at} \cup ToSet(free)
  <2>1. LET r == <<at>> \o free
        IN  /\ r \in Seq(Timer) /\ Len(r) = Len(free) + 1
            /\ r[1] = at /\ \A i \in DOMAIN free : r[i + 1] = free[i]
            /\ ToSet(r) = {at} \cup ToSet(free)
    BY <1>0, PrependIs
  <2> QED
    BY <1>0, <2>1
<1>6. \A i \in DOMAIN free' : i = 1 \/ (i - 1 \in DOMAIN free /\ free'[i] = free[i - 1])
  BY <1>0, <1>5
<1>7. /\ \A i \in DOMAIN list : i < p => i \in DOMAIN list' /\ list'[i] = list[i]
      /\ \A i \in DOMAIN list : i > p => i - 1 \in DOMAIN list' /\ list'[i - 1] = list[i]
  BY <1>0, <1>1, <1>4
<1>8. \A i \in DOMAIN list' : \E j \in DOMAIN list :
        j # p /\ list'[i] = list[j] /\ j = IF i < p THEN i ELSE i + 1
  BY <1>0, <1>1, <1>4
<1>9. ToSet(list) = {at} \cup ToSet(list') /\ at \notin ToSet(list')
  <2>1. \A t \in ToSet(list) : t = at \/ t \in ToSet(list')
    <3> SUFFICES ASSUME NEW t \in ToSet(list), t # at PROVE t \in ToSet(list')
      OBVIOUS
    <3>1. PICK i \in DOMAIN list : list[i] = t
      BY DEF ToSet
    <3>2. i \in Int /\ p \in Int /\ i # p
      BY <1>0, <1>1, <3>1
    <3>3. CASE i < p
      BY <1>7, <3>1, <3>3, Zenon DEF ToSet
    <3>4. CASE i > p
      BY <1>7, <3>1, <3>4, Zenon DEF ToSet
    <3> QED
      BY <3>2, <3>3, <3>4
  <2>2. \A t \in ToSet(list') : t # at /\ t \in ToSet(list)
    BY <1>1, <1>8 DEF ToSet
  <2> QED
    BY <1>0, <2>1, <2>2
<1>10. SlotsOnce'
  <2>1. Distinct(list)'
    <3> SUFFICES ASSUME NEW i \in DOMAIN list', NEW j \in DOMAIN list', list'[i] = list'[j]
                 PROVE  i = j
      BY DEF Distinct
    <3>1. PICK k \in DOMAIN list :
            k # p /\ list'[i] = list[k] /\ k = IF i < p THEN i ELSE i + 1
      BY <1>8
    <3>2. PICK l \in DOMAIN list :
            l # p /\ list'[j] = list[l] /\ l = IF j < p THEN j ELSE j + 1
      BY <1>8
    <3>3. k = l
      BY <3>1, <3>2 DEF Inv, SlotsOnce, Distinct
    <3>4. i \in Int /\ j \in Int /\ p \in Int
      BY <1>0, <1>1, <1>4
    <3> QED
      BY <3>1, <3>2, <3>3, <3>4
  <2>2. Distinct(free)'
    BY <1>0, <1>1, <1>5, <1>6 DEF Inv, SlotsOnce, Distinct
  <2>3. \A i \in DOMAIN list', j \in DOMAIN free' : list'[i] # free'[j]
    BY <1>0, <1>1, <1>5, <1>6, <1>8 DEF Inv, SlotsOnce, Distinct
  <2> QED
    BY <2>1, <2>2, <2>3 DEF SlotsOnce
<1>11. PoolWhole'
  <2>1. ToSet(list) \cup ToSet(free) = Timer /\ Len(list) + Len(free) = MaxCount
    BY <1>0 DEF Inv, PoolWhole
  <2>2. ToSet(list') \cup ToSet(free') = Timer
    BY <1>5, <1>9, <2>1
  <2>3. Len(list') + Len(free') = MaxCount
    BY <1>0, <1>4, <1>5, <2>1, MaxAssumption
  <2> QED
    BY <1>0, <2>2, <2>3 DEF PoolWhole
<1>12. WalkTypes'
  BY <1>3 DEF Inv, WalkTypes
<1>13. p < Len(list) => p \in DOMAIN list' /\ list'[p] = list[p + 1]
  BY <1>0, <1>1, <1>4
<1>14. WalkInList'
  BY <1>2, <1>3, <1>13, Zenon DEF WalkInList, ToSet
<1>15. EventsAwaited'
  <2> SUFFICES ASSUME NEW t \in ToSet(list'), event'[t] PROVE pending' \/ t \in Ahead'
    BY DEF EventsAwaited
  <2>1. t \in ToSet(list) /\ t # at /\ event[t] /\ (pending' <=> pending)
    BY <1>3, <1>9 DEF WalkFree
  <2>2. CASE t \in Ahead
    <3>1. PICK i \in DOMAIN list : list[i] = t /\ \E k \in 1..i : list[k] = at
      BY <1>0, <2>2, AheadIs
    <3>2. i > p
      <4>1. PICK k \in 1..i : list[k] = at
        BY <3>1
      <4>2. k \in DOMAIN list /\ i # p
        BY <1>0, <1>1, <2>1, <3>1, <4>1
      <4> QED
        BY <1>0, <1>1, <4>1, <4>2
    <3>3. p < Len(list) /\ list[p + 1] \in Timer
      BY <1>0, <1>1, <3>2
    <3>4. at' = list[p + 1] /\ wpc' = "step" /\ at' # NoTimer
      BY <1>2, <1>3, <3>3 DEF Timer, NoTimer
    <3>5. /\ i - 1 \in DOMAIN list' /\ list'[i - 1] = t
          /\ p \in 1..(i - 1) /\ list'[p] = at'
      BY <1>0, <1>1, <1>7, <1>13, <3>1, <3>2, <3>3, <3>4
    <3> QED
      BY <3>4, <3>5 DEF Ahead
  <2> QED
    BY <2>1, <2>2 DEF Inv, EventsAwaited
<1> QED
  BY <1>4, <1>5, <1>10, <1>11, <1>12, <1>14, <1>15 DEF Inv, PoolTypes

\* The steps that leave the lists alone.
LEMMA PoolKept ==
  ASSUME Inv, UNCHANGED pool, slot' = 0 \/ ready, wpc' = wpc \/ ready
  PROVE  PoolTypes' /\ SlotsOnce' /\ PoolWhole'
BY DEF pool, Inv, PoolTypes, SlotsOnce, PoolWhole, Distinct

\* What an access of a call, a callback or a tick does to the events leaves none behind.
LEMMA EventsKept ==
  ASSUME Inv, UNCHANGED <<list, walk>>, event' \in [Timer -> BOOLEAN], pending => pending',
         \A t \in Timer : event'[t] => event[t] \/ pending'
  PROVE  EventsAwaited' /\ WalkTypes' /\ WalkInList'
<1> SUFFICES ASSUME NEW t \in ToSet(list), event'[t] PROVE pending' \/ t \in Ahead'
  BY DEF EventsAwaited, Inv, WalkTypes, WalkInList, walk
<1>1. t \in Timer
  BY DEF Inv, PoolTypes, ToSet
<1>2. Ahead' = Ahead
  BY DEF Ahead, walk
<1> QED
  BY <1>1, <1>2 DEF Inv, EventsAwaited

\* The accesses of a call.
LEMMA AccessKeeps == ASSUME Inv, Access PROVE Inv'
<1>1. UNCHANGED <<pool, pending, walk, slot>>
  BY DEF Access
<1>2. event' \in [Timer -> BOOLEAN] /\ \A t \in Timer : event'[t] => event[t]
  <2>1. CASE RemovedCheck
    BY <2>1 DEF RemovedCheck, timers, Inv, WalkTypes
  <2>2. CASE EventCheck
    BY <2>2 DEF EventCheck, Inv, WalkTypes
  <2>3. CASE Store
    BY <2>3 DEF Store, Inv, WalkTypes
  <2>4. CASE Run
    BY <2>4 DEF Run, Inv, WalkTypes
  <2>5. CASE Release
    BY <2>5 DEF Release, Inv, WalkTypes
  <2> QED
    BY <2>1, <2>2, <2>3, <2>4, <2>5 DEF Access
<1>3. slot' = 0 /\ wpc' = wpc
  BY <1>1 DEF Access, MainRuns, walk
<1>4. PoolTypes' /\ SlotsOnce' /\ PoolWhole'
  BY <1>1, <1>3, PoolKept
<1>5. EventsAwaited' /\ WalkTypes' /\ WalkInList'
  BY <1>1, <1>2, EventsKept DEF pool
<1> QED
  BY <1>4, <1>5 DEF Inv

\* The interrupt.
LEMMA TickKeeps == ASSUME Inv, Tick PROVE Inv'
<1>1. UNCHANGED <<pool, walk>> /\ ready
  BY DEF Tick, TickPass, TickIdle, TickCount, TickFinish, Inv, PoolWhole
<1>2. event' \in [Timer -> BOOLEAN] /\ \A t \in Timer : event'[t] => event[t] \/ pending'
  <2>1. CASE TickPass \/ TickIdle \/ TickCount
    BY <2>1 DEF TickPass, TickIdle, TickCount, timers, Inv, WalkTypes
  <2>2. CASE TickFinish
    BY <2>2 DEF TickFinish, Announce, Inv, WalkTypes
  <2> QED
    BY <2>1, <2>2 DEF Tick
<1>3. pending => pending'
  BY DEF Tick, TickPass, TickIdle, TickCount, TickFinish
<1>4. PoolTypes' /\ SlotsOnce' /\ PoolWhole'
  BY <1>1, PoolKept DEF walk
<1>5. EventsAwaited' /\ WalkTypes' /\ WalkInList'
  BY <1>1, <1>2, <1>3, EventsKept DEF pool
<1> QED
  BY <1>4, <1>5 DEF Inv

\* The walk begins: what was pending is all ahead of it.
LEMMA BeginKeeps == ASSUME Inv, WalkBegin PROVE Inv'
<1>1. UNCHANGED pool /\ slot' = 0 /\ event' = event /\ next' = next
  BY DEF WalkBegin, WalkRuns, MainRuns, timers
<1>2. PoolTypes' /\ SlotsOnce' /\ PoolWhole'
  BY <1>1, PoolKept DEF WalkBegin
<1>3. CASE list = <<>>
  <2>1. ToSet(list') = {} /\ wpc' = "idle"
    BY <1>1, <1>3 DEF WalkBegin, pool, ToSet
  <2> QED
    BY <1>1, <1>2, <2>1 DEF Inv, WalkTypes, WalkInList, EventsAwaited
<1>4. CASE list # <<>>
  <2>1. wpc' = "step" /\ at' = list[1] /\ 1 \in DOMAIN list /\ list' = list
    BY <1>1, <1>4 DEF WalkBegin, pool, Inv, PoolTypes
  <2>2. at' \in ToSet(list) /\ at' # NoTimer
    <3>1. list[1] \in ToSet(list)
      BY <2>1, Zenon DEF ToSet
    <3>2. list[1] \in Timer
      BY <2>1 DEF Inv, PoolTypes
    <3>3. list[1] # NoTimer
      BY <3>2, MaxAssumption DEF Timer, NoTimer
    <3> QED
      BY <2>1, <3>1, <3>3
  <2>3. EventsAwaited'
    <3> SUFFICES ASSUME NEW t \in ToSet(list) PROVE t \in Ahead'
      BY <2>1 DEF EventsAwaited
    <3>1. PICK j \in DOMAIN list : list[j] = t
      BY DEF ToSet
    <3>2. 1 \in 1..j
      BY <3>1 DEF Inv, PoolTypes
    <3> QED
      BY <2>1, <2>2, <3>1, <3>2 DEF Ahead
  <2> QED
    BY <1>1, <1>2, <2>1, <2>2, <2>3 DEF Inv, WalkTypes, WalkInList
<1> QED
  BY <1>3, <1>4

\* The next timer is taken before the event of this one is looked at.
LEMMA StepKeeps == ASSUME Inv, WalkStep PROVE Inv'
<1> DEFINE p == Place(at)
<1>1. /\ UNCHANGED <<pool, at, pending>> /\ slot' = 0 /\ event' = event
      /\ wpc = "step" /\ wpc' = "event" /\ at \in ToSet(list) /\ list \in Seq(Timer)
  BY DEF WalkStep, WalkRuns, MainRuns, timers, Inv, WalkInList, PoolTypes
<1>2. p \in DOMAIN list /\ list[p] = at /\ \A i \in DOMAIN list : list[i] = at => i = p
  BY <1>1, PlaceIs DEF Inv
<1>3. next' = IF p < Len(list) THEN list[p + 1] ELSE NoTimer
  BY DEF WalkStep, Following
<1>4. PoolTypes' /\ SlotsOnce' /\ PoolWhole'
  BY <1>1, PoolKept DEF WalkStep, Inv, PoolWhole
<1> HIDE DEF p
<1>5. p < Len(list) => p + 1 \in DOMAIN list
  BY <1>1, <1>2
<1>6. WalkInList' /\ WalkTypes'
  BY <1>1, <1>3, <1>5, Zenon DEF WalkInList, WalkTypes, Inv, ToSet, pool
<1>7. EventsAwaited'
  <2> SUFFICES ASSUME NEW t \in ToSet(list), event[t] PROVE pending \/ t \in Ahead'
    BY <1>1 DEF EventsAwaited, pool
  <2>1. CASE t \in Ahead /\ t # at
    <3>1. PICK i \in DOMAIN list : list[i] = t /\ \E k \in 1..i : list[k] = at
      BY <1>1, <2>1, AheadIs
    <3>2. i > p
      <4>1. PICK k \in 1..i : list[k] = at
        BY <3>1
      <4>2. k \in DOMAIN list /\ i # p
        BY <1>1, <1>2, <2>1, <3>1, <4>1
      <4> QED
        BY <1>1, <1>2, <4>1, <4>2
    <3>3. p < Len(list) /\ list[p + 1] \in Timer /\ p + 1 \in 1..i
      BY <1>1, <1>2, <3>2
    <3>4. next' = list[p + 1] /\ next' # NoTimer
      BY <1>3, <3>3 DEF Timer, NoTimer
    <3> QED
      BY <1>1, <3>1, <3>3, <3>4 DEF Ahead, pool
  <2>2. CASE t = at
    BY <1>1, <2>2 DEF Ahead
  <2> QED
    BY <2>1, <2>2 DEF Inv, EventsAwaited
<1> QED
  BY <1>4, <1>6, <1>7 DEF Inv

\* The walk goes on to the next timer, whose place it keeps.
LEMMA GoOnKeeps ==
  ASSUME Inv, UNCHANGED <<pool, pending, next>>, slot' = 0, event' = event, GoTo(next),
         wpc = "call" \/ (wpc = "event" /\ ~event[at])
  PROVE  Inv'
<1>1. PoolTypes' /\ SlotsOnce' /\ PoolWhole'
  BY PoolKept DEF Inv, PoolWhole
<1>2. WalkInList' /\ WalkTypes'
  BY DEF Inv, WalkInList, WalkTypes, GoTo, pool
<1>3. EventsAwaited'
  <2> SUFFICES ASSUME NEW t \in ToSet(list), event[t], t \in Ahead PROVE t \in Ahead'
    BY DEF Inv, EventsAwaited, pool
  <2>1. /\ next # NoTimer
        /\ \E i \in DOMAIN list : list[i] = t /\ \E k \in 1..i : list[k] = next
    BY AheadIs
  <2>2. wpc' = "step" /\ at' = next /\ list' = list
    BY <2>1 DEF GoTo, pool
  <2> QED
    BY <2>1, <2>2 DEF Ahead
<1> QED
  BY <1>1, <1>2, <1>3 DEF Inv

\* The event is taken before its callback is called.
LEMMA EventKeeps == ASSUME Inv, WalkEvent PROVE Inv'
<1>1. /\ UNCHANGED <<pool, pending, at, next>> /\ slot' = 0 /\ wpc = "event" /\ wpc' = "call"
      /\ event' = [event EXCEPT ![at] = FALSE]
  BY DEF WalkEvent, WalkRuns, MainRuns
<1>2. PoolTypes' /\ SlotsOnce' /\ PoolWhole'
  BY <1>1, PoolKept DEF Inv, PoolWhole
<1>3. WalkInList' /\ WalkTypes'
  BY <1>1 DEF Inv, WalkInList, WalkTypes, pool
<1>4. EventsAwaited'
  <2> SUFFICES ASSUME NEW t \in ToSet(list), event'[t], t \in Ahead PROVE t \in Ahead'
    BY <1>1 DEF Inv, EventsAwaited, pool, WalkTypes, PoolTypes, ToSet
  <2>1. t # at
    BY <1>1 DEF Inv, WalkTypes, PoolTypes, ToSet
  <2>2. /\ next # NoTimer
        /\ \E i \in DOMAIN list : list[i] = t /\ \E k \in 1..i : list[k] = next
    BY <1>1, <2>1, AheadIs
  <2> QED
    BY <1>1, <2>2 DEF Ahead, pool
<1> QED
  BY <1>2, <1>3, <1>4 DEF Inv

\* The manager is cleared, and initialised again.
LEMMA ClearKeeps == ASSUME Inv, Clear PROVE Inv'
<1>1. /\ list' = <<>> /\ free' = <<>> /\ ~ready' /\ wpc' = "idle" /\ slot' = 0
      /\ event' = [t \in Timer |-> FALSE]
  BY DEF Clear, Cleared, AppRuns, MainRuns, walk
<1>2. ToSet(list') = {} /\ PoolTypes' /\ DOMAIN list' = {} /\ DOMAIN free' = {}
  BY <1>1 DEF ToSet, PoolTypes
<1>3. SlotsOnce' /\ PoolWhole'
  BY <1>1, <1>2 DEF SlotsOnce, PoolWhole, Distinct
<1> QED
  BY <1>1, <1>2, <1>3 DEF Inv, WalkTypes, WalkInList, EventsAwaited

LEMMA ReopenKeeps == ASSUME Inv, Reopen PROVE Inv'
<1>1. list' = <<>> /\ ready' /\ wpc' = "idle" /\ event' = event
  BY DEF Reopen, Inv, PoolWhole, walk, timers
<1>2. /\ free' = [i \in Timer |-> i] /\ free' \in Seq(Timer) /\ Len(free') = MaxCount
      /\ DOMAIN free' = Timer /\ \A i \in Timer : free'[i] = i
  BY MaxAssumption DEF Reopen, Timer
<1>3. ToSet(list') = {} /\ DOMAIN list' = {} /\ list' \in Seq(Timer) /\ Len(list') = 0
  BY <1>1 DEF ToSet
<1>4. ToSet(free') = Timer
  BY <1>2 DEF ToSet
<1>5. PoolTypes' /\ SlotsOnce'
  BY <1>2, <1>3 DEF PoolTypes, SlotsOnce, Distinct
<1>6. ToSet(list') \cup ToSet(free') = Timer /\ Len(list') + Len(free') = MaxCount
  BY <1>2, <1>3, <1>4, MaxAssumption
<1>7. PoolWhole'
  BY <1>1, <1>6 DEF PoolWhole
<1> QED
  BY <1>1, <1>3, <1>5, <1>7 DEF Inv, WalkTypes, WalkInList, EventsAwaited

\* Marking a timer, and beginning a call or a tick.
LEMMA OthersKeep ==
  ASSUME Inv, UNCHANGED <<event, pool, pending, walk>>, slot' = 0 \/ ready
  PROVE  Inv'
<1>1. PoolTypes' /\ SlotsOnce' /\ PoolWhole'
  BY PoolKept DEF walk
<1>2. EventsAwaited' /\ WalkTypes' /\ WalkInList'
  BY EventsKept DEF pool, Inv, WalkTypes
<1> QED
  BY <1>1, <1>2 DEF Inv

LEMMA InvStep == Inv /\ [Next]_vars => Inv'
<1> SUFFICES ASSUME Inv, [Next]_vars PROVE Inv'
  OBVIOUS
<1>1. CASE Add
  BY <1>1, AddKeeps
<1>2. ASSUME NEW t \in Timer, RemoveTimer(t) PROVE Inv'
  BY <1>2, OthersKeep DEF RemoveTimer, AppRuns
<1>3. ASSUME NEW t \in Timer, NEW n, NEW first, Call(t, n, first) PROVE Inv'
  BY <1>3, OthersKeep DEF Call, AppRuns, timers
<1>4. CASE Clear
  BY <1>4, ClearKeeps
<1>5. CASE Reopen
  BY <1>5, ReopenKeeps
<1>6. CASE Access
  BY <1>6, AccessKeeps
<1>7. CASE Walk
  <2>1. CASE WalkBegin
    BY <2>1, BeginKeeps
  <2>2. CASE WalkFree
    BY <2>2, FreeKeeps
  <2>3. CASE WalkStep
    BY <2>3, StepKeeps
  <2>4. CASE WalkPass
    BY <2>4, GoOnKeeps DEF WalkPass, WalkRuns, MainRuns, timers
  <2>5. CASE WalkEvent
    BY <2>5, EventKeeps
  <2>6. CASE WalkReturn
    BY <2>6, GoOnKeeps DEF WalkReturn, WalkRuns, MainRuns, timers
  <2> QED
    BY <1>7, <2>1, <2>2, <2>3, <2>4, <2>5, <2>6 DEF Walk
<1>8. CASE TickBegin
  BY <1>8, OthersKeep DEF TickBegin, timers
<1>9. CASE Tick
  BY <1>9, TickKeeps
<1>10. CASE UNCHANGED vars
  BY <1>10, OthersKeep DEF vars, timers, Inv, PoolWhole
<1>11. \A t \in ToSet(list) : t \in Timer
  BY DEF Inv, PoolTypes, ToSet
<1> QED
  BY <1>1, <1>2, <1>3, <1>4, <1>5, <1>6, <1>7, <1>8, <1>9, <1>10, <1>11 DEF Next, SetTarget, Stop

\* In every behaviour an expiry has the walk ahead of it or another one pending, the walk stays
\* on timers of the list whatever its callbacks add and remove, and a slot is in use or free
\* while the tick handler goes over them.
THEOREM TimersAreKept == Spec => []TimersKept
<1>1. Init => Inv
  BY InvInit
<1>2. Inv /\ [Next]_vars => Inv'
  BY InvStep
<1>3. Inv => TimersKept
  BY DEF Inv, TimersKept, StorageHeld, PoolWhole
<1> QED
  BY <1>1, <1>2, <1>3, PTL DEF Spec

-----------------------------------------------------------------------------
(* The calls of the application, access by access, and what a running timer has left.             *)

Accesses == {"removed?", "event?", "halt", "tear target", "store target", "tear current",
             "load current", "clear current", "run", "release"}

\* A call is at one of its accesses, the last n of the l accesses d.
Rest(c, d, l, n) == n \in 1..l /\ Len(c) = n /\ \A i \in 1..n : c[i] = d[l - n + i]

\* What is left of the call.  From the first store on the timer is halted, so that the tick leaves
\* it alone; before a timer is started it has the count it is to have; and a timer that is only
\* held is as the tick left it.
Halted == step[of] # "running"
Right(t) == current[t] = goal[t] - counted[t]
Starting(n) == Rest(code, StartCode, 8, n) /\ (n <= 5 => Halted) /\ (n = 1 => current[of] = target[of])
Resetting(n) == Rest(code, ResetCode, 5, n) /\ (n <= 3 => Halted) /\ (n = 1 => current[of] = target[of])
Stopping(n) == Rest(code, StopCode, 3, n) /\ (n <= 2 => Halted)
Opening(n) == Rest(code, OpenCode, 2, n) /\ Halted
Holding(n) == Rest(code, HeldCode, 4, n) /\ (n <= 3 => Halted) /\ (current[of] # 0 => Right(of))
Calling ==
  code # <<>> =>
    \E n \in Nat : Starting(n) \/ Resetting(n) \/ Stopping(n) \/ Opening(n) \/ Holding(n)

\* The target is what was asked for, but between the two halves of its store.
Targeted ==
  \A t \in Timer : target[t] = asked[t] \/ (t = of /\ code # <<>> /\ Head(code) = "store target")

CallTypes ==
  /\ step \in [Timer -> {"stop", "running", "remove"}]
  /\ target \in [Timer -> Int] /\ current \in [Timer -> Int]
  /\ asked \in [Timer -> Int] /\ goal \in [Timer -> Int] /\ counted \in [Timer -> Int]
  /\ code \in Seq(Accesses) /\ with \in Int
  /\ code # <<>> => of \in ToSet(list)

CallInv == CallTypes /\ Calling /\ Targeted /\ RemainIsRight

\* The accesses of a call follow each other.
LEMMA RestGoesOn ==
  ASSUME NEW c \in Seq(Accesses), NEW d, NEW l \in Nat, NEW n \in Nat, Rest(c, d, l, n)
  PROVE  /\ c # <<>> /\ Head(c) = d[l - n + 1] /\ Tail(c) \in Seq(Accesses) /\ n <= l /\ n >= 1
         /\ n = 1 => Tail(c) = <<>>
         /\ n # 1 => Rest(Tail(c), d, l, n - 1)
<1>1. n \in 1..l /\ Len(c) = n /\ \A i \in 1..n : c[i] = d[l - n + i]
  BY DEF Rest
<1>2. c # <<>> /\ Head(c) = c[1] /\ Tail(c) \in Seq(Accesses) /\ Len(Tail(c)) = n - 1
  BY <1>1
<1>3. \A i \in 1..(n - 1) : Tail(c)[i] = c[i + 1]
  BY <1>1
<1>4. Head(c) = d[l - n + 1]
  BY <1>1, <1>2
<1>5. ASSUME n # 1 PROVE Rest(Tail(c), d, l, n - 1)
  <2>1. n - 1 \in 1..l
    BY <1>1, <1>5
  <2>2. \A i \in 1..(n - 1) : Tail(c)[i] = d[l - (n - 1) + i]
    <3> SUFFICES ASSUME NEW i \in 1..(n - 1) PROVE Tail(c)[i] = d[l - (n - 1) + i]
      OBVIOUS
    <3>1. i + 1 \in 1..n /\ l - n + (i + 1) = l - (n - 1) + i
      BY <1>1
    <3> QED
      BY <1>1, <1>3, <3>1
  <2> QED
    BY <1>2, <2>1, <2>2 DEF Rest
<1>6. n = 1 => Tail(c) = <<>>
  <2> SUFFICES ASSUME n = 1 PROVE Tail(c) = <<>>
    OBVIOUS
  <2>1. Len(Tail(c)) = 0
    BY <1>2
  <2> QED
    BY <1>2, <2>1, EmptySeq
<1> QED
  BY <1>1, <1>2, <1>4, <1>5, <1>6

\* The accesses of the calls.
LEMMA Codes ==
  /\ Len(StartCode) = 8 /\ StartCode \in Seq(Accesses)
  /\ StartCode[1] = "removed?" /\ StartCode[2] = "event?" /\ StartCode[3] = "halt"
  /\ StartCode[4] = "tear target" /\ StartCode[5] = "store target"
  /\ StartCode[6] = "tear current" /\ StartCode[7] = "load current" /\ StartCode[8] = "run"
  /\ Len(ResetCode) = 5 /\ ResetCode \in Seq(Accesses)
  /\ ResetCode[1] = "removed?" /\ ResetCode[2] = "halt" /\ ResetCode[3] = "tear current"
  /\ ResetCode[4] = "load current" /\ ResetCode[5] = "run"
  /\ Len(StopCode) = 3 /\ StopCode \in Seq(Accesses)
  /\ StopCode[1] = "halt" /\ StopCode[2] = "tear current" /\ StopCode[3] = "clear current"
  /\ Len(OpenCode) = 2 /\ OpenCode \in Seq(Accesses)
  /\ OpenCode[1] = "tear target" /\ OpenCode[2] = "store target"
  /\ Len(HeldCode) = 4 /\ HeldCode \in Seq(Accesses)
  /\ HeldCode[1] = "halt" /\ HeldCode[2] = "tear target" /\ HeldCode[3] = "store target"
  /\ HeldCode[4] = "release"
<1>1. Len(StartCode) = 8 /\ StartCode \in Seq(Accesses)
  BY DEF StartCode, Accesses
<1>2. /\ StartCode[1] = "removed?" /\ StartCode[2] = "event?" /\ StartCode[3] = "halt"
      /\ StartCode[4] = "tear target" /\ StartCode[5] = "store target"
      /\ StartCode[6] = "tear current" /\ StartCode[7] = "load current" /\ StartCode[8] = "run"
  BY DEF StartCode
<1>3. /\ Len(ResetCode) = 5 /\ ResetCode \in Seq(Accesses)
      /\ ResetCode[1] = "removed?" /\ ResetCode[2] = "halt" /\ ResetCode[3] = "tear current"
      /\ ResetCode[4] = "load current" /\ ResetCode[5] = "run"
  BY DEF ResetCode, Accesses
<1>4. /\ Len(StopCode) = 3 /\ StopCode \in Seq(Accesses)
      /\ StopCode[1] = "halt" /\ StopCode[2] = "tear current" /\ StopCode[3] = "clear current"
  BY DEF StopCode, Accesses
<1>5. /\ Len(OpenCode) = 2 /\ OpenCode \in Seq(Accesses)
      /\ OpenCode[1] = "tear target" /\ OpenCode[2] = "store target"
  BY DEF OpenCode, Accesses
<1>6. /\ Len(HeldCode) = 4 /\ HeldCode \in Seq(Accesses)
      /\ HeldCode[1] = "halt" /\ HeldCode[2] = "tear target" /\ HeldCode[3] = "store target"
      /\ HeldCode[4] = "release"
  BY DEF HeldCode, Accesses
<1> QED
  BY <1>1, <1>2, <1>3, <1>4, <1>5, <1>6

\* The next access of each of them.
LEMMA StartAccess ==
  ASSUME NEW c \in Seq(Accesses), NEW n \in Nat, Rest(c, StartCode, 8, n)
  PROVE  /\ n \in 1..8 /\ c # <<>> /\ Tail(c) \in Seq(Accesses)
         /\ n = 8 => Head(c) = "removed?"
         /\ n = 7 => Head(c) = "event?"
         /\ n = 6 => Head(c) = "halt"
         /\ n = 5 => Head(c) = "tear target"
         /\ n = 4 => Head(c) = "store target"
         /\ n = 3 => Head(c) = "tear current"
         /\ n = 2 => Head(c) = "load current"
         /\ n = 1 => Head(c) = "run"
         /\ n = 1 => Tail(c) = <<>>
         /\ n # 1 => Rest(Tail(c), StartCode, 8, n - 1)
<1> DEFINE d == StartCode
           l == 8
<1>0. l \in Nat /\ Rest(c, d, l, n)
  OBVIOUS
<1> HIDE DEF d, l
<1>1. /\ c # <<>> /\ Head(c) = d[l - n + 1] /\ Tail(c) \in Seq(Accesses) /\ n <= l /\ n >= 1
      /\ n = 1 => Tail(c) = <<>>
      /\ n # 1 => Rest(Tail(c), d, l, n - 1)
  BY <1>0, RestGoesOn
<1> USE DEF d, l
<1>a. n \in 1..8
  BY <1>1
<1>2. n = 8 => Head(c) = "removed?"
  <2>1. n = 8 => 8 - n + 1 = 1
    OBVIOUS
  <2> QED
    BY <1>1, <2>1, Codes
<1>3. n = 7 => Head(c) = "event?"
  <2>1. n = 7 => 8 - n + 1 = 2
    OBVIOUS
  <2> QED
    BY <1>1, <2>1, Codes
<1>4. n = 6 => Head(c) = "halt"
  <2>1. n = 6 => 8 - n + 1 = 3
    OBVIOUS
  <2> QED
    BY <1>1, <2>1, Codes
<1>5. n = 5 => Head(c) = "tear target"
  <2>1. n = 5 => 8 - n + 1 = 4
    OBVIOUS
  <2> QED
    BY <1>1, <2>1, Codes
<1>6. n = 4 => Head(c) = "store target"
  <2>1. n = 4 => 8 - n + 1 = 5
    OBVIOUS
  <2> QED
    BY <1>1, <2>1, Codes
<1>7. n = 3 => Head(c) = "tear current"
  <2>1. n = 3 => 8 - n + 1 = 6
    OBVIOUS
  <2> QED
    BY <1>1, <2>1, Codes
<1>8. n = 2 => Head(c) = "load current"
  <2>1. n = 2 => 8 - n + 1 = 7
    OBVIOUS
  <2> QED
    BY <1>1, <2>1, Codes
<1>9. n = 1 => Head(c) = "run"
  <2>1. n = 1 => 8 - n + 1 = 8
    OBVIOUS
  <2> QED
    BY <1>1, <2>1, Codes
<1> QED
  BY <1>a, <1>1, <1>2, <1>3, <1>4, <1>5, <1>6, <1>7, <1>8, <1>9

LEMMA ResetAccess ==
  ASSUME NEW c \in Seq(Accesses), NEW n \in Nat, Rest(c, ResetCode, 5, n)
  PROVE  /\ n \in 1..5 /\ c # <<>> /\ Tail(c) \in Seq(Accesses)
         /\ n = 5 => Head(c) = "removed?"
         /\ n = 4 => Head(c) = "halt"
         /\ n = 3 => Head(c) = "tear current"
         /\ n = 2 => Head(c) = "load current"
         /\ n = 1 => Head(c) = "run"
         /\ n = 1 => Tail(c) = <<>>
         /\ n # 1 => Rest(Tail(c), ResetCode, 5, n - 1)
<1> DEFINE d == ResetCode
           l == 5
<1>0. l \in Nat /\ Rest(c, d, l, n)
  OBVIOUS
<1> HIDE DEF d, l
<1>1. /\ c # <<>> /\ Head(c) = d[l - n + 1] /\ Tail(c) \in Seq(Accesses) /\ n <= l /\ n >= 1
      /\ n = 1 => Tail(c) = <<>>
      /\ n # 1 => Rest(Tail(c), d, l, n - 1)
  BY <1>0, RestGoesOn
<1> USE DEF d, l
<1>a. n \in 1..5
  BY <1>1
<1>2. n = 5 => Head(c) = "removed?"
  <2>1. n = 5 => 5 - n + 1 = 1
    OBVIOUS
  <2> QED
    BY <1>1, <2>1, Codes
<1>3. n = 4 => Head(c) = "halt"
  <2>1. n = 4 => 5 - n + 1 = 2
    OBVIOUS
  <2> QED
    BY <1>1, <2>1, Codes
<1>4. n = 3 => Head(c) = "tear current"
  <2>1. n = 3 => 5 - n + 1 = 3
    OBVIOUS
  <2> QED
    BY <1>1, <2>1, Codes
<1>5. n = 2 => Head(c) = "load current"
  <2>1. n = 2 => 5 - n + 1 = 4
    OBVIOUS
  <2> QED
    BY <1>1, <2>1, Codes
<1>6. n = 1 => Head(c) = "run"
  <2>1. n = 1 => 5 - n + 1 = 5
    OBVIOUS
  <2> QED
    BY <1>1, <2>1, Codes
<1> QED
  BY <1>a, <1>1, <1>2, <1>3, <1>4, <1>5, <1>6

LEMMA StopAccess ==
  ASSUME NEW c \in Seq(Accesses), NEW n \in Nat, Rest(c, StopCode, 3, n)
  PROVE  /\ n \in 1..3 /\ c # <<>> /\ Tail(c) \in Seq(Accesses)
         /\ n = 3 => Head(c) = "halt"
         /\ n = 2 => Head(c) = "tear current"
         /\ n = 1 => Head(c) = "clear current"
         /\ n = 1 => Tail(c) = <<>>
         /\ n # 1 => Rest(Tail(c), StopCode, 3, n - 1)
<1> DEFINE d == StopCode
           l == 3
<1>0. l \in Nat /\ Rest(c, d, l, n)
  OBVIOUS
<1> HIDE DEF d, l
<1>1. /\ c # <<>> /\ Head(c) = d[l - n + 1] /\ Tail(c) \in Seq(Accesses) /\ n <= l /\ n >= 1
      /\ n = 1 => Tail(c) = <<>>
      /\ n # 1 => Rest(Tail(c), d, l, n - 1)
  BY <1>0, RestGoesOn
<1> USE DEF d, l
<1>a. n \in 1..3
  BY <1>1
<1>2. n = 3 => Head(c) = "halt"
  <2>1. n = 3 => 3 - n + 1 = 1
    OBVIOUS
  <2> QED
    BY <1>1, <2>1, Codes
<1>3. n = 2 => Head(c) = "tear current"
  <2>1. n = 2 => 3 - n + 1 = 2
    OBVIOUS
  <2> QED
    BY <1>1, <2>1, Codes
<1>4. n = 1 => Head(c) = "clear current"
  <2>1. n = 1 => 3 - n + 1 = 3
    OBVIOUS
  <2> QED
    BY <1>1, <2>1, Codes
<1> QED
  BY <1>a, <1>1, <1>2, <1>3, <1>4

LEMMA OpenAccess ==
  ASSUME NEW c \in Seq(Accesses), NEW n \in Nat, Rest(c, OpenCode, 2, n)
  PROVE  /\ n \in 1..2 /\ c # <<>> /\ Tail(c) \in Seq(Accesses)
         /\ n = 2 => Head(c) = "tear target"
         /\ n = 1 => Head(c) = "store target"
         /\ n = 1 => Tail(c) = <<>>
         /\ n # 1 => Rest(Tail(c), OpenCode, 2, n - 1)
<1> DEFINE d == OpenCode
           l == 2
<1>0. l \in Nat /\ Rest(c, d, l, n)
  OBVIOUS
<1> HIDE DEF d, l
<1>1. /\ c # <<>> /\ Head(c) = d[l - n + 1] /\ Tail(c) \in Seq(Accesses) /\ n <= l /\ n >= 1
      /\ n = 1 => Tail(c) = <<>>
      /\ n # 1 => Rest(Tail(c), d, l, n - 1)
  BY <1>0, RestGoesOn
<1> USE DEF d, l
<1>a. n \in 1..2
  BY <1>1
<1>2. n = 2 => Head(c) = "tear target"
  <2>1. n = 2 => 2 - n + 1 = 1
    OBVIOUS
  <2> QED
    BY <1>1, <2>1, Codes
<1>3. n = 1 => Head(c) = "store target"
  <2>1. n = 1 => 2 - n + 1 = 2
    OBVIOUS
  <2> QED
    BY <1>1, <2>1, Codes
<1> QED
  BY <1>a, <1>1, <1>2, <1>3

LEMMA HeldAccess ==
  ASSUME NEW c \in Seq(Accesses), NEW n \in Nat, Rest(c, HeldCode, 4, n)
  PROVE  /\ n \in 1..4 /\ c # <<>> /\ Tail(c) \in Seq(Accesses)
         /\ n = 4 => Head(c) = "halt"
         /\ n = 3 => Head(c) = "tear target"
         /\ n = 2 => Head(c) = "store target"
         /\ n = 1 => Head(c) = "release"
         /\ n = 1 => Tail(c) = <<>>
         /\ n # 1 => Rest(Tail(c), HeldCode, 4, n - 1)
<1> DEFINE d == HeldCode
           l == 4
<1>0. l \in Nat /\ Rest(c, d, l, n)
  OBVIOUS
<1> HIDE DEF d, l
<1>1. /\ c # <<>> /\ Head(c) = d[l - n + 1] /\ Tail(c) \in Seq(Accesses) /\ n <= l /\ n >= 1
      /\ n = 1 => Tail(c) = <<>>
      /\ n # 1 => Rest(Tail(c), d, l, n - 1)
  BY <1>0, RestGoesOn
<1> USE DEF d, l
<1>a. n \in 1..4
  BY <1>1
<1>2. n = 4 => Head(c) = "halt"
  <2>1. n = 4 => 4 - n + 1 = 1
    OBVIOUS
  <2> QED
    BY <1>1, <2>1, Codes
<1>3. n = 3 => Head(c) = "tear target"
  <2>1. n = 3 => 4 - n + 1 = 2
    OBVIOUS
  <2> QED
    BY <1>1, <2>1, Codes
<1>4. n = 2 => Head(c) = "store target"
  <2>1. n = 2 => 4 - n + 1 = 3
    OBVIOUS
  <2> QED
    BY <1>1, <2>1, Codes
<1>5. n = 1 => Head(c) = "release"
  <2>1. n = 1 => 4 - n + 1 = 4
    OBVIOUS
  <2> QED
    BY <1>1, <2>1, Codes
<1> QED
  BY <1>a, <1>1, <1>2, <1>3, <1>4, <1>5

\* What an access leaves as it is.
LEMMA AccessTypes ==
  ASSUME CallTypes, Inv, Access
  PROVE  /\ code \in Seq(Accesses) /\ code # <<>> /\ of \in Timer /\ of \in ToSet(list)
         /\ of' = of /\ with' = with /\ list' = list /\ gone' = gone
         /\ code' \in Seq(Accesses)
<1>1. code \in Seq(Accesses) /\ code # <<>> /\ of \in ToSet(list)
  BY DEF CallTypes, Access
<1>2. of \in Timer
  BY <1>1 DEF Inv, PoolTypes, ToSet
<1>3. of' = of /\ with' = with /\ list' = list /\ gone' = gone
  BY DEF Access, pool, RemovedCheck, EventCheck, Store, Run, Release, history
<1>4. Tail(code) \in Seq(Accesses) /\ <<>> \in Seq(Accesses)
  BY <1>1
<1>5. code' = <<>> \/ code' = Tail(code)
  BY DEF Access, RemovedCheck, EventCheck, Store, Run, Release
<1> QED
  BY <1>1, <1>2, <1>3, <1>4, <1>5

LEMMA TornIs == Torn \in Int /\ 0 \in Int
BY DEF Torn

\* The accesses that change neither counts nor the step of their timer.
LEMMA CheckIs ==
  ASSUME Access, Head(code) \in {"removed?", "event?"}
  PROVE  /\ UNCHANGED <<step, target, current, asked, goal, counted>>
         /\ code' = <<>> \/ code' = Tail(code)
         /\ Head(code) = "removed?" => ran' = ran /\ (step[of] = "remove" => code' = <<>>)
BY DEF Access, RemovedCheck, EventCheck, Store, Run, Release, timers, history

LEMMA StoreIs ==
  ASSUME CallTypes, Inv, Access,
         Head(code) \in {"halt", "tear target", "store target", "tear current", "load current",
                         "clear current"}
  PROVE  /\ Store /\ UNCHANGED <<goal, counted, ran>> /\ code' = Tail(code)
         /\ step' = IF Head(code) = "halt" THEN [step EXCEPT ![of] = "stop"] ELSE step
         /\ Head(code) \notin {"tear target", "store target"} => target' = target
         /\ \A t \in Timer : t # of => target'[t] = target[t] /\ current'[t] = current[t]
                                       /\ asked'[t] = asked[t]
         /\ Head(code) = "store target" => target'[of] = asked'[of]
         /\ Head(code) # "store target" => asked' = asked
         /\ Head(code) \notin {"tear current", "load current", "clear current"} => current' = current
         /\ Head(code) = "load current" => current'[of] = target'[of]
         /\ target' \in [Timer -> Int] /\ current' \in [Timer -> Int] /\ asked' \in [Timer -> Int]
<1>1. Store
  BY DEF Access, RemovedCheck, EventCheck, Store, Run, Release
<1>2. /\ UNCHANGED <<goal, counted, ran>> /\ code' = Tail(code)
      /\ step' = IF Head(code) = "halt" THEN [step EXCEPT ![of] = "stop"] ELSE step
  BY <1>1 DEF Store
<1>3. of \in Timer
  BY AccessTypes
<1>4. /\ target \in [Timer -> Int] /\ current \in [Timer -> Int] /\ asked \in [Timer -> Int]
      /\ with \in Int
  BY DEF CallTypes
<1>5. /\ Head(code) = "tear target" => target' = [target EXCEPT ![of] = Torn]
      /\ Head(code) = "store target" => target' = [target EXCEPT ![of] = with]
      /\ Head(code) \notin {"tear target", "store target"} => target' = target
  BY <1>1, Zenon DEF Store
<1>6. /\ Head(code) = "tear current" => current' = [current EXCEPT ![of] = Torn]
      /\ Head(code) = "load current" => current' = [current EXCEPT ![of] = target[of]]
      /\ Head(code) = "clear current" => current' = [current EXCEPT ![of] = 0]
      /\ Head(code) \notin {"tear current", "load current", "clear current"} => current' = current
  BY <1>1, Zenon DEF Store
<1>7. asked' = IF Head(code) = "store target" THEN [asked EXCEPT ![of] = with] ELSE asked
  BY <1>1 DEF Store
<1>8. target' \in [Timer -> Int]
  BY <1>3, <1>4, <1>5, TornIs
<1>9. current' \in [Timer -> Int]
  <2>1. target[of] \in Int
    BY <1>3, <1>4
  <2>2. CASE Head(code) = "tear current"
    BY <1>3, <1>4, <1>6, <2>2, TornIs
  <2>3. CASE Head(code) = "load current"
    BY <1>3, <1>4, <1>6, <2>1, <2>3
  <2>4. CASE Head(code) = "clear current"
    <3>1. current' = [current EXCEPT ![of] = 0]
      BY <1>6, <2>4
    <3>2. 0 \in Int
      BY TornIs
    <3> QED
      BY ONLY <1>3, <1>4, <3>1, <3>2
  <2> QED
    BY <1>4, <1>6, <2>2, <2>3, <2>4
<1>10. asked' \in [Timer -> Int]
  BY <1>3, <1>4, <1>7
<1>11. \A t \in Timer : t # of => target'[t] = target[t] /\ current'[t] = current[t]
                                  /\ asked'[t] = asked[t]
  <2> SUFFICES ASSUME NEW t \in Timer, t # of
               PROVE  target'[t] = target[t] /\ current'[t] = current[t] /\ asked'[t] = asked[t]
    OBVIOUS
  <2>1. target'[t] = target[t]
    BY <1>3, <1>4, <1>5
  <2>2. current'[t] = current[t]
    BY <1>3, <1>4, <1>6
  <2>3. asked'[t] = asked[t]
    BY <1>3, <1>4, <1>7
  <2> QED
    BY <2>1, <2>2, <2>3
<1>12. Head(code) = "store target" => target'[of] = asked'[of]
  BY <1>3, <1>4, <1>5, <1>7
<1>13. Head(code) = "load current" => current'[of] = target'[of]
  <2> SUFFICES ASSUME Head(code) = "load current" PROVE current'[of] = target'[of]
    OBVIOUS
  <2>1. target' = target /\ current' = [current EXCEPT ![of] = target[of]]
    BY <1>5, <1>6
  <2> QED
    BY <1>3, <1>4, <2>1
<1> QED
  BY <1>1, <1>2, <1>5, <1>6, <1>7, <1>8, <1>9, <1>10, <1>11, <1>12, <1>13

LEMMA RunIs ==
  ASSUME Access, Head(code) = "run"
  PROVE  /\ step' = [step EXCEPT ![of] = "running"] /\ goal' = [goal EXCEPT ![of] = asked[of]]
         /\ counted' = [counted EXCEPT ![of] = 0] /\ code' = Tail(code)
         /\ UNCHANGED <<target, current, asked, ran>>
BY DEF Access, RemovedCheck, EventCheck, Store, Run, Release

LEMMA ReleaseIs ==
  ASSUME Access, Head(code) = "release"
  PROVE  /\ step' = IF current[of] # 0 THEN [step EXCEPT ![of] = "running"] ELSE step
         /\ code' = Tail(code) /\ UNCHANGED <<target, current, asked, goal, counted, ran>>
BY DEF Access, RemovedCheck, EventCheck, Store, Run, Release, history

\* From one access of a start to the next.
LEMMA StartGoesOn ==
  ASSUME CallInv, Inv, Access, NEW n \in Nat, Starting(n)
  PROVE  Calling'
<1>1. /\ code \in Seq(Accesses) /\ code # <<>> /\ of \in Timer /\ of' = of
      /\ step \in [Timer -> {"stop", "running", "remove"}] /\ code' \in Seq(Accesses)
  BY AccessTypes DEF CallInv, CallTypes
<1>2. Rest(code, StartCode, 8, n) /\ (n <= 5 => Halted)
  BY DEF Starting
<1>3. /\ n \in 1..8
      /\ n = 1 => Tail(code) = <<>>
      /\ n # 1 => Rest(Tail(code), StartCode, 8, n - 1)
  BY <1>1, <1>2, StartAccess
<1>4. CASE code' = <<>>
  BY <1>4 DEF Calling
<1>5. ASSUME n # 1, code' = Tail(code), n <= 6 => Halted', n = 2 => current'[of] = target'[of]
      PROVE  Calling'
  <2>1. Rest(code', StartCode, 8, n - 1) /\ n - 1 \in Nat /\ (n - 1 <= 5 => n <= 6) /\ (n - 1 = 1 => n = 2)
    BY <1>3, <1>5
  <2>2. Starting(n - 1)'
    BY <1>1, <1>5, <2>1 DEF Starting
  <2> QED
    BY <2>1, <2>2 DEF Calling
<1>6. CASE n = 8
  <2>1. Head(code) = "removed?"
    BY <1>1, <1>2, <1>6, StartAccess
  <2> QED
    BY <1>4, <1>5, <1>6, <2>1, CheckIs
<1>7. CASE n = 7
  <2>1. Head(code) = "event?"
    BY <1>1, <1>2, <1>7, StartAccess
  <2> QED
    BY <1>4, <1>5, <1>7, <2>1, CheckIs
<1>8. CASE n = 6
  <2>1. Head(code) = "halt"
    BY <1>1, <1>2, <1>8, StartAccess
  <2>2. step' = [step EXCEPT ![of] = "stop"] /\ code' = Tail(code)
    BY <2>1, StoreIs DEF CallInv
  <2>3. Halted'
    BY <1>1, <2>2 DEF Halted
  <2> QED
    BY <1>5, <1>8, <2>2, <2>3
<1>9. CASE n \in {5, 4, 3}
  <2>1. Head(code) \in {"tear target", "store target", "tear current"}
    BY <1>1, <1>2, <1>9, StartAccess
  <2>2. step' = step /\ code' = Tail(code)
    BY <2>1, StoreIs DEF CallInv
  <2>3. Halted'
    BY <1>1, <1>2, <1>9, <2>2 DEF Halted
  <2> QED
    BY <1>5, <1>9, <2>2, <2>3
<1>10. CASE n = 2
  <2>1. Head(code) = "load current"
    BY <1>1, <1>2, <1>10, StartAccess
  <2>2. step' = step /\ code' = Tail(code) /\ current'[of] = target'[of]
    BY <2>1, StoreIs DEF CallInv
  <2>3. Halted'
    BY <1>1, <1>2, <1>10, <2>2 DEF Halted
  <2> QED
    BY <1>5, <1>10, <2>2, <2>3
<1>11. CASE n = 1
  <2>1. Head(code) = "run"
    BY <1>1, <1>2, <1>11, StartAccess
  <2> QED
    BY <1>3, <1>4, <1>11, <2>1, RunIs
<1> QED
  BY <1>3, <1>6, <1>7, <1>8, <1>9, <1>10, <1>11

\* From one access of a reset to the next.
LEMMA ResetGoesOn ==
  ASSUME CallInv, Inv, Access, NEW n \in Nat, Resetting(n)
  PROVE  Calling'
<1>1. /\ code \in Seq(Accesses) /\ code # <<>> /\ of \in Timer /\ of' = of
      /\ step \in [Timer -> {"stop", "running", "remove"}] /\ code' \in Seq(Accesses)
  BY AccessTypes DEF CallInv, CallTypes
<1>2. Rest(code, ResetCode, 5, n) /\ (n <= 3 => Halted)
  BY DEF Resetting
<1>3. /\ n \in 1..5
      /\ n = 1 => Tail(code) = <<>>
      /\ n # 1 => Rest(Tail(code), ResetCode, 5, n - 1)
  BY <1>1, <1>2, ResetAccess
<1>4. CASE code' = <<>>
  BY <1>4 DEF Calling
<1>5. ASSUME n # 1, code' = Tail(code), n <= 4 => Halted', n = 2 => current'[of] = target'[of]
      PROVE  Calling'
  <2>1. Rest(code', ResetCode, 5, n - 1) /\ n - 1 \in Nat /\ (n - 1 <= 3 => n <= 4) /\ (n - 1 = 1 => n = 2)
    BY <1>3, <1>5
  <2>2. Resetting(n - 1)'
    BY <1>1, <1>5, <2>1 DEF Resetting
  <2> QED
    BY <2>1, <2>2 DEF Calling
<1>6. CASE n = 5
  <2>1. Head(code) = "removed?"
    BY <1>1, <1>2, <1>6, ResetAccess
  <2> QED
    BY <1>4, <1>5, <1>6, <2>1, CheckIs
<1>8. CASE n = 4
  <2>1. Head(code) = "halt"
    BY <1>1, <1>2, <1>8, ResetAccess
  <2>2. step' = [step EXCEPT ![of] = "stop"] /\ code' = Tail(code)
    BY <2>1, StoreIs DEF CallInv
  <2>3. Halted'
    BY <1>1, <2>2 DEF Halted
  <2> QED
    BY <1>5, <1>8, <2>2, <2>3
<1>9. CASE n = 3
  <2>1. Head(code) = "tear current"
    BY <1>1, <1>2, <1>9, ResetAccess
  <2>2. step' = step /\ code' = Tail(code)
    BY <2>1, StoreIs DEF CallInv
  <2>3. Halted'
    BY <1>1, <1>2, <1>9, <2>2 DEF Halted
  <2> QED
    BY <1>5, <1>9, <2>2, <2>3
<1>10. CASE n = 2
  <2>1. Head(code) = "load current"
    BY <1>1, <1>2, <1>10, ResetAccess
  <2>2. step' = step /\ code' = Tail(code) /\ current'[of] = target'[of]
    BY <2>1, StoreIs DEF CallInv
  <2>3. Halted'
    BY <1>1, <1>2, <1>10, <2>2 DEF Halted
  <2> QED
    BY <1>5, <1>10, <2>2, <2>3
<1>11. CASE n = 1
  <2>1. Head(code) = "run"
    BY <1>1, <1>2, <1>11, ResetAccess
  <2> QED
    BY <1>3, <1>4, <1>11, <2>1, RunIs
<1> QED
  BY <1>3, <1>6, <1>8, <1>9, <1>10, <1>11

\* From one access of a stop to the next.
LEMMA StopGoesOn ==
  ASSUME CallInv, Inv, Access, NEW n \in Nat, Stopping(n)
  PROVE  Calling'
<1>1. /\ code \in Seq(Accesses) /\ code # <<>> /\ of \in Timer /\ of' = of
      /\ step \in [Timer -> {"stop", "running", "remove"}] /\ code' \in Seq(Accesses)
  BY AccessTypes DEF CallInv, CallTypes
<1>2. Rest(code, StopCode, 3, n) /\ (n <= 2 => Halted)
  BY DEF Stopping
<1>3. /\ n \in 1..3
      /\ n = 1 => Tail(code) = <<>>
      /\ n # 1 => Rest(Tail(code), StopCode, 3, n - 1)
  BY <1>1, <1>2, StopAccess
<1>4. CASE code' = <<>>
  BY <1>4 DEF Calling
<1>5. ASSUME n # 1, code' = Tail(code), Halted' PROVE Calling'
  <2>1. Rest(code', StopCode, 3, n - 1) /\ n - 1 \in Nat
    BY <1>3, <1>5
  <2>2. Stopping(n - 1)'
    BY <1>1, <1>5, <2>1 DEF Stopping
  <2> QED
    BY <2>1, <2>2 DEF Calling
<1>6. Head(code) \in {"halt", "tear current", "clear current"} /\ (n = 3 => Head(code) = "halt")
  <2>1. n = 1 \/ n = 2 \/ n = 3
    BY <1>3
  <2> QED
    BY <1>1, <1>2, <2>1, StopAccess
<1>7. /\ code' = Tail(code)
      /\ step' = IF Head(code) = "halt" THEN [step EXCEPT ![of] = "stop"] ELSE step
  BY <1>6, StoreIs DEF CallInv
<1>8. CASE n = 3
  <2>1. Halted'
    BY <1>1, <1>6, <1>7, <1>8 DEF Halted
  <2> QED
    BY <1>5, <1>7, <1>8, <2>1
<1>9. CASE n = 2
  <2>1. Halted'
    BY <1>1, <1>2, <1>7, <1>9 DEF Halted
  <2> QED
    BY <1>5, <1>7, <1>9, <2>1
<1>10. CASE n = 1
  BY <1>3, <1>4, <1>7, <1>10
<1> QED
  BY <1>3, <1>8, <1>9, <1>10

\* From one access of a new target to the next, for a timer that does not run and for one held.
LEMMA OpenGoesOn ==
  ASSUME CallInv, Inv, Access, NEW n \in Nat, Opening(n)
  PROVE  Calling'
<1>1. /\ code \in Seq(Accesses) /\ code # <<>> /\ of \in Timer /\ of' = of
      /\ step \in [Timer -> {"stop", "running", "remove"}] /\ code' \in Seq(Accesses)
  BY AccessTypes DEF CallInv, CallTypes
<1>2. Rest(code, OpenCode, 2, n) /\ Halted
  BY DEF Opening
<1>3. /\ n \in 1..2
      /\ n = 1 => Tail(code) = <<>>
      /\ n # 1 => Rest(Tail(code), OpenCode, 2, n - 1)
      /\ Head(code) \in {"tear target", "store target"}
  <2>1. n \in 1..2
    BY <1>1, <1>2, OpenAccess
  <2>2. n = 1 \/ n = 2
    BY <2>1
  <2>3. Head(code) \in {"tear target", "store target"}
    BY <1>1, <1>2, <2>2, OpenAccess
  <2> QED
    BY <1>1, <1>2, <2>1, <2>3, OpenAccess
<1>4. code' = Tail(code) /\ step' = step
  BY <1>3, StoreIs DEF CallInv
<1>5. CASE n # 1
  <2>1. Rest(code', OpenCode, 2, n - 1) /\ n - 1 \in Nat
    <3>1. n \in 1..2
      BY <1>3
    <3>2. n - 1 \in Nat
      BY <3>1
    <3> QED
      BY <1>3, <1>4, <1>5, <3>2
  <2>2. Halted'
    BY <1>1, <1>2, <1>4 DEF Halted
  <2> QED
    BY <2>1, <2>2 DEF Opening, Calling
<1>6. CASE n = 1
  BY <1>3, <1>4, <1>6 DEF Calling
<1> QED
  BY <1>5, <1>6

LEMMA HeldGoesOn ==
  ASSUME CallInv, Inv, Access, NEW n \in Nat, Holding(n)
  PROVE  Calling'
<1>1. /\ code \in Seq(Accesses) /\ code # <<>> /\ of \in Timer /\ of' = of
      /\ step \in [Timer -> {"stop", "running", "remove"}] /\ code' \in Seq(Accesses)
  BY AccessTypes DEF CallInv, CallTypes
<1>2. Rest(code, HeldCode, 4, n) /\ (n <= 3 => Halted) /\ (current[of] # 0 => Right(of))
  BY DEF Holding
<1>3. /\ n \in 1..4
      /\ n = 1 => Tail(code) = <<>>
      /\ n # 1 => Rest(Tail(code), HeldCode, 4, n - 1)
  BY <1>1, <1>2, HeldAccess
<1>4. CASE n = 1
  <2>1. Head(code) = "release"
    BY <1>1, <1>2, <1>4, HeldAccess
  <2> QED
    BY <1>3, <1>4, <2>1, ReleaseIs DEF Calling
<1>5. CASE n # 1
  <2>1. n = 4 \/ n = 3 \/ n = 2
    BY <1>3, <1>5
  <2>2. Head(code) \in {"halt", "tear target", "store target"} /\ (n = 4 => Head(code) = "halt")
    BY <1>1, <1>2, <2>1, HeldAccess
  <2>3. /\ code' = Tail(code) /\ UNCHANGED <<current, goal, counted>>
        /\ step' = IF Head(code) = "halt" THEN [step EXCEPT ![of] = "stop"] ELSE step
    BY <2>2, StoreIs DEF CallInv
  <2>4. Halted'
    <3>1. n = 4 \/ n <= 3
      BY <2>1
    <3>2. Head(code) = "halt" \/ Halted
      BY <1>2, <2>2, <3>1
    <3> QED
      BY <1>1, <2>3, <3>2 DEF Halted
  <2>5. current'[of'] # 0 => Right(of)'
    BY <1>1, <1>2, <2>3 DEF Right
  <2>6. Rest(code', HeldCode, 4, n - 1) /\ n - 1 \in Nat
    BY <1>3, <1>5, <2>3
  <2>7. Holding(n - 1)'
    BY <1>1, <2>4, <2>5, <2>6 DEF Holding
  <2> QED
    BY <2>6, <2>7 DEF Calling
<1> QED
  BY <1>4, <1>5

\* An access keeps what is known of the calls.
LEMMA AccessGoesOn == ASSUME CallInv, Inv, Access PROVE Calling'
<1>1. code # <<>>
  BY DEF Access
<1>2. PICK n \in Nat : Starting(n) \/ Resetting(n) \/ Stopping(n) \/ Opening(n) \/ Holding(n)
  BY <1>1 DEF CallInv, Calling
<1> QED
  BY <1>2, StartGoesOn, ResetGoesOn, StopGoesOn, OpenGoesOn, HeldGoesOn

\* What is known at the accesses of a call.
LEMMA CallAt ==
  ASSUME CallTypes, Calling, code # <<>>
  PROVE  /\ Head(code) = "run" => current[of] = target[of]
         /\ Head(code) = "release" => (current[of] # 0 => Right(of))
         /\ Head(code) \in {"tear target", "store target", "tear current", "load current",
                            "clear current"} => Halted
<1>1. PICK n \in Nat : Starting(n) \/ Resetting(n) \/ Stopping(n) \/ Opening(n) \/ Holding(n)
  BY DEF Calling
<1>2. code \in Seq(Accesses)
  BY DEF CallTypes
<1>3. CASE Starting(n)
  <2>1. n \in 1..8
    BY <1>2, <1>3, StartAccess DEF Starting
  <2>2. n = 1 \/ n = 2 \/ n = 3 \/ n = 4 \/ n = 5 \/ n = 6 \/ n = 7 \/ n = 8
    BY <2>1
  <2>3. n <= 5 \/ n = 6 \/ n = 7 \/ n = 8
    BY <2>1
  <2> QED
    BY <1>2, <1>3, <2>2, <2>3, StartAccess DEF Starting
<1>4. CASE Resetting(n)
  <2>1. n \in 1..5
    BY <1>2, <1>4, ResetAccess DEF Resetting
  <2>2. n = 1 \/ n = 2 \/ n = 3 \/ n = 4 \/ n = 5
    BY <2>1
  <2>3. n <= 3 \/ n = 4 \/ n = 5
    BY <2>1
  <2> QED
    BY <1>2, <1>4, <2>2, <2>3, ResetAccess DEF Resetting
<1>5. CASE Stopping(n)
  <2>1. n \in 1..3
    BY <1>2, <1>5, StopAccess DEF Stopping
  <2>2. n = 1 \/ n = 2 \/ n = 3
    BY <2>1
  <2>3. n <= 2 \/ n = 3
    BY <2>1
  <2> QED
    BY <1>2, <1>5, <2>2, <2>3, StopAccess DEF Stopping
<1>6. CASE Opening(n)
  <2>1. n \in 1..2
    BY <1>2, <1>6, OpenAccess DEF Opening
  <2>2. n = 1 \/ n = 2
    BY <2>1
  <2> QED
    BY <1>2, <1>6, <2>2, OpenAccess DEF Opening
<1>7. CASE Holding(n)
  <2>1. n \in 1..4
    BY <1>2, <1>7, HeldAccess DEF Holding
  <2>2. n = 1 \/ n = 2 \/ n = 3 \/ n = 4
    BY <2>1
  <2>3. n <= 3 \/ n = 4
    BY <2>1
  <2> QED
    BY <1>2, <1>7, <2>2, <2>3, HeldAccess DEF Holding
<1> QED
  BY <1>1, <1>3, <1>4, <1>5, <1>6, <1>7

\* The two halves of the store of a target follow each other.
LEMMA TornFirst ==
  ASSUME CallTypes, Calling, code # <<>>
  PROVE  Head(code) = "tear target" => Tail(code) # <<>> /\ Head(Tail(code)) = "store target"
<1>1. PICK n \in Nat : Starting(n) \/ Resetting(n) \/ Stopping(n) \/ Opening(n) \/ Holding(n)
  BY DEF Calling
<1>2. code \in Seq(Accesses)
  BY DEF CallTypes
<1>3. CASE Starting(n)
  <2>1. n \in 1..8
    BY <1>2, <1>3, StartAccess DEF Starting
  <2>2. n = 1 \/ n = 2 \/ n = 3 \/ n = 4 \/ n = 5 \/ n = 6 \/ n = 7 \/ n = 8
    BY <2>1
  <2>3. Head(code) = "tear target" => n = 5
    BY <1>2, <1>3, <2>2, StartAccess DEF Starting
  <2>4. ASSUME n = 5 PROVE Tail(code) # <<>> /\ Head(Tail(code)) = "store target"
    <3>1. n - 1 = 4 /\ n - 1 \in Nat /\ n # 1
      BY <2>4
    <3>2. Tail(code) \in Seq(Accesses) /\ Rest(Tail(code), StartCode, 8, n - 1)
      BY <1>2, <1>3, <3>1, StartAccess DEF Starting
    <3> QED
      BY <3>1, <3>2, StartAccess
  <2> QED
    BY <2>3, <2>4
<1>4. CASE Resetting(n)
  <2>1. n \in 1..5
    BY <1>2, <1>4, ResetAccess DEF Resetting
  <2>2. n = 1 \/ n = 2 \/ n = 3 \/ n = 4 \/ n = 5
    BY <2>1
  <2> QED
    BY <1>2, <1>4, <2>2, ResetAccess DEF Resetting
<1>5. CASE Stopping(n)
  <2>1. n \in 1..3
    BY <1>2, <1>5, StopAccess DEF Stopping
  <2>2. n = 1 \/ n = 2 \/ n = 3
    BY <2>1
  <2> QED
    BY <1>2, <1>5, <2>2, StopAccess DEF Stopping
<1>6. CASE Opening(n)
  <2>1. n \in 1..2
    BY <1>2, <1>6, OpenAccess DEF Opening
  <2>2. n = 1 \/ n = 2
    BY <2>1
  <2>3. Head(code) = "tear target" => n = 2
    BY <1>2, <1>6, <2>2, OpenAccess DEF Opening
  <2>4. ASSUME n = 2 PROVE Tail(code) # <<>> /\ Head(Tail(code)) = "store target"
    <3>1. n - 1 = 1 /\ n - 1 \in Nat /\ n # 1
      BY <2>4
    <3>2. Tail(code) \in Seq(Accesses) /\ Rest(Tail(code), OpenCode, 2, n - 1)
      BY <1>2, <1>6, <3>1, OpenAccess DEF Opening
    <3> QED
      BY <3>1, <3>2, OpenAccess
  <2> QED
    BY <2>3, <2>4
<1>7. CASE Holding(n)
  <2>1. n \in 1..4
    BY <1>2, <1>7, HeldAccess DEF Holding
  <2>2. n = 1 \/ n = 2 \/ n = 3 \/ n = 4
    BY <2>1
  <2>3. Head(code) = "tear target" => n = 3
    BY <1>2, <1>7, <2>2, HeldAccess DEF Holding
  <2>4. ASSUME n = 3 PROVE Tail(code) # <<>> /\ Head(Tail(code)) = "store target"
    <3>1. n - 1 = 2 /\ n - 1 \in Nat /\ n # 1
      BY <2>4
    <3>2. Tail(code) \in Seq(Accesses) /\ Rest(Tail(code), HeldCode, 4, n - 1)
      BY <1>2, <1>7, <3>1, HeldAccess DEF Holding
    <3> QED
      BY <3>1, <3>2, HeldAccess
  <2> QED
    BY <2>3, <2>4
<1> QED
  BY <1>1, <1>3, <1>4, <1>5, <1>6, <1>7

\* An access keeps the target, and the count of a timer that runs.
LEMMA AccessTargets == ASSUME CallInv, Inv, Access PROVE Targeted' /\ CallTypes' /\ RemainIsRight'
<1> USE DEF CallInv
<1>1. /\ code \in Seq(Accesses) /\ code # <<>> /\ of \in Timer /\ of \in ToSet(list)
      /\ of' = of /\ with' = with /\ list' = list /\ code' \in Seq(Accesses)
  BY AccessTypes
<1>2. /\ step \in [Timer -> {"stop", "running", "remove"}]
      /\ target \in [Timer -> Int] /\ current \in [Timer -> Int] /\ asked \in [Timer -> Int]
      /\ goal \in [Timer -> Int] /\ counted \in [Timer -> Int] /\ with \in Int
  BY DEF CallTypes
<1>3. CASE Head(code) \in {"removed?", "event?"}
  <2>1. UNCHANGED <<step, target, current, asked, goal, counted>>
    BY <1>3, CheckIs
  <2>2. CallTypes'
    BY <1>1, <1>2, <2>1 DEF CallTypes
  <2>3. Targeted'
    BY <1>3, <2>1 DEF Targeted
  <2>4. RemainIsRight'
    BY <2>1 DEF RemainIsRight
  <2> QED
    BY <2>2, <2>3, <2>4
<1>4. CASE Head(code) = "run"
  <2>1. /\ step' = [step EXCEPT ![of] = "running"] /\ goal' = [goal EXCEPT ![of] = asked[of]]
        /\ counted' = [counted EXCEPT ![of] = 0] /\ UNCHANGED <<target, current, asked>>
    BY <1>4, RunIs
  <2>2. CallTypes'
    <3>1. asked[of] \in Int /\ 0 \in Int
      BY <1>1, <1>2, TornIs
    <3>2. goal' \in [Timer -> Int] /\ counted' \in [Timer -> Int]
      BY <1>1, <1>2, <2>1, <3>1
    <3>3. step' \in [Timer -> {"stop", "running", "remove"}]
      BY <1>1, <1>2, <2>1
    <3> QED
      BY <1>1, <1>2, <2>1, <3>2, <3>3 DEF CallTypes
  <2>3. Targeted'
    BY <1>4, <2>1 DEF Targeted
  <2>4. current[of] = asked[of]
    <3>3. current[of] = target[of]
      BY <1>1, <1>4, CallAt
    <3>4. target[of] = asked[of]
      BY <1>1, <1>4 DEF Targeted
    <3> QED
      BY <3>3, <3>4
  <2>5. RemainIsRight'
    <3> SUFFICES ASSUME NEW t \in Timer, step'[t] = "running"
                 PROVE  current'[t] = goal'[t] - counted'[t]
      BY DEF RemainIsRight
    <3>1. CASE t = of
      <4>1. goal'[t] = asked[of] /\ counted'[t] = 0 /\ current'[t] = asked[of]
        BY <1>1, <1>2, <2>1, <2>4, <3>1
      <4>2. asked[of] \in Int
        BY <1>1, <1>2
      <4>3. asked[of] - 0 = asked[of]
        BY <4>2
      <4> QED
        BY <4>1, <4>3
    <3>2. CASE t # of
      BY <1>1, <1>2, <2>1, <3>2 DEF RemainIsRight
    <3> QED
      BY <3>1, <3>2
  <2> QED
    BY <2>2, <2>3, <2>5
<1>5. CASE Head(code) = "release"
  <2>1. /\ step' = IF current[of] # 0 THEN [step EXCEPT ![of] = "running"] ELSE step
        /\ UNCHANGED <<target, current, asked, goal, counted>>
    BY <1>5, ReleaseIs
  <2>2. CallTypes'
    <3>1. step' \in [Timer -> {"stop", "running", "remove"}]
      BY <1>1, <1>2, <2>1
    <3> QED
      BY <1>1, <1>2, <2>1, <3>1 DEF CallTypes
  <2>3. Targeted'
    BY <1>5, <2>1 DEF Targeted
  <2>4. current[of] # 0 => Right(of)
    BY <1>1, <1>5, CallAt
  <2>5. RemainIsRight'
    BY <1>1, <1>2, <2>1, <2>4 DEF RemainIsRight, Right
  <2> QED
    BY <2>2, <2>3, <2>5
<1>6. CASE Head(code) \in {"halt", "tear target", "store target", "tear current", "load current",
                         "clear current"}
  <2>1. /\ target' \in [Timer -> Int] /\ current' \in [Timer -> Int] /\ asked' \in [Timer -> Int]
        /\ UNCHANGED <<goal, counted>> /\ code' = Tail(code)
        /\ step' = IF Head(code) = "halt" THEN [step EXCEPT ![of] = "stop"] ELSE step
        /\ \A t \in Timer : t # of => target'[t] = target[t] /\ current'[t] = current[t]
                                      /\ asked'[t] = asked[t]
    BY <1>6, StoreIs
  <2>2. step'[of] # "running" /\ step' \in [Timer -> {"stop", "running", "remove"}]
    <3>1. Head(code) = "halt" \/ Halted
      BY <1>1, <1>6, CallAt
    <3> QED
      BY <1>1, <1>2, <2>1, <3>1 DEF Halted
  <2>3. CallTypes'
    BY <1>1, <1>2, <2>1, <2>2 DEF CallTypes
  <2>4. \A t \in Timer : t # of => step'[t] = step[t]
    BY <1>1, <1>2, <2>1
  <2>5. RemainIsRight'
    BY <1>1, <2>1, <2>2, <2>4 DEF RemainIsRight
  <2>6. Head(code) = "tear target" => code' # <<>> /\ Head(code') = "store target"
    BY <1>1, <2>1, TornFirst
  <2>7. target'[of] = asked'[of] \/ (code' # <<>> /\ Head(code') = "store target")
    <3>1. CASE Head(code) = "tear target"
      BY <2>6, <3>1
    <3>2. CASE Head(code) = "store target"
      BY <3>2, StoreIs
    <3>3. CASE Head(code) \notin {"tear target", "store target"}
      <4>1. target' = target /\ asked' = asked
        BY <1>6, <3>3, StoreIs
      <4>2. target[of] = asked[of]
        BY <1>1, <3>3 DEF Targeted
      <4> QED
        BY <4>1, <4>2
    <3> QED
      BY <3>1, <3>2, <3>3
  <2>8. Targeted'
    BY <1>1, <2>1, <2>7 DEF Targeted
  <2> QED
    BY <2>3, <2>5, <2>8
<1>7. Head(code) \in Accesses
  BY <1>1
<1> QED
  BY <1>3, <1>4, <1>5, <1>6, <1>7 DEF Accesses

LEMMA CallInvInit == Init => CallInv
<1> SUFFICES ASSUME Init PROVE CallInv
  OBVIOUS
<1>1. /\ step = [t \in Timer |-> "stop"] /\ target = [t \in Timer |-> 0]
      /\ current = [t \in Timer |-> 0] /\ asked = [t \in Timer |-> 0] /\ goal = [t \in Timer |-> 0]
      /\ counted = [t \in Timer |-> 0] /\ code = <<>> /\ with = 0
  BY DEF Init
<1>2. CallTypes
  <2>1. 0 \in Int /\ with \in Int
    BY <1>1, TornIs
  <2>2. /\ target \in [Timer -> Int] /\ current \in [Timer -> Int] /\ asked \in [Timer -> Int]
        /\ goal \in [Timer -> Int] /\ counted \in [Timer -> Int]
    BY <1>1, <2>1, Zenon
  <2>3. step \in [Timer -> {"stop", "running", "remove"}] /\ code \in Seq(Accesses)
    BY <1>1
  <2> QED
    BY <1>1, <2>1, <2>2, <2>3 DEF CallTypes
<1> QED
  BY <1>1, <1>2 DEF CallInv, Calling, Targeted, RemainIsRight

\* The steps between the calls.
LEMMA NoCallKeeps ==
  ASSUME CallInv, CallTypes', code' = <<>>,
         \A t \in Timer : target'[t] = asked'[t],
         \A t \in Timer : step'[t] = "running" =>
                            step[t] = "running" /\ current'[t] = current[t] /\ goal'[t] = goal[t]
                                                /\ counted'[t] = counted[t]
  PROVE  CallInv'
BY DEF CallInv, Calling, Targeted, RemainIsRight

LEMMA AddGoesOn == ASSUME CallInv, Inv, Add PROVE CallInv'
<1> DEFINE t == Head(free)
<1>1. free # <<>> /\ t \in Timer /\ code = <<>> /\ code' = <<>> /\ with' = with
  BY DEF Add, AppRuns, call, Inv, PoolTypes
<1>2. /\ step' = [step EXCEPT ![t] = "stop"] /\ target' = [target EXCEPT ![t] = 0]
      /\ current' = [current EXCEPT ![t] = 0] /\ asked' = [asked EXCEPT ![t] = 0]
      /\ goal' = goal /\ counted' = counted
  BY DEF Add
<1> HIDE DEF t
<1>3. /\ step \in [Timer -> {"stop", "running", "remove"}]
      /\ target \in [Timer -> Int] /\ current \in [Timer -> Int] /\ asked \in [Timer -> Int]
      /\ goal \in [Timer -> Int] /\ counted \in [Timer -> Int] /\ with \in Int
  BY DEF CallInv, CallTypes
<1>4. /\ target' \in [Timer -> Int] /\ current' \in [Timer -> Int] /\ asked' \in [Timer -> Int]
  BY <1>1, <1>2, <1>3, TornIs
<1>5. step' \in [Timer -> {"stop", "running", "remove"}]
  BY <1>1, <1>2, <1>3
<1>6. CallTypes'
  BY <1>1, <1>2, <1>3, <1>4, <1>5, EmptySeq DEF CallTypes
<1>7. \A u \in Timer : target'[u] = asked'[u]
  BY <1>1, <1>2, <1>3 DEF CallInv, Targeted
<1>8. \A u \in Timer : step'[u] = "running" =>
                       step[u] = "running" /\ current'[u] = current[u] /\ goal'[u] = goal[u]
                                           /\ counted'[u] = counted[u]
  BY <1>1, <1>2, <1>3
<1> QED
  BY <1>1, <1>6, <1>7, <1>8, NoCallKeeps

\* A timer removed, the timers cleared, and a slot given back.
LEMMA HaltGoesOn ==
  ASSUME CallInv, code = <<>>, UNCHANGED <<code, with, target, asked, goal, counted>>,
         current' = current \/ current' = [t \in Timer |-> 0],
         step' \in [Timer -> {"stop", "running", "remove"}],
         \A t \in Timer : step'[t] = "running" => step[t] = "running" /\ current'[t] = current[t]
  PROVE  CallInv'
<1>1. CallTypes'
  <2>1. [t \in Timer |-> 0] \in [Timer -> Int]
    BY TornIs, Zenon
  <2>2. current' \in [Timer -> Int]
    BY <2>1 DEF CallInv, CallTypes
  <2> QED
    BY <2>2 DEF CallInv, CallTypes
<1>2. \A t \in Timer : target'[t] = asked'[t]
  BY DEF CallInv, Targeted
<1> QED
  BY <1>1, <1>2, NoCallKeeps

\* A call that begins.
LEMMA RestWhole ==
  ASSUME NEW d \in Seq(Accesses), Len(d) > 0
  PROVE  Rest(d, d, Len(d), Len(d))
<1>1. Len(d) \in 1..Len(d) /\ \A i \in 1..Len(d) : Len(d) - Len(d) + i = i
  OBVIOUS
<1> QED
  BY <1>1 DEF Rest

LEMMA CallsWhole ==
  /\ Rest(StartCode, StartCode, 8, 8) /\ Rest(ResetCode, ResetCode, 5, 5)
  /\ Rest(StopCode, StopCode, 3, 3) /\ Rest(Tail(StopCode), StopCode, 3, 2)
  /\ Rest(OpenCode, OpenCode, 2, 2) /\ Rest(HeldCode, HeldCode, 4, 4)
<1>a. Rest(StartCode, StartCode, 8, 8)
  <2>1. StartCode \in Seq(Accesses) /\ Len(StartCode) = 8
    BY Codes
  <2>2. Len(StartCode) > 0
    BY <2>1
  <2>3. Rest(StartCode, StartCode, Len(StartCode), Len(StartCode))
    BY <2>1, <2>2, RestWhole
  <2> QED
    BY <2>1, <2>3
<1>b. Rest(ResetCode, ResetCode, 5, 5)
  <2>1. ResetCode \in Seq(Accesses) /\ Len(ResetCode) = 5
    BY Codes
  <2>2. Len(ResetCode) > 0
    BY <2>1
  <2>3. Rest(ResetCode, ResetCode, Len(ResetCode), Len(ResetCode))
    BY <2>1, <2>2, RestWhole
  <2> QED
    BY <2>1, <2>3
<1>c. Rest(StopCode, StopCode, 3, 3)
  <2>1. StopCode \in Seq(Accesses) /\ Len(StopCode) = 3
    BY Codes
  <2>2. Len(StopCode) > 0
    BY <2>1
  <2>3. Rest(StopCode, StopCode, Len(StopCode), Len(StopCode))
    BY <2>1, <2>2, RestWhole
  <2> QED
    BY <2>1, <2>3
<1>d. Rest(OpenCode, OpenCode, 2, 2)
  <2>1. OpenCode \in Seq(Accesses) /\ Len(OpenCode) = 2
    BY Codes
  <2>2. Len(OpenCode) > 0
    BY <2>1
  <2>3. Rest(OpenCode, OpenCode, Len(OpenCode), Len(OpenCode))
    BY <2>1, <2>2, RestWhole
  <2> QED
    BY <2>1, <2>3
<1>e. Rest(HeldCode, HeldCode, 4, 4)
  <2>1. HeldCode \in Seq(Accesses) /\ Len(HeldCode) = 4
    BY Codes
  <2>2. Len(HeldCode) > 0
    BY <2>1
  <2>3. Rest(HeldCode, HeldCode, Len(HeldCode), Len(HeldCode))
    BY <2>1, <2>2, RestWhole
  <2> QED
    BY <2>1, <2>3
<1>3. 3 \in Nat /\ 3 - 1 = 2 /\ 3 # 1
  OBVIOUS
<1>4. Rest(Tail(StopCode), StopCode, 3, 3 - 1)
  BY <1>c, <1>3, Codes, StopAccess
<1> QED
  BY <1>a, <1>b, <1>c, <1>d, <1>e, <1>3, <1>4

\* A call begins.
LEMMA CallBegins ==
  ASSUME CallInv, NEW t \in ToSet(list), t \in Timer, NEW n \in Int, NEW first \in Seq(Accesses),
         Call(t, n, first),
         \/ first \in {StartCode, ResetCode, StopCode}
         \/ first = Tail(StopCode) /\ step[t] # "running"
         \/ first = OpenCode /\ step[t] # "running"
         \/ first = HeldCode /\ step[t] = "running"
  PROVE  CallInv'
<1>1. /\ code = <<>> /\ code' = first /\ of' = t /\ with' = n
      /\ UNCHANGED <<step, target, current, asked, goal, counted, list>>
  BY DEF Call, AppRuns, timers, history, pool
<1>2. CallTypes'
  BY <1>1 DEF CallInv, CallTypes
<1>3. Targeted' /\ RemainIsRight'
  BY <1>1 DEF CallInv, Targeted, RemainIsRight
<1>4. Calling'
  <2>1. CASE first = StartCode
    <3>1. Rest(first, StartCode, 8, 8)
      BY <2>1, CallsWhole
    <3>2. Starting(8)'
      BY <1>1, <3>1 DEF Starting
    <3> QED
      BY <3>2 DEF Calling
  <2>2. CASE first = ResetCode
    <3>1. Rest(first, ResetCode, 5, 5)
      BY <2>2, CallsWhole
    <3>2. Resetting(5)'
      BY <1>1, <3>1 DEF Resetting
    <3> QED
      BY <3>2 DEF Calling
  <2>3. CASE first = StopCode
    <3>1. Rest(first, StopCode, 3, 3)
      BY <2>3, CallsWhole
    <3>2. Stopping(3)'
      BY <1>1, <3>1 DEF Stopping
    <3> QED
      BY <3>2 DEF Calling
  <2>4. CASE first = Tail(StopCode) /\ step[t] # "running"
    <3>2. Rest(first, StopCode, 3, 2)
      BY <2>4, CallsWhole
    <3>3. Stopping(2)'
      BY <1>1, <2>4, <3>2 DEF Stopping, Halted
    <3> QED
      BY <3>3 DEF Calling
  <2>5. CASE first = OpenCode /\ step[t] # "running"
    <3>1. Rest(first, OpenCode, 2, 2)
      BY <2>5, CallsWhole
    <3>2. Opening(2)'
      BY <1>1, <2>5, <3>1 DEF Opening, Halted
    <3> QED
      BY <3>2 DEF Calling
  <2>6. CASE first = HeldCode /\ step[t] = "running"
    <3>1. Rest(first, HeldCode, 4, 4)
      BY <2>6, CallsWhole
    <3>2. Right(t)
      BY <2>6 DEF Right, CallInv, RemainIsRight
    <3>3. Holding(4)'
      BY <1>1, <3>1, <3>2 DEF Holding, Right
    <3> QED
      BY <3>3 DEF Calling
  <2> QED
    BY <2>1, <2>2, <2>3, <2>4, <2>5, <2>6
<1> QED
  BY <1>2, <1>3, <1>4 DEF CallInv

\* A tick of a timer that runs comes between two accesses of its call.
LEMMA TickGoesOn ==
  ASSUME Calling, UNCHANGED <<code, of>>,
         code # <<>> =>
           \/ UNCHANGED <<step[of], current[of], target[of], goal[of], counted[of]>>
           \/ ~Halted /\ (current'[of] # 0 => current'[of] = goal'[of] - counted'[of])
  PROVE  Calling'
<1> SUFFICES ASSUME code # <<>>
             PROVE  \E n \in Nat : (Starting(n) \/ Resetting(n) \/ Stopping(n) \/ Opening(n)
                                    \/ Holding(n))'
  BY DEF Calling
<1>1. PICK n \in Nat : Starting(n) \/ Resetting(n) \/ Stopping(n) \/ Opening(n) \/ Holding(n)
  BY DEF Calling
<1>2. CASE UNCHANGED <<step[of], current[of], target[of], goal[of], counted[of]>>
  BY <1>1, <1>2 DEF Starting, Resetting, Stopping, Opening, Holding, Halted, Right
<1>3. CASE ~Halted /\ (current'[of] # 0 => current'[of] = goal'[of] - counted'[of])
  <2>1. CASE Starting(n)
    <3>1. Rest(code, StartCode, 8, n) /\ ~(n <= 5)
      BY <1>3, <2>1 DEF Starting
    <3>2. n # 1
      BY <3>1
    <3>3. Starting(n)'
      BY <3>1, <3>2 DEF Starting
    <3> QED
      BY <3>3
  <2>2. CASE Resetting(n)
    <3>1. Rest(code, ResetCode, 5, n) /\ ~(n <= 3)
      BY <1>3, <2>2 DEF Resetting
    <3>2. n # 1
      BY <3>1
    <3>3. Resetting(n)'
      BY <3>1, <3>2 DEF Resetting
    <3> QED
      BY <3>3
  <2>3. CASE Stopping(n)
    <3>1. Stopping(n)'
      BY <1>3, <2>3 DEF Stopping
    <3> QED
      BY <3>1
  <2>4. CASE Opening(n)
    BY <1>3, <2>4 DEF Opening
  <2>5. CASE Holding(n)
    <3>1. Rest(code, HeldCode, 4, n) /\ ~(n <= 3)
      BY <1>3, <2>5 DEF Holding
    <3>2. Holding(n)'
      BY <1>3, <3>1 DEF Holding, Right
    <3> QED
      BY <3>2
  <2> QED
    BY <1>1, <2>1, <2>2, <2>3, <2>4, <2>5
<1> QED
  BY <1>2, <1>3

LEMMA CountGoesOn == ASSUME CallInv, Inv, TickCount, slot \in Timer PROVE CallInv'
<1>1. /\ step[slot] = "running"
      /\ current' = [current EXCEPT ![slot] = @ - 1] /\ counted' = [counted EXCEPT ![slot] = @ + 1]
      /\ UNCHANGED <<step, target, goal, asked, code, of, with, list>>
  BY DEF TickCount, pool, call
<1>2. /\ current \in [Timer -> Int] /\ counted \in [Timer -> Int] /\ goal \in [Timer -> Int]
  BY DEF CallInv, CallTypes
<1>3. current[slot] \in Int /\ counted[slot] \in Int /\ goal[slot] \in Int
  BY <1>2
<1>4. current[slot] - 1 \in Int /\ counted[slot] + 1 \in Int
  BY <1>3
<1>5. /\ current' \in [Timer -> Int] /\ counted' \in [Timer -> Int]
      /\ current'[slot] = current[slot] - 1 /\ counted'[slot] = counted[slot] + 1
      /\ \A t \in Timer : t # slot => current'[t] = current[t] /\ counted'[t] = counted[t]
  BY <1>1, <1>2, <1>4
<1>6. CallTypes'
  BY <1>1, <1>5 DEF CallInv, CallTypes
<1>7. Targeted'
  BY <1>1 DEF CallInv, Targeted
<1>8. current'[slot] = goal'[slot] - counted'[slot]
  <2>1. current[slot] = goal[slot] - counted[slot]
    BY <1>1 DEF CallInv, RemainIsRight
  <2>2. current[slot] - 1 = goal[slot] - (counted[slot] + 1)
    BY <1>3, <2>1
  <2>3. goal'[slot] = goal[slot]
    BY <1>1
  <2> QED
    BY <1>5, <2>2, <2>3
<1>9. RemainIsRight'
  BY <1>1, <1>5, <1>8 DEF CallInv, RemainIsRight
<1>10. Calling'
  <2>1. code # <<>> => of \in Timer
    BY DEF CallInv, CallTypes, Inv, PoolTypes, ToSet
  <2>2. CASE of = slot
    <3>1. ~Halted
      BY <1>1, <2>2 DEF Halted
    <3> QED
      BY <1>1, <1>8, <2>2, <3>1, TickGoesOn DEF CallInv
  <2>3. CASE of # slot
    <3>1. code # <<>> => UNCHANGED <<step[of], current[of], target[of], goal[of], counted[of]>>
      BY <1>1, <1>5, <2>1, <2>3
    <3> QED
      BY <1>1, <3>1, TickGoesOn DEF CallInv
  <2> QED
    BY <2>2, <2>3
<1> QED
  BY <1>6, <1>7, <1>9, <1>10 DEF CallInv

LEMMA FinishGoesOn == ASSUME CallInv, Inv, TickFinish, slot \in Timer PROVE CallInv'
<1> USE DEF CallInv
<1>1. PICK how \in {"restart", "stop", "remove", "none"} :
        /\ step' = [step EXCEPT ![slot] = Left(slot, how).step]
        /\ current' = [current EXCEPT ![slot] = Left(slot, how).current]
  <2>1. (IF slot \in IntoInt THEN IntCalls ELSE {"none"}) \subseteq {"restart", "stop", "remove", "none"}
    BY CallAssumption
  <2>2. \E how \in IF slot \in IntoInt THEN IntCalls ELSE {"none"} :
          /\ step' = [step EXCEPT ![slot] = Left(slot, how).step]
          /\ current' = [current EXCEPT ![slot] = Left(slot, how).current]
    BY Zenon DEF TickFinish
  <2> QED
    BY <2>1, <2>2, Zenon
<1>2. /\ step[slot] = "running"
      /\ goal' = [goal EXCEPT ![slot] = asked[slot]] /\ counted' = [counted EXCEPT ![slot] = 0]
      /\ UNCHANGED <<target, asked, code, of, with, list>>
  BY DEF TickFinish, pool, call
<1>3. /\ step \in [Timer -> {"stop", "running", "remove"}]
      /\ target \in [Timer -> Int] /\ current \in [Timer -> Int] /\ asked \in [Timer -> Int]
      /\ goal \in [Timer -> Int] /\ counted \in [Timer -> Int]
  BY DEF CallTypes
<1>4. /\ Left(slot, how).step \in {"stop", "running", "remove"}
      /\ Left(slot, how).current \in {0, target[slot]}
      /\ Left(slot, how).step = "running" => Left(slot, how).current = target[slot]
  <2>1. CASE how = "none"
    BY <2>1 DEF Left
  <2>2. CASE how = "restart"
    BY <2>2 DEF Left
  <2>3. CASE how = "stop"
    BY <2>3 DEF Left
  <2>4. CASE how = "remove"
    BY <2>4 DEF Left
  <2> QED
    BY <1>1, <2>1, <2>2, <2>3, <2>4
<1>5. target[slot] \in Int /\ asked[slot] \in Int /\ 0 \in Int /\ Left(slot, how).current \in Int
  BY <1>3, <1>4, TornIs
<1>6. /\ step' \in [Timer -> {"stop", "running", "remove"}]
      /\ current' \in [Timer -> Int] /\ goal' \in [Timer -> Int] /\ counted' \in [Timer -> Int]
      /\ step'[slot] = Left(slot, how).step /\ current'[slot] = Left(slot, how).current
      /\ goal'[slot] = asked[slot] /\ counted'[slot] = 0
      /\ \A t \in Timer : t # slot => /\ current'[t] = current[t] /\ counted'[t] = counted[t]
                                      /\ step'[t] = step[t] /\ goal'[t] = goal[t]
  BY <1>1, <1>2, <1>3, <1>4, <1>5
<1>7. CallTypes'
  BY <1>2, <1>6 DEF CallTypes
<1>8. target[slot] = asked[slot]
  <2> SUFFICES ASSUME slot = of, code # <<>>, Head(code) = "store target" PROVE FALSE
    BY DEF Targeted
  <2>1. Halted
    BY CallAt
  <2> QED
    BY <1>2, <2>1 DEF Halted
<1>9. asked[slot] - 0 = asked[slot]
  BY <1>5
<1>10. current'[slot] # 0 => current'[slot] = goal'[slot] - counted'[slot]
  BY <1>4, <1>6, <1>8, <1>9
<1>11. step'[slot] = "running" => current'[slot] = goal'[slot] - counted'[slot]
  BY <1>4, <1>6, <1>8, <1>9
<1>12. Targeted'
  BY <1>2 DEF Targeted
<1>13. RemainIsRight'
  BY <1>6, <1>11 DEF RemainIsRight
<1>14. Calling'
  <2>1. code # <<>> => of \in Timer
    BY DEF CallTypes, Inv, PoolTypes, ToSet
  <2>2. CASE of = slot
    <3>1. ~Halted
      BY <1>2, <2>2 DEF Halted
    <3> QED
      BY <1>2, <1>10, <2>2, <3>1, TickGoesOn
  <2>3. CASE of # slot
    <3>1. code # <<>> => UNCHANGED <<step[of], current[of], target[of], goal[of], counted[of]>>
      BY <1>2, <1>6, <2>1, <2>3
    <3> QED
      BY <1>2, <3>1, TickGoesOn
  <2> QED
    BY <2>2, <2>3
<1> QED
  BY <1>7, <1>12, <1>13, <1>14

\* The slots the tick handler visits.
SlotTypes == slot \in 0..MaxCount

LEMMA SlotStep == SlotTypes /\ [Next]_vars => SlotTypes'
<1> SUFFICES ASSUME SlotTypes, [Next]_vars PROVE SlotTypes'
  OBVIOUS
<1>1. CASE slot' = slot
  BY <1>1 DEF SlotTypes
<1>2. CASE TickBegin
  BY <1>2, MaxAssumption DEF TickBegin, SlotTypes
<1>3. CASE slot # 0 /\ TickNext
  BY <1>3, MaxAssumption DEF TickNext, SlotTypes
<1>4. CASE Tick
  BY <1>3, <1>4 DEF Tick, TickPass, TickIdle, TickCount, TickFinish
<1>5. CASE Walk
  BY <1>1, <1>5 DEF Walk, WalkBegin, WalkFree, WalkStep, WalkPass, WalkEvent, WalkReturn
<1>6. CASE Access \/ Add \/ Clear \/ Reopen
  BY <1>1, <1>6 DEF Access, Add, Clear, Reopen
<1>7. ASSUME NEW t, RemoveTimer(t) PROVE slot' = slot
  BY <1>7 DEF RemoveTimer
<1>8. ASSUME NEW t, NEW n, NEW first, Call(t, n, first) PROVE slot' = slot
  BY <1>8 DEF Call
<1>9. CASE UNCHANGED vars
  BY <1>1, <1>9 DEF vars
<1> QED
  BY <1>1, <1>2, <1>4, <1>5, <1>6, <1>7, <1>8, <1>9 DEF Next, SetTarget, Stop

\* The steps that leave the timers' counts and the calls alone.
LEMMA CallStays ==
  ASSUME CallInv, code # <<>> => list' = list,
         UNCHANGED <<step, target, current, asked, goal, counted, code, of, with>>
  PROVE  CallInv'
<1> USE DEF CallInv
<1>1. CallTypes'
  BY DEF CallTypes
<1>2. Targeted' /\ RemainIsRight'
  BY DEF Targeted, RemainIsRight
<1>3. Calling'
  BY TickGoesOn
<1> QED
  BY <1>1, <1>2, <1>3

LEMMA WalkGoesOn == ASSUME CallInv, Inv, Walk PROVE CallInv'
<1>1. CASE WalkFree
  <2>1. code = <<>> /\ UNCHANGED <<code, with, target, asked, goal, counted, current>>
    BY <1>1 DEF WalkFree, WalkRuns, call, history
  <2>2. at \in Timer /\ step' = [step EXCEPT ![at] = "stop"]
    BY <1>1 DEF WalkFree, Inv, WalkInList, PoolTypes, ToSet
  <2>3. step \in [Timer -> {"stop", "running", "remove"}]
    BY DEF CallInv, CallTypes
  <2>4. /\ step' \in [Timer -> {"stop", "running", "remove"}]
        /\ \A t \in Timer : step'[t] = "running" => step[t] = "running"
    BY <2>2, <2>3
  <2> QED
    BY <2>1, <2>4, HaltGoesOn
<1>2. CASE WalkBegin \/ WalkStep \/ WalkPass \/ WalkEvent \/ WalkReturn
  <2>1. /\ UNCHANGED <<step, target, current, asked, goal, counted>>
        /\ UNCHANGED <<code, of, with>> /\ list' = list
    BY <1>2 DEF WalkBegin, WalkStep, WalkPass, WalkEvent, WalkReturn, timers, call, history, pool
  <2> QED
    BY <2>1, CallStays
<1> QED
  BY <1>1, <1>2 DEF Walk

LEMMA CallInvStep == Inv /\ SlotTypes /\ CallInv /\ [Next]_vars => CallInv'
<1> SUFFICES ASSUME Inv, SlotTypes, CallInv, [Next]_vars PROVE CallInv'
  OBVIOUS
<1>0. step \in [Timer -> {"stop", "running", "remove"}]
  BY DEF CallInv, CallTypes
<1>1. CASE Add
  BY <1>1, AddGoesOn
<1>2. \A t \in ToSet(list) : t \in Timer
  BY DEF Inv, PoolTypes, ToSet
<1>3. ASSUME NEW t \in ToSet(list),
             \/ RemoveTimer(t) \/ Stop(t) \/ Call(t, 0, ResetCode)
             \/ \E n \in Targets : Call(t, n, StartCode)
             \/ \E n \in NewTargets : SetTarget(t, n)
      PROVE  CallInv'
  <2>0. t \in Timer
    BY <1>2
  <2>1. CASE RemoveTimer(t)
    <3>1. code = <<>> /\ UNCHANGED <<code, with, target, asked, goal, counted, current>>
      BY <2>1 DEF RemoveTimer, AppRuns, call
    <3>2. step' = [step EXCEPT ![t] = "remove"]
      BY <2>1 DEF RemoveTimer
    <3>3. /\ step' \in [Timer -> {"stop", "running", "remove"}]
          /\ \A u \in Timer : step'[u] = "running" => step[u] = "running"
      BY <1>0, <2>0, <3>2
    <3> QED
      BY <3>1, <3>3, HaltGoesOn
  <2>2. CASE Stop(t)
    <3>1. 0 \in Int /\ StopCode \in Seq(Accesses) /\ Tail(StopCode) \in Seq(Accesses)
      <4>1. StopCode \in Seq(Accesses) /\ Len(StopCode) = 3
        BY Codes
      <4>2. StopCode # <<>>
        BY <4>1
      <4> QED
        BY <4>1, <4>2, TailIs, TornIs
    <3>2. \/ Call(t, 0, StopCode)
          \/ step[t] # "running" /\ Call(t, 0, Tail(StopCode))
      BY <2>2 DEF Stop
    <3>3. CASE Call(t, 0, StopCode)
      BY <2>0, <3>1, <3>3, CallBegins
    <3>4. CASE step[t] # "running" /\ Call(t, 0, Tail(StopCode))
      BY <2>0, <3>1, <3>4, CallBegins
    <3> QED
      BY <3>2, <3>3, <3>4
  <2>3. CASE Call(t, 0, ResetCode)
    <3>1. 0 \in Int /\ ResetCode \in Seq(Accesses)
      BY Codes, TornIs
    <3> QED
      BY <2>0, <2>3, <3>1, CallBegins
  <2>4. ASSUME NEW n \in Targets, Call(t, n, StartCode) PROVE CallInv'
    <3>0. n \in Int
      BY TargetAssumption
    <3>1. StartCode \in Seq(Accesses)
      BY Codes
    <3> QED
      BY <2>0, <2>4, <3>0, <3>1, CallBegins
  <2>5. ASSUME NEW n \in NewTargets, SetTarget(t, n) PROVE CallInv'
    <3>0. n \in Int
      BY TargetAssumption
    <3>1. OpenCode \in Seq(Accesses) /\ HeldCode \in Seq(Accesses)
      BY Codes
    <3>2. \/ step[t] = "running" /\ Call(t, n, HeldCode)
          \/ step[t] # "running" /\ Call(t, n, OpenCode)
      BY <2>5 DEF SetTarget
    <3>3. CASE step[t] = "running" /\ Call(t, n, HeldCode)
      BY <2>0, <3>0, <3>1, <3>3, CallBegins
    <3>4. CASE step[t] # "running" /\ Call(t, n, OpenCode)
      BY <2>0, <3>0, <3>1, <3>4, CallBegins
    <3> QED
      BY <3>2, <3>3, <3>4
  <2> QED
    BY <1>3, <2>1, <2>2, <2>3, <2>4, <2>5
<1>4. CASE Clear
  <2>1. /\ code = <<>> /\ UNCHANGED <<code, with, target, asked, goal, counted>>
        /\ current' = [t \in Timer |-> 0] /\ step' = [t \in Timer |-> "stop"]
    BY <1>4 DEF Clear, AppRuns, call
  <2>2. /\ step' \in [Timer -> {"stop", "running", "remove"}]
        /\ \A t \in Timer : step'[t] # "running"
    BY <2>1
  <2> QED
    BY <2>1, <2>2, HaltGoesOn
<1>5. CASE Reopen \/ TickBegin \/ TickPass \/ TickIdle \/ UNCHANGED vars
  <2>1. /\ UNCHANGED <<step, target, current, asked, goal, counted>>
        /\ UNCHANGED <<code, of, with>> /\ list' = list
    BY <1>5 DEF Reopen, TickBegin, TickPass, TickIdle, vars, timers, call, history, pool
  <2> QED
    BY <2>1, CallStays
<1>6. CASE Access
  BY <1>6, AccessGoesOn, AccessTargets DEF CallInv
<1>7. CASE Walk
  BY <1>7, WalkGoesOn
<1>8. CASE TickCount \/ TickFinish
  <2>1. slot # 0
    BY <1>8 DEF TickCount, TickFinish
  <2>2. slot \in Timer
    BY <2>1, MaxAssumption DEF SlotTypes, Timer
  <2> QED
    BY <1>8, <2>2, CountGoesOn, FinishGoesOn
<1> QED
  BY <1>1, <1>3, <1>4, <1>5, <1>6, <1>7, <1>8 DEF Next, Tick

\* Whatever the main context was writing when a tick came, in any order of accesses and ticks and
\* for any tick counts: a timer that runs has left the count asked for before its period began,
\* less the ticks since then.
THEOREM RemainsRight == Spec => []RemainIsRight
<1>1. Init => Inv /\ SlotTypes /\ CallInv
  <2>1. Init => SlotTypes
    BY MaxAssumption DEF Init, SlotTypes
  <2> QED
    BY <2>1, InvInit, CallInvInit
<1>2. Inv /\ SlotTypes /\ CallInv /\ [Next]_vars => (Inv /\ SlotTypes /\ CallInv)'
  BY InvStep, SlotStep, CallInvStep
<1>3. CallInv => RemainIsRight
  BY DEF CallInv
<1> QED
  BY <1>1, <1>2, <1>3, PTL DEF Spec

-----------------------------------------------------------------------------
(* A timer that was removed.                                                 *)

\* It is marked as long as it is in the list; a call on it stops at its mark or writes counts that
\* nobody reads; and the walk is not about to look at its event.
Idle ==
  \/ Rest(code, StartCode, 8, 8) \/ Rest(code, ResetCode, 5, 5)
  \/ \E n \in {1, 2} : Rest(code, StopCode, 3, n) \/ Rest(code, OpenCode, 2, n)
Marks == \A t \in gone : step[t] # "running" /\ (t \in ToSet(list) => step[t] = "remove")
RestInv ==
  /\ gone \subseteq Timer /\ DOMAIN ran = Timer /\ Marks
  /\ code # <<>> /\ of \in gone => Idle
  /\ wpc = "event" => at \notin gone

LEMMA IdleAt ==
  ASSUME code \in Seq(Accesses), Idle
  PROVE  /\ Head(code) \in {"removed?", "tear current", "clear current", "tear target", "store target"}
         /\ Head(code) # "removed?" =>
              \/ Tail(code) = <<>>
              \/ \E n \in {1, 2} : Rest(Tail(code), StopCode, 3, n) \/ Rest(Tail(code), OpenCode, 2, n)
<1>1. 1 \in Nat /\ 2 \in Nat /\ 5 \in Nat /\ 8 \in Nat /\ 2 - 1 = 1 /\ 2 # 1
  OBVIOUS
<1>2. CASE Rest(code, StartCode, 8, 8)
  <2>1. Head(code) = "removed?"
    BY <1>1, <1>2, StartAccess
  <2> QED
    BY <2>1
<1>3. CASE Rest(code, ResetCode, 5, 5)
  <2>1. Head(code) = "removed?"
    BY <1>1, <1>3, ResetAccess
  <2> QED
    BY <2>1
<1>4. CASE Rest(code, StopCode, 3, 1)
  <2>1. Head(code) = "clear current" /\ Tail(code) = <<>>
    BY <1>1, <1>4, StopAccess
  <2> QED
    BY <2>1
<1>5. CASE Rest(code, StopCode, 3, 2)
  <2>1. Head(code) = "tear current" /\ Rest(Tail(code), StopCode, 3, 2 - 1)
    BY <1>1, <1>5, StopAccess
  <2>2. Rest(Tail(code), StopCode, 3, 1)
    BY <1>1, <2>1
  <2> QED
    BY <2>1, <2>2
<1>6. CASE Rest(code, OpenCode, 2, 1)
  <2>1. Head(code) = "store target" /\ Tail(code) = <<>>
    BY <1>1, <1>6, OpenAccess
  <2> QED
    BY <2>1
<1>7. CASE Rest(code, OpenCode, 2, 2)
  <2>1. Head(code) = "tear target" /\ Rest(Tail(code), OpenCode, 2, 2 - 1)
    BY <1>1, <1>7, OpenAccess
  <2>2. Rest(Tail(code), OpenCode, 2, 1)
    BY <1>1, <2>1
  <2> QED
    BY <2>1, <2>2
<1> QED
  BY <1>2, <1>3, <1>4, <1>5, <1>6, <1>7 DEF Idle

\* An access of a call leaves a timer that was removed as it is.
LEMMA AccessRests ==
  ASSUME Inv, CallInv, RestInv, Access
  PROVE  RestInv' /\ RemovedRests
<1>1. /\ code \in Seq(Accesses) /\ code # <<>> /\ of \in Timer /\ of \in ToSet(list)
      /\ of' = of /\ list' = list /\ gone' = gone
  BY AccessTypes DEF CallInv
<1>2. UNCHANGED <<wpc, at>>
  BY DEF Access, walk
<1>3. /\ step \in [Timer -> {"stop", "running", "remove"}]
      /\ gone \subseteq Timer /\ DOMAIN ran = Timer
  BY DEF CallInv, CallTypes, RestInv
<1>4. CASE of \in gone
  <2>1. Idle /\ step[of] = "remove"
    BY <1>1, <1>4 DEF RestInv, Marks
  <2>2. CASE Head(code) = "removed?"
    <3>1. step' = step /\ ran' = ran /\ code' = <<>>
      BY <2>1, <2>2, CheckIs
    <3> QED
      BY <1>1, <1>2, <3>1 DEF RestInv, Marks, RemovedRests
  <2>3. CASE Head(code) # "removed?"
    <3>1. Head(code) \in {"tear current", "clear current", "tear target", "store target"}
      BY <1>1, <2>1, <2>3, IdleAt
    <3>2. step' = step /\ ran' = ran /\ code' = Tail(code)
      BY <3>1, StoreIs DEF CallInv
    <3>3. code' = <<>> \/ Idle'
      BY <1>1, <2>1, <2>3, <3>2, IdleAt DEF Idle
    <3> QED
      BY <1>1, <1>2, <3>2, <3>3 DEF RestInv, Marks, RemovedRests
  <2> QED
    BY <2>2, <2>3
<1>5. CASE of \notin gone
  <2>1. DOMAIN ran' = Timer /\ \A t \in Timer : t # of => ran'[t] = ran[t]
    BY <1>1, <1>3 DEF Access, RemovedCheck, EventCheck, Store, Run, Release, history
  <2>2. \A t \in Timer : t # of => step'[t] = step[t]
    BY <1>1, <1>3 DEF Access, RemovedCheck, EventCheck, Store, Run, Release, timers
  <2>3. RestInv'
    BY <1>1, <1>2, <1>3, <1>5, <2>1, <2>2 DEF RestInv, Marks
  <2> QED
    BY <1>3, <1>5, <2>1, <2>2, <2>3 DEF RestInv, Marks, RemovedRests
<1> QED
  BY <1>4, <1>5

\* Between the calls.
LEMMA NoCallRests ==
  ASSUME RestInv, code' = <<>> \/ UNCHANGED <<code, of>>, gone' \subseteq Timer, DOMAIN ran' = Timer,
         gone' = gone \/ code' = <<>>,
         \A t \in gone' : step'[t] # "running" /\ (t \in ToSet(list') => step'[t] = "remove"),
         wpc' = "event" => at' \notin gone'
  PROVE  RestInv'
BY DEF RestInv, Marks, Idle

LEMMA AddRests == ASSUME Inv, CallInv, RestInv, Add PROVE RestInv' /\ RemovedRests
<1> DEFINE t == Head(free)
<1>1. /\ free # <<>> /\ t \in Timer /\ code' = <<>> /\ list \in Seq(Timer)
      /\ wpc' = wpc /\ wpc \in {"idle", "call"} /\ ran' = ran
  BY DEF Add, AppRuns, call, walk, Inv, PoolTypes
<1>2. /\ step' = [step EXCEPT ![t] = "stop"] /\ gone' = gone \ {t} /\ list' = <<t>> \o list
  BY DEF Add
<1> HIDE DEF t
<1>3. ToSet(list') = {t} \cup ToSet(list)
  BY <1>1, <1>2, PrependIs
<1>4. /\ step \in [Timer -> {"stop", "running", "remove"}] /\ gone \subseteq Timer
      /\ DOMAIN ran = Timer
  BY DEF CallInv, CallTypes, RestInv
<1>5. \A u \in gone' : step'[u] # "running" /\ (u \in ToSet(list') => step'[u] = "remove")
  BY <1>1, <1>2, <1>3, <1>4 DEF RestInv, Marks
<1>6. RestInv'
  BY <1>1, <1>2, <1>4, <1>5, NoCallRests
<1>7. RemovedRests
  BY <1>1, <1>2, <1>4 DEF RestInv, Marks, RemovedRests
<1> QED
  BY <1>6, <1>7

\* The slot of a timer that was removed is given back: it is no longer in the list.
LEMMA FreeRests == ASSUME Inv, CallInv, RestInv, WalkFree PROVE RestInv' /\ RemovedRests
<1>1. /\ code = <<>> /\ code' = <<>> /\ gone' = gone /\ ran' = ran /\ wpc' \in {"idle", "step"}
      /\ list' = RemoveAt(list, Place(at)) /\ free' = <<at>> \o free
      /\ step' = [step EXCEPT ![at] = "stop"] /\ at \in ToSet(list)
      /\ list \in Seq(Timer) /\ free \in Seq(Timer)
  BY DEF WalkFree, WalkRuns, call, history, GoTo, Inv, WalkInList, PoolTypes
<1>2. at \in Timer
  BY <1>1 DEF ToSet
<1>3. Place(at) \in DOMAIN list
  BY <1>1, PlaceIs DEF Inv
<1>4. /\ \A i \in DOMAIN list' : list'[i] \in ToSet(list)
  <2> DEFINE p == Place(at)
  <2>1. p \in DOMAIN list
    BY <1>3
  <2>2. list' = RemoveAt(list, p)
    BY <1>1
  <2> HIDE DEF p
  <2>3. /\ list' \in Seq(Timer) /\ Len(list') = Len(list) - 1
        /\ \A i \in DOMAIN list' : list'[i] = IF i < p THEN list[i] ELSE list[i + 1]
    BY <1>1, <2>1, <2>2, RemoveAtIs
  <2>4. \A i \in DOMAIN list' : \E j \in DOMAIN list :
          list'[i] = list[j] /\ j = IF i < p THEN i ELSE i + 1
    BY <1>1, <2>1, <2>3
  <2> QED
    BY <2>4 DEF ToSet
<1>5. at \notin ToSet(list')
  <2>1. \A i \in DOMAIN list', j \in DOMAIN free' : list'[i] # free'[j]
    BY FreeKeeps DEF Inv, SlotsOnce
  <2>2. 1 \in DOMAIN free' /\ free'[1] = at
    BY <1>1, <1>2
  <2> QED
    BY <2>1, <2>2 DEF ToSet
<1>6. \A t \in ToSet(list') : t \in ToSet(list)
  BY <1>4 DEF ToSet
<1>7. /\ step \in [Timer -> {"stop", "running", "remove"}] /\ gone \subseteq Timer
      /\ DOMAIN ran = Timer
  BY DEF CallInv, CallTypes, RestInv
<1>8. \A t \in gone : step'[t] # "running" /\ (t \in ToSet(list') => step'[t] = "remove")
  BY <1>1, <1>2, <1>5, <1>6, <1>7 DEF RestInv, Marks
<1>9. RestInv'
  BY <1>1, <1>7, <1>8, NoCallRests
<1> QED
  BY <1>1, <1>8, <1>9 DEF RemovedRests

LEMMA WalkRests == ASSUME Inv, CallInv, RestInv, Walk PROVE RestInv' /\ RemovedRests
<1>0. gone \subseteq Timer /\ DOMAIN ran = Timer
  BY DEF RestInv
<1>1. CASE WalkFree
  BY <1>1, FreeRests
<1>2. CASE WalkStep
  <2>1. at \notin gone
    BY <1>2 DEF WalkStep, Inv, WalkInList, RestInv, Marks
  <2>2. UNCHANGED <<step, gone, ran, code, of, list, at>>
    BY <1>2 DEF WalkStep, timers, call, history, pool
  <2> QED
    BY <2>1, <2>2 DEF RestInv, Marks, Idle, RemovedRests
<1>3. CASE WalkBegin \/ WalkPass \/ WalkReturn
  <2>1. UNCHANGED <<step, gone, ran, code, of, list>>
    BY <1>3 DEF WalkBegin, WalkPass, WalkReturn, timers, call, history, pool
  <2>2. wpc' = "event" => wpc = "event" /\ at' = at
    BY <1>3 DEF WalkBegin, WalkPass, WalkReturn, GoTo
  <2> QED
    BY <2>1, <2>2 DEF RestInv, Marks, Idle, RemovedRests
<1>4. CASE WalkEvent
  <2>1. /\ UNCHANGED <<step, gone, code, of, list>> /\ wpc = "event" /\ wpc' = "call"
        /\ ran' = [ran EXCEPT ![at] = ~@]
    BY <1>4 DEF WalkEvent, call, pool
  <2>2. at \notin gone
    BY <2>1 DEF RestInv
  <2>3. DOMAIN ran' = Timer /\ \A t \in gone : ran'[t] = ran[t]
    BY <1>0, <2>1, <2>2
  <2> QED
    BY <2>1, <2>3 DEF RestInv, Marks, Idle, RemovedRests
<1> QED
  BY <1>1, <1>2, <1>3, <1>4 DEF Walk

\* A timer that finishes runs, so that it was not removed; its callback in the interrupt does not.
LEMMA FinishRests ==
  ASSUME CallInv, RestInv, TickFinish, slot \in Timer, "remove" \notin IntCalls
  PROVE  RestInv' /\ RemovedRests
<1>0. /\ step \in [Timer -> {"stop", "running", "remove"}] /\ gone \subseteq Timer
      /\ DOMAIN ran = Timer
  BY DEF CallInv, CallTypes, RestInv
<1>1. step[slot] = "running" /\ UNCHANGED <<code, of, list, wpc, at>>
  BY DEF TickFinish, call, pool, walk
<1>2. slot \notin gone
  BY <1>1 DEF RestInv, Marks
<1>3. gone' = gone
  <2>1. "remove" \notin (IF slot \in IntoInt THEN IntCalls ELSE {"none"})
    OBVIOUS
  <2>2. \E how \in IF slot \in IntoInt THEN IntCalls ELSE {"none"} :
          gone' = IF how = "remove" THEN gone \cup {slot} ELSE gone
    BY Zenon DEF TickFinish
  <2> QED
    BY <2>1, <2>2, Zenon
<1>4. \E x : step' = [step EXCEPT ![slot] = x]
  BY Zenon DEF TickFinish
<1>5. \A t \in gone : step'[t] = step[t]
  BY <1>0, <1>2, <1>4
<1>6. ran' = ran \/ ran' = [ran EXCEPT ![slot] = ~@]
  BY Zenon DEF TickFinish
<1>7. DOMAIN ran' = Timer /\ \A t \in gone : ran'[t] = ran[t]
  BY <1>0, <1>2, <1>6
<1> QED
  BY <1>1, <1>3, <1>5, <1>7 DEF RestInv, Marks, Idle, RemovedRests

\* A call begins, which on a timer that was removed stops at its mark or writes its counts.
LEMMA CallRests ==
  ASSUME Inv, CallInv, RestInv, NEW t \in ToSet(list), NEW n, NEW first, Call(t, n, first),
         t \in gone => first \in {StartCode, ResetCode, Tail(StopCode), OpenCode}
  PROVE  RestInv' /\ RemovedRests
<1>1. /\ code' = first /\ of' = t /\ UNCHANGED <<step, gone, ran, list, wpc, at>>
  BY DEF Call, timers, pool, walk, history
<1>2. t \in gone => Idle'
  BY <1>1, CallsWhole DEF Idle
<1> QED
  BY <1>1, <1>2 DEF RestInv, Marks, RemovedRests

LEMMA RestStep ==
  ASSUME "remove" \notin IntCalls, Inv, SlotTypes, CallInv, RestInv, [Next]_vars
  PROVE  RestInv' /\ RemovedRests
<1>0. /\ step \in [Timer -> {"stop", "running", "remove"}] /\ gone \subseteq Timer
      /\ DOMAIN ran = Timer
  BY DEF CallInv, CallTypes, RestInv
<1>1. CASE Add
  BY <1>1, AddRests
<1>2. \A t \in ToSet(list) : t \in Timer
  BY DEF Inv, PoolTypes, ToSet
<1>3. ASSUME NEW t \in ToSet(list),
             \/ RemoveTimer(t) \/ Stop(t) \/ Call(t, 0, ResetCode)
             \/ \E n \in Targets : Call(t, n, StartCode)
             \/ \E n \in NewTargets : SetTarget(t, n)
      PROVE  RestInv' /\ RemovedRests
  <2>0. t \in Timer /\ (t \in gone => step[t] = "remove")
    BY <1>2 DEF RestInv, Marks
  <2>1. CASE RemoveTimer(t)
    <3>1. /\ code' = <<>> /\ ran' = ran /\ list' = list /\ wpc' = wpc /\ wpc \in {"idle", "call"}
          /\ step' = [step EXCEPT ![t] = "remove"] /\ gone' = gone \cup {t}
      BY <2>1 DEF RemoveTimer, AppRuns, call, pool, walk
    <3>2. \A u \in gone' : step'[u] # "running" /\ (u \in ToSet(list') => step'[u] = "remove")
      BY <1>0, <2>0, <3>1 DEF RestInv, Marks
    <3>3. RestInv'
      BY <1>0, <2>0, <3>1, <3>2, NoCallRests
    <3> QED
      BY <3>1, <3>2, <3>3 DEF RemovedRests
  <2>2. CASE Stop(t)
    BY <2>0, <2>2, CallRests DEF Stop
  <2>3. CASE Call(t, 0, ResetCode)
    BY <2>3, CallRests
  <2>4. ASSUME NEW n \in Targets, Call(t, n, StartCode) PROVE RestInv' /\ RemovedRests
    BY <2>4, CallRests
  <2>5. ASSUME NEW n \in NewTargets, SetTarget(t, n) PROVE RestInv' /\ RemovedRests
    BY <2>0, <2>5, CallRests DEF SetTarget
  <2> QED
    BY <1>3, <2>1, <2>2, <2>3, <2>4, <2>5
<1>4. CASE Clear
  <2>1. /\ code' = <<>> /\ ran' = ran /\ list' = <<>> /\ wpc' = "idle" /\ gone' = Timer
        /\ step' = [t \in Timer |-> "stop"]
    BY <1>4 DEF Clear, AppRuns, call, walk
  <2>2. ToSet(list') = {} /\ \A t \in gone' : step'[t] # "running"
    BY <2>1 DEF ToSet
  <2>3. RestInv'
    BY <1>0, <2>1, <2>2, NoCallRests
  <2> QED
    BY <1>0, <2>1, <2>2, <2>3 DEF RemovedRests
<1>5. CASE Reopen \/ TickBegin \/ TickPass \/ TickIdle \/ TickCount \/ UNCHANGED vars
  <2>1. UNCHANGED <<step, gone, ran, code, of, list, wpc, at>>
    BY <1>5 DEF Reopen, TickBegin, TickPass, TickIdle, TickCount, vars, timers, call, history, pool,
                walk
  <2> QED
    BY <2>1 DEF RestInv, Marks, Idle, RemovedRests
<1>6. CASE Access
  BY <1>6, AccessRests
<1>7. CASE Walk
  BY <1>7, WalkRests
<1>8. CASE TickFinish
  <2>1. slot # 0
    BY <1>8 DEF TickFinish
  <2>2. slot \in Timer
    BY <2>1, MaxAssumption DEF SlotTypes, Timer
  <2> QED
    BY <1>8, <2>2, FinishRests
<1> QED
  BY <1>1, <1>3, <1>4, <1>5, <1>6, <1>7, <1>8 DEF Next, Tick

\* Once pifTimerManager_Remove() took a timer no finish callback runs for it and it does not run,
\* whatever calls were made on it before and are made after, for any number of timers: as long as
\* no callback in the interrupt removes it between two accesses of a call of the main context.
THEOREM RemovedStay ==
  ASSUME "remove" \notin IntCalls
  PROVE  Spec => NoFinishAfterRemove
<1>1. Init => Inv /\ SlotTypes /\ CallInv /\ RestInv
  <2>1. Init => SlotTypes
    BY MaxAssumption DEF Init, SlotTypes
  <2>2. Init => RestInv
    BY DEF Init, RestInv, Marks
  <2> QED
    BY <2>1, <2>2, InvInit, CallInvInit
<1>2. /\ Inv /\ SlotTypes /\ CallInv /\ RestInv /\ [Next]_vars
         => (Inv /\ SlotTypes /\ CallInv /\ RestInv)'
      /\ Inv /\ SlotTypes /\ CallInv /\ RestInv /\ [Next]_vars => [RemovedRests]_vars
  BY InvStep, SlotStep, CallInvStep, RestStep
<1> QED
  BY <1>1, <1>2, PTL DEF Spec, NoFinishAfterRemove

-----------------------------------------------------------------------------
(* The lists of the scheduler.                                               *)

\* What is in a list.
LEMMA MemberOf ==
  ASSUME NEW s PROVE /\ Tasks!ToSet(s) = ToSet(s)
                     /\ \A x : x \in ToSet(s) <=> \E k \in DOMAIN s : s[k] = x
<1>1. Tasks!ToSet(s) = {s[k] : k \in DOMAIN s} /\ ToSet(s) = {s[k] : k \in DOMAIN s}
  BY DEF Tasks!ToSet, ToSet
<1> QED
  BY <1>1

\* The first node of the free list goes to the front of the other one.
LEMMA Taken ==
  ASSUME NEW S, NEW s \in Seq(S), NEW r \in Seq(S), r # <<>>, Tasks!NodesOnce(s, r),
         NEW s2, s2 = <<Head(r)>> \o s, NEW r2, r2 = Tail(r)
  PROVE  /\ s2 \in Seq(S) /\ r2 \in Seq(S) /\ Tasks!NodesOnce(s2, r2)
         /\ Len(s2) = Len(s) + 1 /\ ToSet(s2) = {Head(r)} \cup ToSet(s)
         /\ Head(r) \in S /\ Head(r) \notin ToSet(s)
<1> DEFINE x == Head(r)
<1>1. x = r[1] /\ 1 \in DOMAIN r /\ x \in S
  OBVIOUS
<1> HIDE DEF x
<1>2. /\ s2 \in Seq(S) /\ Len(s2) = Len(s) + 1
      /\ s2[1] = x /\ \A k \in DOMAIN s : s2[k + 1] = s[k]
      /\ ToSet(s2) = {x} \cup ToSet(s)
  BY <1>1, PrependIs DEF x
<1>3. /\ r2 \in Seq(S) /\ Len(r2) = Len(r) - 1
      /\ \A k \in DOMAIN r2 : k + 1 \in DOMAIN r /\ r2[k] = r[k + 1]
  BY TailIs
<1>4. /\ \A j, k \in DOMAIN s : s[j] = s[k] => j = k
      /\ \A j, k \in DOMAIN r : r[j] = r[k] => j = k
      /\ \A j \in DOMAIN s, k \in DOMAIN r : s[j] # r[k]
  BY DEF Tasks!NodesOnce, Tasks!IsInjective
<1>5. x \notin ToSet(s)
  BY <1>1, <1>4, MemberOf
<1>6. \A k \in DOMAIN s2 : k = 1 \/ (k - 1 \in DOMAIN s /\ s2[k] = s[k - 1])
  BY <1>2
<1>7. \A j, k \in DOMAIN s2 : s2[j] = s2[k] => j = k
  <2> SUFFICES ASSUME NEW j \in DOMAIN s2, NEW k \in DOMAIN s2, s2[j] = s2[k] PROVE j = k
    OBVIOUS
  <2>1. CASE j = 1 \/ k = 1
    BY <1>1, <1>2, <1>4, <1>6, <2>1
  <2>2. CASE j # 1 /\ k # 1
    <3>1. j - 1 \in DOMAIN s /\ k - 1 \in DOMAIN s /\ s[j - 1] = s[k - 1]
      BY <1>6, <2>2
    <3>2. j - 1 = k - 1
      BY <1>4, <3>1
    <3>3. j \in Nat /\ k \in Nat
      BY <1>2
    <3> QED
      BY <3>2, <3>3
  <2> QED
    BY <2>1, <2>2
<1>8. \A j, k \in DOMAIN r2 : r2[j] = r2[k] => j = k
  <2> SUFFICES ASSUME NEW j \in DOMAIN r2, NEW k \in DOMAIN r2, r2[j] = r2[k] PROVE j = k
    OBVIOUS
  <2>1. j + 1 \in DOMAIN r /\ k + 1 \in DOMAIN r /\ r[j + 1] = r[k + 1]
    BY <1>3
  <2>2. j + 1 = k + 1 /\ j \in Nat /\ k \in Nat
    BY <1>3, <1>4, <2>1
  <2> QED
    BY <2>2
<1>9. \A j \in DOMAIN s2, k \in DOMAIN r2 : s2[j] # r2[k]
  <2> SUFFICES ASSUME NEW j \in DOMAIN s2, NEW k \in DOMAIN r2, s2[j] = r2[k] PROVE FALSE
    OBVIOUS
  <2>1. k + 1 \in DOMAIN r /\ r2[k] = r[k + 1] /\ k \in Nat /\ k # 0
    BY <1>3
  <2>2. k + 1 # 1
    BY <2>1
  <2>3. r[k + 1] # x
    BY <1>1, <1>4, <2>1, <2>2
  <2> QED
    BY <1>2, <1>4, <1>6, <2>1, <2>3
<1> QED
  BY <1>1, <1>2, <1>3, <1>5, <1>7, <1>8, <1>9 DEF x, Tasks!NodesOnce, Tasks!IsInjective

\* A node goes from its list to the front of the free one.
LEMMA Unlinked ==
  ASSUME NEW S, NEW s \in Seq(S), NEW r \in Seq(S), Tasks!NodesOnce(s, r),
         NEW n \in ToSet(s), NEW s2, s2 = Tasks!Unlink(s, n), NEW r2, r2 = <<n>> \o r
  PROVE  /\ s2 \in Seq(S) /\ r2 \in Seq(S) /\ Tasks!NodesOnce(s2, r2)
         /\ Len(s2) = Len(s) - 1 /\ ToSet(s2) = ToSet(s) \ {n}
<1> DEFINE p == CHOOSE k \in 1..Len(s) : s[k] = n
<1>1. p \in DOMAIN s /\ s[p] = n
  <2>1. \E k \in 1..Len(s) : s[k] = n
    BY MemberOf
  <2>2. p \in 1..Len(s) /\ s[p] = n
    BY <2>1, Zenon
  <2>3. DOMAIN s = 1..Len(s)
    OBVIOUS
  <2> QED
    BY <2>2, <2>3, Zenon
<1>2. s2 = RemoveAt(s, p)
  BY DEF Tasks!Unlink, Tasks!RemoveAt, RemoveAt
<1> HIDE DEF p
<1>3. /\ s2 \in Seq(S) /\ Len(s2) = Len(s) - 1
      /\ \A k \in DOMAIN s2 : s2[k] = IF k < p THEN s[k] ELSE s[k + 1]
  BY <1>1, <1>2, RemoveAtIs
<1>4. n \in S
  BY <1>1
<1>5. /\ r2 \in Seq(S) /\ Len(r2) = Len(r) + 1
      /\ r2[1] = n /\ \A k \in DOMAIN r : r2[k + 1] = r[k]
  BY <1>4, PrependIs
<1>6. /\ \A j, k \in DOMAIN s : s[j] = s[k] => j = k
      /\ \A j, k \in DOMAIN r : r[j] = r[k] => j = k
      /\ \A j \in DOMAIN s, k \in DOMAIN r : s[j] # r[k]
  BY DEF Tasks!NodesOnce, Tasks!IsInjective
<1>7. p \in Nat /\ p > 0 /\ Len(s) \in Nat /\ DOMAIN s2 = 1..(Len(s) - 1) /\ DOMAIN s = 1..Len(s)
  BY <1>1, <1>3
\* Where a node of the new list was before.
<1> DEFINE was(k) == IF k < p THEN k ELSE k + 1
<1>8. ASSUME NEW k \in DOMAIN s2
      PROVE  was(k) \in DOMAIN s /\ s2[k] = s[was(k)] /\ was(k) # p
  BY <1>3, <1>7
<1>9. \A j, k \in DOMAIN s2 : was(j) = was(k) => j = k
  BY <1>7
<1> HIDE DEF was
<1>10. \A j, k \in DOMAIN s2 : s2[j] = s2[k] => j = k
  BY <1>6, <1>8, <1>9
<1>11. \A k \in DOMAIN r2 : k = 1 \/ (k - 1 \in DOMAIN r /\ r2[k] = r[k - 1])
  BY <1>5
<1>12. \A j, k \in DOMAIN r2 : r2[j] = r2[k] => j = k
  <2> SUFFICES ASSUME NEW j \in DOMAIN r2, NEW k \in DOMAIN r2, r2[j] = r2[k] PROVE j = k
    OBVIOUS
  <2>1. CASE j = 1 \/ k = 1
    BY <1>1, <1>5, <1>6, <1>11, <2>1
  <2>2. CASE j # 1 /\ k # 1
    <3>1. j - 1 \in DOMAIN r /\ k - 1 \in DOMAIN r /\ r[j - 1] = r[k - 1]
      BY <1>11, <2>2
    <3>2. j - 1 = k - 1
      BY <1>6, <3>1
    <3>3. j \in Nat /\ k \in Nat
      BY <1>5
    <3> QED
      BY <3>2, <3>3
  <2> QED
    BY <2>1, <2>2
<1>13. \A j \in DOMAIN s2, k \in DOMAIN r2 : s2[j] # r2[k]
  <2> SUFFICES ASSUME NEW j \in DOMAIN s2, NEW k \in DOMAIN r2, s2[j] = r2[k] PROVE FALSE
    OBVIOUS
  <2>1. was(j) \in DOMAIN s /\ s2[j] = s[was(j)] /\ was(j) # p
    BY <1>8
  <2>2. s2[j] # n
    BY <1>1, <1>6, <2>1
  <2> QED
    BY <1>5, <1>6, <1>11, <2>1, <2>2
<1>14. ToSet(s2) = ToSet(s) \ {n}
  <2>1. ASSUME NEW x \in ToSet(s2) PROVE x \in ToSet(s) \ {n}
    <3>1. PICK k \in DOMAIN s2 : s2[k] = x
      BY MemberOf
    <3>2. was(k) \in DOMAIN s /\ x = s[was(k)] /\ was(k) # p
      BY <1>8, <3>1
    <3> QED
      BY <1>1, <1>6, <3>2, MemberOf
  <2>2. ASSUME NEW x \in ToSet(s), x # n PROVE x \in ToSet(s2)
    <3>1. PICK k \in DOMAIN s : s[k] = x
      BY MemberOf
    <3>2. k # p /\ k \in 1..Len(s)
      BY <1>1, <1>7, <2>2, <3>1
    <3>3. CASE k < p
      <4>1. k \in DOMAIN s2 /\ s2[k] = x
        BY <1>1, <1>3, <1>7, <3>1, <3>2, <3>3
      <4> QED
        BY <4>1, MemberOf
    <3>4. CASE k > p
      <4>1. k - 1 \in DOMAIN s2 /\ ~(k - 1 < p) /\ (k - 1) + 1 = k
        BY <1>7, <3>2, <3>4
      <4>2. s2[k - 1] = x
        BY <1>3, <3>1, <4>1
      <4> QED
        BY <4>1, <4>2, MemberOf
    <3> QED
      BY <1>7, <3>2, <3>3, <3>4
  <2> QED
    BY <2>1, <2>2
<1> QED
  BY <1>3, <1>5, <1>10, <1>12, <1>13, <1>14 DEF Tasks!NodesOnce, Tasks!IsInjective

\* The first node, and the one behind another.
LEMMA BeginIs ==
  ASSUME NEW S, NEW s \in Seq(S)
  PROVE  /\ s = <<>> => Tasks!Begin(s) = 0
         /\ s # <<>> => Tasks!Begin(s) = s[1] /\ Tasks!Begin(s) \in ToSet(s)
<1>1. s # <<>> => 1 \in DOMAIN s /\ Head(s) = s[1]
  OBVIOUS
<1> QED
  BY <1>1, MemberOf DEF Tasks!Begin, Tasks!Null

LEMMA LinkIn ==
  ASSUME NEW S, NEW s \in Seq(S), NEW n
  PROVE  Tasks!Link(s, n) \in ToSet(s) \cup {0}
<1> DEFINE after == {k \in 2..Len(s) : s[k - 1] = n}
           c == CHOOSE k \in after : TRUE
<1>1. CASE after = {}
  BY <1>1 DEF Tasks!Link, Tasks!Null
<1>2. CASE after # {}
  <2>1. c \in after
    BY <1>2
  <2>2. c \in DOMAIN s
    BY <2>1
  <2>3. Tasks!Link(s, n) = s[c]
    BY <1>2 DEF Tasks!Link
  <2> QED
    BY <2>2, <2>3, MemberOf
<1> QED
  BY <1>1, <1>2

LEMMA LinkIs ==
  ASSUME NEW S, NEW s \in Seq(S), \A j, k \in DOMAIN s : s[j] = s[k] => j = k,
         NEW m \in Nat, m < Len(s)
  PROVE  Tasks!Link(s, s[m + 1]) = IF m + 1 < Len(s) THEN s[m + 2] ELSE 0
<1> DEFINE after == {k \in 2..Len(s) : s[k - 1] = s[m + 1]}
           c == CHOOSE k \in after : TRUE
<1>1. ASSUME NEW k \in after PROVE k = m + 2 /\ m + 1 < Len(s)
  <2>1. k - 1 \in DOMAIN s /\ m + 1 \in DOMAIN s /\ k \in 2..Len(s)
    OBVIOUS
  <2>2. k - 1 = m + 1
    BY <2>1
  <2> QED
    BY <2>1, <2>2
<1>2. CASE m + 1 < Len(s)
  <2>1. m + 2 \in 2..Len(s) /\ (m + 2) - 1 = m + 1
    BY <1>2
  <2>2. m + 2 \in after
    BY <2>1
  <2>3. c = m + 2
    BY <1>1, <2>2
  <2> QED
    BY <1>2, <2>2, <2>3 DEF Tasks!Link
<1>3. CASE ~(m + 1 < Len(s))
  BY <1>1, <1>3 DEF Tasks!Link, Tasks!Null
<1> QED
  BY <1>2, <1>3


\* The nodes of the pools are numbers, and none of them is Null.
LEMMA NodeNumbers ==
  /\ ListTasks \in Nat /\ ListTimers \in Nat
  /\ \A s \in Seq(1..ListTasks) : 0 \notin ToSet(s) /\ ToSet(s) \subseteq 0..ListTasks
  /\ 0 \in 0..ListTasks
  /\ \A s \in Seq(1..ListTimers) : 0 \notin ToSet(s)
<1>1. ListTasks \in Nat /\ ListTimers \in Nat
  BY ListAssumption
<1>2. ASSUME NEW n \in Nat, NEW s \in Seq(1..n), NEW x \in ToSet(s) PROVE x \in 0..n /\ x # 0
  <2>1. x \in 1..n
    BY <1>2, MemberOf
  <2> QED
    BY <1>2, <2>1
<1>3. 0 \in 0..ListTasks
  BY <1>1
<1> QED
  BY <1>1, <1>2, <1>3

LEMMA ListsInit == Tasks!Init => Tasks!Inv
<1> SUFFICES ASSUME Tasks!Init PROVE Tasks!Inv
  OBVIOUS
<1> USE DEF Tasks!Init, Tasks!Null
<1>1. ASSUME NEW n \in Nat PROVE <<>> \in Seq(1..n) /\ [k \in 1..n |-> k] \in Seq(1..n)
  OBVIOUS
<1>2. Tasks!TypeOK
  <2>1. /\ listTasks \in Seq(1..ListTasks) /\ listFreeTasks \in Seq(1..ListTasks)
        /\ listTimers \in Seq(1..ListTimers) /\ listFreeTimers \in Seq(1..ListTimers)
    BY <1>1, ListAssumption
  <2>2. 0 \in 0..ListTasks /\ 0 \in Nat /\ FALSE \in BOOLEAN
    BY ListAssumption
  <2> QED
    BY <2>1, <2>2, Zenon DEF Tasks!TypeOK
<1>3. ASSUME NEW n \in Nat PROVE Tasks!NodesOnce(<<>>, [k \in 1..n |-> k])
  BY DEF Tasks!NodesOnce, Tasks!IsInjective
<1>4. Tasks!NodesOnce(listTasks, listFreeTasks) /\ Tasks!NodesOnce(listTimers, listFreeTimers)
  BY <1>3, ListAssumption
<1>5. Tasks!WalkInTimers /\ Tasks!PassInTasks /\ Tasks!NeverLost
  BY DEF Tasks!WalkInTimers, Tasks!PassInTasks, Tasks!NeverLost
<1>6. Tasks!NoStrayRun
  BY DEF Tasks!NoStrayRun
<1> QED
  BY <1>2, <1>4, <1>5, <1>6 DEF Tasks!Inv

\* A call that leaves the pools and the pass alone.
LEMMA TriggersKeep ==
  ASSUME Tasks!Inv, UNCHANGED <<Tasks!pools, Tasks!walk, Tasks!running, listCurrent, listPc>>,
         (listTrigger \cap ToSet(listTasks) \subseteq listAsked)',
         (listCutin \in ToSet(listTasks) \cup {0})'
  PROVE  Tasks!Inv'
<1> USE DEF Tasks!pools, Tasks!walk, Tasks!running, Tasks!Inv, Tasks!Null
<1>1. Tasks!TypeOK'
  BY DEF Tasks!TypeOK
<1>2. Tasks!NodesOnce(listTasks, listFreeTasks)' /\ Tasks!NodesOnce(listTimers, listFreeTimers)'
  BY DEF Tasks!NodesOnce
<1>3. Tasks!WalkInTimers' /\ Tasks!PassInTasks' /\ Tasks!NeverLost'
  BY DEF Tasks!WalkInTimers, Tasks!PassInTasks, Tasks!NeverLost
<1>4. Tasks!NoStrayRun'
  BY MemberOf DEF Tasks!NoStrayRun
<1> QED
  BY <1>1, <1>2, <1>3, <1>4

LEMMA SetTriggerKeeps == ASSUME Tasks!Inv, NEW n, Tasks!SetTrigger(n) PROVE Tasks!Inv'
<1>1. UNCHANGED <<Tasks!pools, Tasks!walk, Tasks!running, listCurrent, listPc, listCutin>>
  BY DEF Tasks!SetTrigger
<1>2. listTasks' = listTasks
  BY <1>1 DEF Tasks!pools
<1>3. listTrigger' \cap ToSet(listTasks) \subseteq listAsked'
  BY MemberOf DEF Tasks!SetTrigger, Tasks!Inv, Tasks!NoStrayRun
<1>4. listCutin \in ToSet(listTasks) \cup {0}
  BY MemberOf DEF Tasks!Inv, Tasks!NoStrayRun, Tasks!Null
<1> QED
  BY <1>1, <1>2, <1>3, <1>4, TriggersKeep

LEMMA SetCutinKeeps == ASSUME Tasks!Inv, NEW n, Tasks!SetCutin(n) PROVE Tasks!Inv'
<1>1. UNCHANGED <<Tasks!pools, Tasks!walk, Tasks!running, listCurrent, listPc>>
  BY DEF Tasks!SetCutin
<1>2. listTasks' = listTasks
  BY <1>1 DEF Tasks!pools
<1>3. listTrigger' \cap ToSet(listTasks) \subseteq listAsked'
  BY MemberOf DEF Tasks!SetCutin, Tasks!Inv, Tasks!NoStrayRun
<1>4. listCutin' \in ToSet(listTasks) \cup {0}
  BY MemberOf DEF Tasks!SetCutin, Tasks!Inv, Tasks!NoStrayRun, Tasks!Null
<1> QED
  BY <1>1, <1>2, <1>3, <1>4, TriggersKeep

LEMMA CancelTriggerKeeps == ASSUME Tasks!Inv, NEW n, Tasks!CancelTrigger(n) PROVE Tasks!Inv'
<1>1. UNCHANGED <<Tasks!pools, Tasks!walk, Tasks!running, listCurrent, listPc>>
  BY DEF Tasks!CancelTrigger
<1>2. listTasks' = listTasks
  BY <1>1 DEF Tasks!pools
<1>3. listTrigger' \cap ToSet(listTasks) \subseteq listAsked'
  BY MemberOf DEF Tasks!CancelTrigger, Tasks!Inv, Tasks!NoStrayRun
<1>4. listCutin' \in ToSet(listTasks) \cup {0}
  BY MemberOf DEF Tasks!CancelTrigger, Tasks!Inv, Tasks!NoStrayRun, Tasks!Null
<1> QED
  BY <1>1, <1>2, <1>3, <1>4, TriggersKeep

\* A call that changes the timers, outside of the walk over them.
LEMMA TimersKeep ==
  ASSUME Tasks!Inv, listPc \in {"top", "run"},
         UNCHANGED <<listTasks, listFreeTasks, listTrigger, listCutin, listCurrent, Tasks!walk,
                     Tasks!running, listAsked, listPc>>,
         listTimers' \in Seq(1..ListTimers), listFreeTimers' \in Seq(1..ListTimers),
         Tasks!NodesOnce(listTimers', listFreeTimers')
  PROVE  Tasks!Inv'
<1> USE DEF Tasks!walk, Tasks!running, Tasks!Inv
<1>1. Tasks!TypeOK'
  BY DEF Tasks!TypeOK
<1>2. Tasks!NodesOnce(listTasks, listFreeTasks)' /\ Tasks!NodesOnce(listTimers, listFreeTimers)'
  BY DEF Tasks!NodesOnce
<1>3. Tasks!WalkInTimers'
  BY DEF Tasks!WalkInTimers
<1>4. Tasks!PassInTasks' /\ Tasks!NeverLost'
  BY DEF Tasks!PassInTasks, Tasks!NeverLost
<1>5. Tasks!NoStrayRun'
  BY DEF Tasks!NoStrayRun
<1> QED
  BY <1>1, <1>2, <1>3, <1>4, <1>5

LEMMA AddTimerKeeps == ASSUME Tasks!Inv, Tasks!AddTimer PROVE Tasks!Inv'
<1>1. /\ listTimers \in Seq(1..ListTimers) /\ listFreeTimers \in Seq(1..ListTimers)
      /\ Tasks!NodesOnce(listTimers, listFreeTimers)
  BY DEF Tasks!Inv, Tasks!TypeOK
<1>2. /\ listFreeTimers # <<>> /\ listPc \in {"top", "run"}
      /\ listTimers' = <<Head(listFreeTimers)>> \o listTimers
      /\ listFreeTimers' = Tail(listFreeTimers)
  BY DEF Tasks!AddTimer, Tasks!Calling, Tasks!InTimer
<1>3. /\ listTimers' \in Seq(1..ListTimers) /\ listFreeTimers' \in Seq(1..ListTimers)
      /\ Tasks!NodesOnce(listTimers', listFreeTimers')
  <2> DEFINE s == <<Head(listFreeTimers)>> \o listTimers
             t == Tail(listFreeTimers)
  <2>1. listFreeTimers # <<>>
    BY <1>2
  <2>2. s = <<Head(listFreeTimers)>> \o listTimers /\ t = Tail(listFreeTimers)
    OBVIOUS
  <2>3. listTimers' = s /\ listFreeTimers' = t
    BY <1>2
  <2> DEFINE S == 1..ListTimers
  <2>4. listTimers \in Seq(S) /\ listFreeTimers \in Seq(S)
    BY <1>1
  <2> HIDE DEF s, t, S
  <2>5. s \in Seq(S)
    BY <1>1, <2>1, <2>2, <2>4, Taken
  <2>6. t \in Seq(S)
    BY <1>1, <2>1, <2>2, <2>4, Taken
  <2>7. Tasks!NodesOnce(s, t)
    BY <1>1, <2>1, <2>2, <2>4, Taken
  <2> QED
    BY <2>3, <2>5, <2>6, <2>7 DEF S
<1> QED
  BY <1>2, <1>3, TimersKeep DEF Tasks!AddTimer

LEMMA RemoveTimerKeeps == ASSUME Tasks!Inv, NEW n, Tasks!RemoveTimer(n) PROVE Tasks!Inv'
<1>1. /\ listTimers \in Seq(1..ListTimers) /\ listFreeTimers \in Seq(1..ListTimers)
      /\ Tasks!NodesOnce(listTimers, listFreeTimers)
  BY DEF Tasks!Inv, Tasks!TypeOK
<1>2. /\ n \in ToSet(listTimers) /\ listPc \in {"top", "run"}
      /\ listTimers' = Tasks!Unlink(listTimers, n)
      /\ listFreeTimers' = <<n>> \o listFreeTimers
  BY MemberOf DEF Tasks!RemoveTimer, Tasks!Calling, Tasks!InTimer
<1>3. /\ listTimers' \in Seq(1..ListTimers) /\ listFreeTimers' \in Seq(1..ListTimers)
      /\ Tasks!NodesOnce(listTimers', listFreeTimers')
  <2> DEFINE s == Tasks!Unlink(listTimers, n)
             t == <<n>> \o listFreeTimers
  <2>1. s \in Seq(1..ListTimers) /\ t \in Seq(1..ListTimers) /\ Tasks!NodesOnce(s, t)
    BY <1>1, <1>2, Unlinked
  <2> QED
    BY <1>2, <2>1, Zenon
<1> QED
  BY <1>2, <1>3, TimersKeep DEF Tasks!RemoveTimer

\* A task is added: the ring pointer stays in the ring, and no trigger is left in the node.
LEMMA AddTaskKeeps == ASSUME Tasks!Inv, Tasks!Add PROVE Tasks!Inv'
<1> DEFINE x == Head(listFreeTasks)
<1>1. /\ listTasks \in Seq(1..ListTasks) /\ listFreeTasks \in Seq(1..ListTasks)
      /\ Tasks!NodesOnce(listTasks, listFreeTasks)
  BY DEF Tasks!Inv, Tasks!TypeOK
<1>2. /\ listFreeTasks # <<>> /\ ~listGone
      /\ listTasks' = <<x>> \o listTasks /\ listFreeTasks' = Tail(listFreeTasks)
      /\ listTrigger' = listTrigger \ {x}
      /\ listAsked' = listAsked \ {x}
      /\ listCurrent' = IF listCurrent = 0 THEN x ELSE listCurrent
      /\ UNCHANGED <<listTimers, listFreeTimers, listCutin, listPc, listCount, listIt, listNext,
                     listIndex, listVisits, listOwner, listGone>>
  BY DEF Tasks!Add, Tasks!walk, Tasks!running, Tasks!Null
<1>3. /\ listTasks' \in Seq(1..ListTasks) /\ listFreeTasks' \in Seq(1..ListTasks)
      /\ Tasks!NodesOnce(listTasks', listFreeTasks')
      /\ ToSet(listTasks') = {x} \cup ToSet(listTasks)
      /\ x \in 1..ListTasks /\ x \notin ToSet(listTasks) /\ listTasks' # <<>> /\ x # 0
  <2> DEFINE s == <<x>> \o listTasks
             t == Tail(listFreeTasks)
  <2>1. listFreeTasks # <<>>
    BY <1>2
  <2>2. s = <<Head(listFreeTasks)>> \o listTasks /\ t = Tail(listFreeTasks)
    OBVIOUS
  <2>3. listTasks' = s /\ listFreeTasks' = t
    BY <1>2
  <2> DEFINE S == 1..ListTasks
  <2>4. listTasks \in Seq(S) /\ listFreeTasks \in Seq(S)
    BY <1>1
  <2> HIDE DEF s, t, S
  <2>5. s \in Seq(S)
    BY <1>1, <2>1, <2>2, <2>4, Taken
  <2>6. t \in Seq(S)
    BY <1>1, <2>1, <2>2, <2>4, Taken
  <2>7. Tasks!NodesOnce(s, t)
    BY <1>1, <2>1, <2>2, <2>4, Taken
  <2>8. ToSet(s) = {x} \cup ToSet(listTasks)
    BY <1>1, <2>1, <2>2, <2>4, Taken
  <2>9. x \in S /\ x \notin ToSet(listTasks)
    BY <1>1, <2>1, <2>2, <2>4, Taken
  <2>10. s # <<>>
    BY <2>8, MemberOf
  <2>11. x \in 1..ListTasks /\ x # 0
    BY <2>9 DEF S
  <2> QED
    BY <2>3, <2>5, <2>6, <2>7, <2>8, <2>9, <2>10, <2>11 DEF S
<1> HIDE DEF x
<1> USE DEF Tasks!Inv, Tasks!Null
<1>5. Tasks!TypeOK'
  BY <1>2, <1>3 DEF Tasks!TypeOK
<1>6. Tasks!NodesOnce(listTasks, listFreeTasks)' /\ Tasks!NodesOnce(listTimers, listFreeTimers)'
  BY <1>2, <1>3 DEF Tasks!NodesOnce
<1>7. Tasks!WalkInTimers'
  BY <1>2 DEF Tasks!WalkInTimers
<1>8. Tasks!PassInTasks' /\ Tasks!NeverLost'
  BY <1>2, <1>3 DEF Tasks!PassInTasks, Tasks!NeverLost
<1>9. Tasks!NoStrayRun'
  <2>1. /\ listPc # "stray" /\ listTrigger \cap ToSet(listTasks) \subseteq listAsked
        /\ listCurrent \in ToSet(listTasks) \cup {0} /\ listCutin \in ToSet(listTasks) \cup {0}
    BY MemberOf DEF Tasks!NoStrayRun
  <2>2. /\ listPc' # "stray" /\ listTrigger' \cap ToSet(listTasks') \subseteq listAsked'
        /\ listCurrent' \in ToSet(listTasks') \cup {0} /\ listCutin' \in ToSet(listTasks') \cup {0}
    BY <1>2, <1>3, <2>1
  <2> QED
    BY <2>2, MemberOf DEF Tasks!NoStrayRun
<1> QED
  BY <1>5, <1>6, <1>7, <1>8, <1>9

\* A task is removed: no pointer is left to it, and a timer callback leaves one in the ring.
LEMMA RemoveTaskKeeps == ASSUME Tasks!Inv, NEW n, Tasks!RemoveTask(n) PROVE Tasks!Inv'
<1>1. /\ listTasks \in Seq(1..ListTasks) /\ listFreeTasks \in Seq(1..ListTasks)
      /\ Tasks!NodesOnce(listTasks, listFreeTasks)
  BY DEF Tasks!Inv, Tasks!TypeOK
<1>2. /\ n \in ToSet(listTasks) /\ n \notin listTrigger /\ n # listCutin
      /\ listPc \in {"top", "timer call", "run"}
      /\ listPc = "timer call" => Len(listTasks) > 1
      /\ listTasks' = Tasks!Unlink(listTasks, n) /\ listFreeTasks' = <<n>> \o listFreeTasks
      /\ listCurrent' = IF listTasks' = <<>> THEN 0
                        ELSE IF listCurrent \in {n, 0} THEN Tasks!Begin(listTasks') ELSE listCurrent
      /\ listGone' = (listGone \/ n = listOwner)
      /\ UNCHANGED <<listTimers, listFreeTimers, listTrigger, listCutin, listPc, listCount, listIt,
                     listNext, listIndex, listVisits, listOwner, listAsked>>
  BY MemberOf DEF Tasks!RemoveTask, Tasks!walk, Tasks!Null, Tasks!Calling, Tasks!InTimer
<1>3. /\ listTasks' \in Seq(1..ListTasks) /\ listFreeTasks' \in Seq(1..ListTasks)
      /\ Tasks!NodesOnce(listTasks', listFreeTasks')
      /\ ToSet(listTasks') = ToSet(listTasks) \ {n}
      /\ Len(listTasks) > 1 => listTasks' # <<>>
  <2> DEFINE s == Tasks!Unlink(listTasks, n)
             t == <<n>> \o listFreeTasks
  <2>1. /\ s \in Seq(1..ListTasks) /\ t \in Seq(1..ListTasks) /\ Tasks!NodesOnce(s, t)
        /\ Len(s) = Len(listTasks) - 1 /\ ToSet(s) = ToSet(listTasks) \ {n}
    <3>1. n \in ToSet(listTasks)
      BY <1>2
    <3>2. s = Tasks!Unlink(listTasks, n) /\ t = <<n>> \o listFreeTasks
      OBVIOUS
    <3> DEFINE S == 1..ListTasks
    <3>3. listTasks \in Seq(S) /\ listFreeTasks \in Seq(S)
      BY <1>1
    <3> HIDE DEF s, t, S
    <3>4. s \in Seq(S)
      BY <1>1, <3>1, <3>2, <3>3, Unlinked
    <3>5. t \in Seq(S)
      BY <1>1, <3>1, <3>2, <3>3, Unlinked
    <3>6. Tasks!NodesOnce(s, t)
      BY <1>1, <3>1, <3>2, <3>3, Unlinked
    <3>7. Len(s) = Len(listTasks) - 1
      BY <1>1, <3>1, <3>2, <3>3, Unlinked
    <3>8. ToSet(s) = ToSet(listTasks) \ {n}
      BY <1>1, <3>1, <3>2, <3>3, Unlinked
    <3> QED
      BY <3>4, <3>5, <3>6, <3>7, <3>8 DEF S
  <2>2. listTasks' = s /\ listFreeTasks' = t
    BY <1>2
  <2> HIDE DEF s, t
  <2>3. Len(listTasks) > 1 => s # <<>>
    BY <1>1, <2>1
  <2> QED
    BY <2>1, <2>2, <2>3
<1>4. listPc = "timer call" => listTasks' # <<>>
  BY <1>2, <1>3
<1>5. /\ listTasks' # <<>> => Tasks!Begin(listTasks') \in ToSet(listTasks')
      /\ 0 \notin ToSet(listTasks') /\ n # 0
  BY <1>1, <1>2, <1>3, BeginIs, NodeNumbers
<1> USE DEF Tasks!Inv, Tasks!Null
<1>6. Tasks!TypeOK'
  BY <1>2, <1>3 DEF Tasks!TypeOK
<1>7. Tasks!NodesOnce(listTasks, listFreeTasks)' /\ Tasks!NodesOnce(listTimers, listFreeTimers)'
  BY <1>2, <1>3 DEF Tasks!NodesOnce
<1>8. Tasks!WalkInTimers'
  BY <1>2 DEF Tasks!WalkInTimers
<1>9. Tasks!PassInTasks'
  <2>1. /\ listOwner # 0 => listPc = "run"
        /\ listGone => listPc = "run" /\ listOwner \notin ToSet(listTasks)
    BY MemberOf DEF Tasks!PassInTasks
  <2>2. /\ listPc' \in {"timers", "timer call", "ring"} /\ listCount' > 0 => listTasks' # <<>>
        /\ listOwner' # 0 => listPc' = "run"
        /\ listGone' => listPc' = "run" /\ listOwner' \notin ToSet(listTasks')
    BY <1>2, <1>3, <1>4, <1>5, <2>1
  <2> QED
    BY <2>2, MemberOf DEF Tasks!PassInTasks
<1>10. Tasks!NoStrayRun' /\ Tasks!NeverLost'
  <2>1. /\ listPc \notin {"stray", "lost"} /\ listTrigger \cap ToSet(listTasks) \subseteq listAsked
        /\ listCurrent \in ToSet(listTasks) \cup {0} /\ listCutin \in ToSet(listTasks) \cup {0}
    BY MemberOf DEF Tasks!NoStrayRun, Tasks!NeverLost
  <2>2. ~(listTasks' = <<>> /\ ToSet(listTasks') # {})
    BY MemberOf
  <2>3. /\ listPc' \notin {"stray", "lost"} /\ listTrigger' \cap ToSet(listTasks') \subseteq listAsked'
        /\ listCurrent' \in ToSet(listTasks') \cup {0} /\ listCutin' \in ToSet(listTasks') \cup {0}
        /\ listCurrent' = 0 <=> listTasks' = <<>>
    BY <1>2, <1>3, <1>5, <2>1, <2>2
  <2> QED
    BY <2>3, MemberOf DEF Tasks!NoStrayRun, Tasks!NeverLost
<1> QED
  BY <1>6, <1>7, <1>8, <1>9, <1>10

LEMMA CallKeeps == ASSUME Tasks!Inv, Tasks!Call PROVE Tasks!Inv'
BY AddTaskKeeps, AddTimerKeeps, RemoveTaskKeeps, SetTriggerKeeps, SetCutinKeeps, CancelTriggerKeeps,
   RemoveTimerKeeps DEF Tasks!Call

-----------------------------------------------------------------------------
(* The pass over the lists of the scheduler.                                 *)

\* What a step of the pass has to keep, which changes neither the pools nor what was asked.
LEMMA PassKeeps ==
  ASSUME Tasks!Inv, UNCHANGED Tasks!pools,
         (/\ listOwner \in 0..ListTasks /\ listGone \in BOOLEAN /\ listCount \in Nat
          /\ listIndex \in Nat /\ listVisits \in Nat
          /\ listPc \in {"top", "timers", "timer call", "ring", "run", "stray", "lost"})',
         Tasks!WalkInTimers', Tasks!PassInTasks', Tasks!NeverLost', Tasks!NoStrayRun'
  PROVE  Tasks!Inv'
<1> USE DEF Tasks!pools, Tasks!Inv
<1>1. Tasks!TypeOK'
  BY DEF Tasks!TypeOK
<1>2. Tasks!NodesOnce(listTasks, listFreeTasks)' /\ Tasks!NodesOnce(listTimers, listFreeTimers)'
  BY DEF Tasks!NodesOnce
<1> QED
  BY <1>1, <1>2

\* What is known before a step: the numbers, and the tasks.
LEMMA PassNumbers ==
  ASSUME Tasks!Inv
  PROVE  /\ listTasks \in Seq(1..ListTasks) /\ listTimers \in Seq(1..ListTimers)
         /\ Len(listTasks) \in Nat /\ Len(listTimers) \in Nat
         /\ listCount \in Nat /\ listIndex \in Nat /\ listVisits \in Nat
<1>1. /\ listTasks \in Seq(1..ListTasks) /\ listTimers \in Seq(1..ListTimers)
      /\ listCount \in Nat /\ listIndex \in Nat /\ listVisits \in Nat
  BY DEF Tasks!Inv, Tasks!TypeOK
<1> QED
  BY <1>1

LEMMA PassFacts ==
  ASSUME Tasks!Inv
  PROVE  /\ listTasks \in Seq(1..ListTasks) /\ listTimers \in Seq(1..ListTimers)
         /\ \A j, k \in DOMAIN listTimers : listTimers[j] = listTimers[k] => j = k
         /\ listOwner \in 0..ListTasks /\ listGone \in BOOLEAN /\ listCount \in Nat
         /\ listIndex \in Nat /\ listVisits \in Nat
         /\ listPc \in {"top", "timers", "timer call", "ring", "run"}
         /\ listTrigger \cap ToSet(listTasks) \subseteq listAsked
         /\ listCurrent \in ToSet(listTasks) \cup {0} /\ listCutin \in ToSet(listTasks) \cup {0}
         /\ listCurrent = 0 <=> listTasks = <<>>
         /\ listPc \in {"timers", "timer call", "ring"} /\ listCount > 0 => listTasks # <<>>
         /\ listOwner # 0 => listPc = "run"
         /\ listGone => listPc = "run" /\ listOwner \notin ToSet(listTasks)
<1> USE DEF Tasks!Inv, Tasks!Null
<1>1. /\ listTasks \in Seq(1..ListTasks) /\ listTimers \in Seq(1..ListTimers)
      /\ listOwner \in 0..ListTasks /\ listGone \in BOOLEAN /\ listCount \in Nat
      /\ listIndex \in Nat /\ listVisits \in Nat
      /\ listPc \in {"top", "timers", "timer call", "ring", "run", "stray", "lost"}
  BY DEF Tasks!TypeOK
<1>2. \A j, k \in DOMAIN listTimers : listTimers[j] = listTimers[k] => j = k
  BY DEF Tasks!NodesOnce, Tasks!IsInjective
<1>3. /\ listPc # "stray" /\ listPc # "lost" /\ (listCurrent = 0 <=> listTasks = <<>>)
      /\ listTrigger \cap ToSet(listTasks) \subseteq listAsked
      /\ listCurrent \in ToSet(listTasks) \cup {0} /\ listCutin \in ToSet(listTasks) \cup {0}
  BY MemberOf DEF Tasks!NoStrayRun, Tasks!NeverLost
<1>4. /\ listPc \in {"timers", "timer call", "ring"} /\ listCount > 0 => listTasks # <<>>
      /\ listOwner # 0 => listPc = "run"
      /\ listGone => listPc = "run" /\ listOwner \notin ToSet(listTasks)
  BY MemberOf DEF Tasks!PassInTasks
<1> QED
  BY <1>1, <1>2, <1>3, <1>4

LEMMA TopKeeps == ASSUME Tasks!Inv, Tasks!Top PROVE Tasks!Inv'
<1> USE DEF Tasks!Null
<1>1. /\ listCount' = Len(listTasks) /\ listIt' = Tasks!Begin(listTimers) /\ listIndex' = 0
      /\ listVisits' = 0 /\ listPc' = "timers" /\ listPc = "top" /\ UNCHANGED Tasks!pools
      /\ UNCHANGED <<listTasks, listTimers, listTrigger, listCutin, listCurrent, listOwner, listGone,
                     listAsked>>
  BY DEF Tasks!Top, Tasks!pools, Tasks!running
<1>2. Tasks!WalkInTimers'
  <2>1. Tasks!Begin(listTimers) = IF 0 < Len(listTimers) THEN listTimers[0 + 1] ELSE 0
    BY PassNumbers, BeginIs
  <2> QED
    BY <1>1, <2>1 DEF Tasks!WalkInTimers
<1>3. Tasks!PassInTasks' /\ Tasks!NeverLost'
  BY <1>1, PassFacts DEF Tasks!PassInTasks, Tasks!NeverLost
<1>4. Tasks!NoStrayRun'
  BY <1>1, PassFacts, MemberOf DEF Tasks!NoStrayRun
<1> QED
  BY <1>1, <1>2, <1>3, <1>4, PassFacts, PassKeeps

LEMMA CallTimerKeeps == ASSUME Tasks!Inv, Tasks!CallTimer PROVE Tasks!Inv'
<1> USE DEF Tasks!Null
<1>1. /\ listPc = "timers" /\ listIndex < Len(listTimers) /\ UNCHANGED Tasks!pools
      /\ UNCHANGED <<listTasks, listTimers, listTrigger, listCutin, listCurrent, listOwner, listGone,
                     listAsked, listCount, listIt, listIndex, listVisits>>
      /\ IF listIt = 0 THEN listPc' = "lost"
         ELSE /\ listPc' = "timer call"
              /\ listNext' = Tasks!Follow(listTimers, listFreeTimers, listIt)
  BY DEF Tasks!CallTimer, Tasks!pools, Tasks!running
<1>2. listIt = listTimers[listIndex + 1] /\ listIt \in ToSet(listTimers) /\ listIt # 0
  <2>1. listIndex + 1 \in DOMAIN listTimers
    <3>1. listIndex < Len(listTimers)
      BY <1>1
    <3> QED
      BY <3>1, PassNumbers
  <2>2. listIt = listTimers[listIndex + 1]
    BY <1>1 DEF Tasks!Inv, Tasks!WalkInTimers
  <2> QED
    BY <2>1, <2>2, PassFacts, MemberOf, NodeNumbers
<1>3. listPc' = "timer call" /\ listNext' = Tasks!Link(listTimers, listIt)
  BY <1>1, <1>2, MemberOf DEF Tasks!Follow
<1>4. Tasks!Link(listTimers, listIt) =
        IF listIndex + 1 < Len(listTimers) THEN listTimers[listIndex + 2] ELSE 0
  BY <1>1, <1>2, PassFacts, LinkIs
<1>5. Tasks!WalkInTimers'
  BY <1>1, <1>2, <1>3, <1>4 DEF Tasks!WalkInTimers
<1>6. Tasks!PassInTasks' /\ Tasks!NeverLost'
  BY <1>1, <1>3, PassFacts DEF Tasks!PassInTasks, Tasks!NeverLost
<1>7. Tasks!NoStrayRun'
  BY <1>1, <1>3, PassFacts, MemberOf DEF Tasks!NoStrayRun
<1> QED
  BY <1>1, <1>3, <1>5, <1>6, <1>7, PassFacts, PassKeeps

LEMMA TimerReturnsKeeps == ASSUME Tasks!Inv, Tasks!TimerReturns PROVE Tasks!Inv'
<1> USE DEF Tasks!Null
<1>1. /\ listPc = "timer call" /\ listPc' = "timers" /\ listIt' = listNext
      /\ listIndex' = listIndex + 1 /\ UNCHANGED Tasks!pools
      /\ UNCHANGED <<listTasks, listTimers, listTrigger, listCutin, listCurrent, listOwner, listGone,
                     listAsked, listCount, listNext, listVisits>>
  BY DEF Tasks!TimerReturns, Tasks!pools, Tasks!running
<1>2. listNext = IF listIndex + 1 < Len(listTimers) THEN listTimers[(listIndex + 1) + 1] ELSE 0
  <2>1. (listIndex + 1) + 1 = listIndex + 2
    BY PassNumbers
  <2> QED
    BY <1>1, <2>1 DEF Tasks!Inv, Tasks!WalkInTimers
<1>3. Tasks!WalkInTimers'
  BY <1>1, <1>2 DEF Tasks!WalkInTimers
<1>4. Tasks!PassInTasks' /\ Tasks!NeverLost'
  BY <1>1, PassFacts DEF Tasks!PassInTasks, Tasks!NeverLost
<1>5. Tasks!NoStrayRun'
  BY <1>1, PassFacts, MemberOf DEF Tasks!NoStrayRun
<1>6. listIndex + 1 \in Nat
  BY PassNumbers
<1> QED
  BY <1>1, <1>3, <1>4, <1>5, <1>6, PassFacts, PassKeeps

LEMMA SelectKeeps == ASSUME Tasks!Inv, Tasks!Select PROVE Tasks!Inv'
<1> USE DEF Tasks!Null
<1>1. /\ listPc = "timers" /\ UNCHANGED Tasks!pools
      /\ UNCHANGED <<listTasks, listTimers, listTrigger, listGone, listAsked, listCount, listIt,
                     listNext, listIndex, listVisits>>
      /\ listCurrent' = IF listCurrent = 0 /\ listCount > 0 THEN Tasks!Begin(listTasks) ELSE listCurrent
  BY DEF Tasks!Select, Tasks!pools, Tasks!walk
<1>2. listCurrent' = listCurrent
  BY <1>1, PassFacts
<1>3. \/ listPc' \in {"top", "ring"} /\ UNCHANGED <<listCutin, listOwner>>
      \/ listPc' = "run" /\ listCutin' = 0 /\ listOwner' = listCutin /\ listCutin # 0
  <2>1. listCutin # 0 => listCutin \in Tasks!ToSet(listTasks)
    BY PassFacts, MemberOf
  <2> QED
    BY <2>1 DEF Tasks!Select
<1>4. listCutin \in 0..ListTasks
  BY PassFacts, NodeNumbers
<1>5. Tasks!WalkInTimers'
  BY <1>1, <1>3 DEF Tasks!WalkInTimers
<1>6. Tasks!PassInTasks' /\ Tasks!NeverLost'
  BY <1>1, <1>2, <1>3, PassFacts DEF Tasks!PassInTasks, Tasks!NeverLost
<1>7. Tasks!NoStrayRun'
  BY <1>1, <1>2, <1>3, PassFacts, MemberOf DEF Tasks!NoStrayRun
<1> QED
  BY <1>1, <1>3, <1>4, <1>5, <1>6, <1>7, PassFacts, PassKeeps

LEMMA VisitKeeps == ASSUME Tasks!Inv, Tasks!Visit PROVE Tasks!Inv'
<1> USE DEF Tasks!Null
<1>1. /\ listPc = "ring" /\ listVisits < listCount /\ listVisits' = listVisits + 1
      /\ UNCHANGED Tasks!pools
      /\ UNCHANGED <<listTasks, listTimers, listCutin, listCount, listIt, listNext, listIndex,
                     listGone, listAsked>>
  BY DEF Tasks!Visit, Tasks!pools
<1>2. listTasks # <<>> /\ listCurrent \in ToSet(listTasks) /\ listCurrent # 0
  BY <1>1, PassFacts
<1>3. /\ listTrigger' = listTrigger \ {listCurrent}
      /\ \/ listPc' = "run" /\ listOwner' = listCurrent
         \/ listPc' = "ring" /\ listOwner' = listOwner
      /\ listCurrent' \in {Tasks!Begin(listTasks), Tasks!Link(listTasks, listCurrent)}
      /\ listCurrent' = Tasks!Link(listTasks, listCurrent) => listCurrent' # 0
                                                               \/ listCurrent' = Tasks!Begin(listTasks)
  BY <1>2 DEF Tasks!Visit
<1>4. listCurrent' \in ToSet(listTasks) /\ listCurrent' # 0
  <2>1. Tasks!Begin(listTasks) \in ToSet(listTasks) /\ Tasks!Begin(listTasks) # 0
    BY <1>2, PassFacts, BeginIs, NodeNumbers
  <2>2. Tasks!Link(listTasks, listCurrent) \in ToSet(listTasks) \cup {0}
    BY PassFacts, LinkIn
  <2> QED
    BY <1>3, <2>1, <2>2
<1>5. listCurrent \in 0..ListTasks
  BY <1>2, PassFacts, NodeNumbers
<1>6. Tasks!WalkInTimers'
  BY <1>1, <1>3 DEF Tasks!WalkInTimers
<1>7. Tasks!PassInTasks' /\ Tasks!NeverLost'
  BY <1>1, <1>2, <1>3, <1>4, PassFacts DEF Tasks!PassInTasks, Tasks!NeverLost
<1>8. Tasks!NoStrayRun'
  BY <1>1, <1>3, <1>4, PassFacts, MemberOf DEF Tasks!NoStrayRun
<1>9. listVisits + 1 \in Nat
  BY PassNumbers
<1> QED
  BY <1>1, <1>3, <1>5, <1>6, <1>7, <1>8, <1>9, PassFacts, PassKeeps

LEMMA ReturnKeeps == ASSUME Tasks!Inv, Tasks!Return PROVE Tasks!Inv'
<1> USE DEF Tasks!Null
<1>1. /\ listPc = "run" /\ listPc' = "top" /\ listOwner' = 0 /\ listGone' = FALSE
      /\ UNCHANGED Tasks!pools
      /\ UNCHANGED <<listTasks, listTimers, listCutin, listCurrent, listCount, listIt, listNext,
                     listIndex, listVisits>>
  BY DEF Tasks!Return, Tasks!pools, Tasks!walk
<1>2. listTrigger' \cap ToSet(listTasks) \subseteq listAsked'
  BY PassFacts DEF Tasks!Return
<1>3. Tasks!WalkInTimers' /\ Tasks!PassInTasks' /\ Tasks!NeverLost'
  BY <1>1, PassFacts DEF Tasks!WalkInTimers, Tasks!PassInTasks, Tasks!NeverLost
<1>4. Tasks!NoStrayRun'
  BY <1>1, <1>2, PassFacts, MemberOf DEF Tasks!NoStrayRun
<1>5. 0 \in 0..ListTasks
  BY NodeNumbers
<1> QED
  BY <1>1, <1>3, <1>4, <1>5, PassFacts, PassKeeps

LEMMA NoneDueKeeps == ASSUME Tasks!Inv, Tasks!NoneDue PROVE Tasks!Inv'
<1> USE DEF Tasks!Null
<1>1. /\ listPc = "ring" /\ listPc' = "top" /\ UNCHANGED Tasks!pools
      /\ UNCHANGED <<listTasks, listTimers, listTrigger, listCutin, listCurrent, listCount, listIt,
                     listNext, listIndex, listVisits, listOwner, listGone, listAsked>>
  BY DEF Tasks!NoneDue, Tasks!pools, Tasks!walk, Tasks!running
<1>2. Tasks!WalkInTimers' /\ Tasks!PassInTasks' /\ Tasks!NeverLost'
  BY <1>1, PassFacts DEF Tasks!WalkInTimers, Tasks!PassInTasks, Tasks!NeverLost
<1>3. Tasks!NoStrayRun'
  BY <1>1, PassFacts, MemberOf DEF Tasks!NoStrayRun
<1> QED
  BY <1>1, <1>2, <1>3, PassFacts, PassKeeps

LEMMA ListsStep == Tasks!Inv /\ [Tasks!Next]_Tasks!vars => Tasks!Inv'
<1> SUFFICES ASSUME Tasks!Inv, [Tasks!Next]_Tasks!vars PROVE Tasks!Inv'
  OBVIOUS
<1>1. CASE Tasks!Pass
  BY <1>1, TopKeeps, CallTimerKeeps, TimerReturnsKeeps, SelectKeeps, VisitKeeps, ReturnKeeps,
     NoneDueKeeps DEF Tasks!Pass
<1>2. CASE Tasks!Call
  BY <1>2, CallKeeps
<1>3. CASE UNCHANGED Tasks!vars
  <2>1. listTrigger \cap ToSet(listTasks) \subseteq listAsked /\ listCutin \in ToSet(listTasks) \cup {0}
    BY PassFacts
  <2> QED
    BY <1>3, <2>1, TriggersKeep DEF Tasks!vars, Tasks!pools
<1> QED
  BY <1>1, <1>2, <1>3 DEF Tasks!Next

\* Whatever loops and timer callbacks add, remove, trigger and cancel between any two steps of a
\* pass, for pools of any size: the pass stands on a node, runs no task that was removed, keeps no
\* pointer to one, and no task has a trigger that was meant for the one before it in its node.
THEOREM ListsAreKept == Tasks!Spec => []NoStrayRun
<1>1. Tasks!Init => Tasks!Inv
  BY ListsInit
<1>2. Tasks!Inv /\ [Tasks!Next]_Tasks!vars => Tasks!Inv'
  BY ListsStep
<1>3. Tasks!Inv => NoStrayRun
  BY DEF Tasks!Inv, NoStrayRun
<1> QED
  BY <1>1, <1>2, <1>3, PTL DEF Tasks!Spec
=============================================================================
