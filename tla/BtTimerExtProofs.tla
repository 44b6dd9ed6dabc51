-------------------------- MODULE BtTimerExtProofs --------------------------
(***************************************************************************)
(* Proofs about the external timers, for any number of entries and timers, *)
(* any lengths and with handovers that succeed, fail and arrive.           *)
(***************************************************************************)
EXTENDS BtTimerExt, WellFoundedInduction, TLAPS

\* What the callers and the scheduler give: only the Bluetooth task uses the
\* timers, and no tick passes inside an operation.
Quiet == ~Overlap /\ ~Preempted

\* The OS timer was armed for an entry that still holds a timer.
Current == running \in Slots /\ InUse(timers, running)

-----------------------------------------------------------------------------
(* The invariant.  While a handover is under way the OS timer is stopped and *)
(* entries come due unseen; nothing is asked of the table until it ends.     *)

\* A time read by an operation is still the current one, and a stop that has
\* read it runs between the steps of the scan that look at the table.  Only a
\* partner starts the timers of the other side.
Undisturbed ==
    /\ age = 0 /\ stopping.age = 0
    /\ stopping.id # NoId => pc \in {"idle", "call"}
    /\ pc = "update" => rho = "partner"

\* The entry that is copied is due until it is freed.
Clearing == pc = "clear" => at \in Slots /\ Overdue(at)

\* The OS timer expires with the timer it was armed for, the first to come.
Armed ==
    Current /\ timers[running].left > 0 =>
        /\ osLeft = timers[running].left
        /\ \A s \in Coming : osLeft <= timers[s].left

\* Outside of the scan the pointer is lost only when no timer is to come, and
\* whoever is due has an event coming, the pointer's entry in any case.
Pending ==
    pc \in {"idle", "call", "update"} =>
        /\ ~Current => Coming = {}
        /\ \A s \in Slots : Overdue(s) => event \/ (s \in missed /\ s # running)

\* The scan leaves nothing due behind it, and knows a lost pointer by its entry.
Scanning ==
    /\ pc \in {"scan", "clear"} =>
          /\ \A s \in Slots : s < at => ~Overdue(s)
          /\ ~Current => running # Null \/ Coming = {}
    /\ pc = "arm" => running = Null /\ \A s \in Slots : ~Overdue(s)

TimerInv ==
    /\ Undisturbed /\ Clearing
    /\ rho # "handing" => Armed /\ Pending /\ Scanning

-----------------------------------------------------------------------------
(* The operators.                                                            *)

LEMMA SlotFacts ==
    /\ SlotCount \in Nat \ {0} /\ MaxLen \in Nat \ {0} /\ MaxLate \in Nat \ {0}
    /\ Slots \subseteq Nat /\ Null \notin Slots
    /\ \A n \in Nat : n \in Slots <=> 1 <= n /\ n <= SlotCount
BY BtTimerAssumption DEF Slots, Null

\* A set of numbers that is not empty has a least member.
LEMMA LeastNumber ==
    ASSUME NEW S \in SUBSET Nat, S # {}
    PROVE  \E n \in S : \A m \in S : n <= m
<1>1. PICK n \in S : \A m \in S : ~ (<<m, n>> \in OpToRel(<, Nat))
  BY NatLessThanWellFounded, WFMin
<1>2. \A m \in S : ~ (m < n)
  BY <1>1 DEF OpToRel
<1> QED BY <1>2

\* bt_timer_ext_find_recent: nothing when no timer is to come, otherwise an entry
\* whose timer is to come and which no other one precedes.
LEMMA RecentIsSoonest ==
    ASSUME NEW t \in [Slots -> [id : Ids \cup {NoId}, left : -MaxLate .. MaxLen]],
           NEW n \in Nat
    PROVE  \/ /\ Recent(t, n) = Null
              /\ \A s \in Slots : InUse(t, s) => t[s].left + n <= 0
           \/ /\ Recent(t, n) \in Slots /\ InUse(t, Recent(t, n))
              /\ t[Recent(t, n)].left + n > 0
              /\ \A s \in Slots : InUse(t, s) /\ t[s].left + n > 0
                                     => t[Recent(t, n)].left <= t[s].left
<1> DEFINE later == {s \in Slots : InUse(t, s) /\ t[s].left + n > 0}
           first == {s \in later : \A r \in later :
                        \/ t[s].left < t[r].left
                        \/ t[s].left = t[r].left /\ s <= r}
<1>0. \A s \in Slots : t[s].left \in Int
    BY SlotFacts
<1>1. CASE later = {}
  <2>1. Recent(t, n) = Null
      BY <1>1 DEF Recent
  <2> QED BY <2>1, <1>1, <1>0
<1>2. CASE later # {}
  <2> DEFINE L == {t[s].left + n : s \in later}
  <2>1. PICK s0 \in later : \A r \in later : t[s0].left <= t[r].left
    <3>1. L \in SUBSET Nat /\ L # {}
        BY <1>0, <1>2
    <3>2. PICK l \in L : \A m \in L : l <= m
        BY <3>1, LeastNumber
    <3>3. PICK s1 \in later : l = t[s1].left + n
        BY <3>2
    <3>4. \A r \in later : t[s1].left + n <= t[r].left + n
        BY <3>2, <3>3
    <3> QED BY <3>4, <1>0
  <2> DEFINE T == {s \in later : t[s].left = t[s0].left}
  <2>2. PICK s1 \in T : \A r \in T : s1 <= r
    <3>1. T \in SUBSET Nat /\ T # {}
        BY SlotFacts, <2>1
    <3> QED BY <3>1, LeastNumber
  <2>3. s1 \in first
      BY <2>1, <2>2, <1>0
  <2>4. Recent(t, n) \in first
    <3>1. Recent(t, n) = CHOOSE s \in first : TRUE
        BY <1>2 DEF Recent
    <3> QED BY <3>1, <2>3
  <2>5. \A s \in later : t[Recent(t, n)].left <= t[s].left
      BY <2>4, <1>0
  <2> QED BY <2>4, <2>5
<1> QED BY <1>1, <1>2

\* What bt_timer_ext_start does to the table, as a step.
StartStep(id, len) ==
    /\ timers' = Started(Table, id, len).timers
    /\ running' = Started(Table, id, len).running
    /\ osLeft' = Started(Table, id, len).osLeft

\* It takes a free entry, and arms the OS timer unless an earlier one is armed.
Taken(s, id, len) ==
    /\ timers[s].id = NoId
    /\ timers' = [timers EXCEPT ![s] = [id |-> id, left |-> len]]
    /\ \/ /\ Current /\ timers[running].left < len
          /\ UNCHANGED <<running, osLeft>>
       \/ /\ Current => timers[running].left >= len
          /\ running' = s /\ osLeft' = len

TableType ==
    /\ timers \in [Slots -> [id : Ids \cup {NoId}, left : -MaxLate .. MaxLen]]
    /\ running \in Slots \cup {Null}
    /\ osLeft \in 0 .. MaxLen + MaxLate

LEMMA StartTakes ==
    ASSUME TableType, NEW id \in Ids, NEW len \in 1 .. MaxLen, StartStep(id, len)
    PROVE  UNCHANGED <<timers, running, osLeft>> \/ \E s \in Slots : Taken(s, id, len)
<1>1. CASE Found(timers, id) # {} \/ Found(timers, NoId) = {}
  <2>1. Started(Table, id, len) = Table
      BY <1>1 DEF Started, Table
  <2> QED BY <2>1 DEF StartStep, Table
<1>2. CASE Found(timers, id) = {} /\ Found(timers, NoId) # {}
  <2> DEFINE s == CHOOSE x \in Found(timers, NoId) : TRUE
             t == [timers EXCEPT ![s] = [id |-> id, left |-> len]]
             armedSooner == /\ running # Null /\ InUse(t, running)
                            /\ t[running].left < 0 \/ t[running].left < len
  <2>1. s \in Slots /\ timers[s].id = NoId
      BY <1>2 DEF Found
  <2>2. Started(Table, id, len) =
            IF armedSooner THEN [Table EXCEPT !.timers = t]
            ELSE [timers |-> t, running |-> s, osLeft |-> len]
      BY <1>2, Zenon DEF Started, Table
  <2> HIDE DEF s, t, armedSooner
  <2>3. timers' = t
    <3>1. CASE armedSooner
        BY <2>2, <3>1 DEF StartStep, Table
    <3>2. CASE ~armedSooner
        BY <2>2, <3>2 DEF StartStep
    <3> QED BY <3>1, <3>2
  <2> USE DEF t, armedSooner
  <2>4. \A r \in Slots : timers[r].left \in Int /\ len \in Int
      BY SlotFacts DEF TableType
  <2>5. CASE armedSooner
    <3>1. UNCHANGED <<running, osLeft>>
        BY <2>2, <2>5 DEF StartStep, Table
    <3>2. running \in Slots
        BY <2>5 DEF TableType
    <3>3. running # s
        BY <2>5, <2>1, <3>2 DEF TableType
    <3>4. t[running] = timers[running]
        BY <3>2, <3>3 DEF TableType
    <3>5. Current /\ timers[running].left < len
        BY <3>2, <3>4, <2>5, <2>4, SlotFacts DEF Current, InUse
    <3> QED BY <2>1, <2>3, <3>1, <3>5 DEF Taken
  <2>6. CASE ~armedSooner
    <3>1. running' = s /\ osLeft' = len
        BY <2>2, <2>6 DEF StartStep
    <3>2. ASSUME Current PROVE timers[running].left >= len
      <4>1. running # s /\ running \in Slots /\ running # Null
          BY <3>2, <2>1, SlotFacts DEF Current, InUse
      <4>2. t[running] = timers[running]
          BY <4>1 DEF TableType
      <4> QED BY <4>1, <4>2, <2>4, <2>6, <3>2 DEF Current, InUse
    <3> QED BY <2>1, <2>3, <3>1, <3>2 DEF Taken
  <2> QED BY <2>5, <2>6
<1> QED BY <1>1, <1>2

-----------------------------------------------------------------------------
(* Types, whatever the callers and the scheduler do.                         *)

ScanType ==
    /\ pc \in {"idle", "scan", "clear", "arm", "call", "update"}
    /\ at \in 1 .. SlotCount + 1 /\ age \in 0 .. MaxLate
    /\ pc = "clear" => at \in Slots
    /\ expired \in [Slots -> Ids \cup {NoId}]

RestType ==
    /\ event \in BOOLEAN
    /\ stopping \in [id : Ids \cup {NoId}, age : 0 .. MaxLate]
    /\ rho \in {"agent", "handing", "partner"} /\ missed \subseteq Slots

LEMMA TypeParts ==
    TypeOK /\ (pc = "clear" => at \in Slots) <=> TableType /\ ScanType /\ RestType
BY DEF TypeOK, TableType, ScanType, RestType

\* Arming for the soonest timer keeps the types of the pointer and of the OS timer.
LEMMA RecentType ==
    ASSUME NEW t \in [Slots -> [id : Ids \cup {NoId}, left : -MaxLate .. MaxLen]],
           NEW n \in 0 .. MaxLate
    PROVE  /\ Recent(t, n) \in Slots \cup {Null}
           /\ Recent(t, n) # Null => t[Recent(t, n)].left + n \in 0 .. MaxLen + MaxLate
<1>1. Recent(t, n) \in Slots \cup {Null}
    BY RecentIsSoonest, SlotFacts
<1>2. ASSUME Recent(t, n) # Null
      PROVE  Recent(t, n) \in Slots /\ t[Recent(t, n)].left + n > 0
    BY <1>2, RecentIsSoonest, SlotFacts
<1>3. \A s \in Slots : t[s].left \in -MaxLate .. MaxLen
    OBVIOUS
<1>4. ASSUME NEW l \in -MaxLate .. MaxLen, l + n > 0
      PROVE  l + n \in 0 .. MaxLen + MaxLate
    BY <1>4, SlotFacts
<1> QED BY <1>1, <1>2, <1>3, <1>4, Zenon

LEMMA FreeType == Free \in [id : Ids \cup {NoId}, left : -MaxLate .. MaxLen]
BY SlotFacts DEF Free

LEMMA StartType ==
    ASSUME TableType, NEW id \in Ids, NEW len \in 1 .. MaxLen, StartStep(id, len)
    PROVE  TableType'
<1>1. CASE UNCHANGED <<timers, running, osLeft>>
    BY <1>1 DEF TableType
<1>2. CASE \E s \in Slots : Taken(s, id, len)
  <2>1. PICK s \in Slots : Taken(s, id, len)
      BY <1>2
  <2>2. [id |-> id, left |-> len] \in [id : Ids \cup {NoId}, left : -MaxLate .. MaxLen]
      BY SlotFacts
  <2> QED BY <2>1, <2>2, SlotFacts DEF TableType, Taken
<1> QED BY <1>1, <1>2, StartTakes

LEMMA TypeStep ==
    ASSUME TableType, ScanType, RestType, [Next]_vars
    PROVE  TableType' /\ ScanType' /\ RestType'
<1> USE SlotFacts
<1>1. ASSUME NEW id \in Ids, NEW len \in 1 .. MaxLen, Start(id, len)
      PROVE  TableType' /\ ScanType' /\ RestType'
  <2>1. StartStep(id, len)
      BY <1>1 DEF Start, StartStep
  <2> QED BY <1>1, <2>1, StartType DEF Start, scan, handover, ScanType, RestType
<1>2. ASSUME NEW id \in Ids, StopEnter(id)
      PROVE  TableType' /\ ScanType' /\ RestType'
    BY <1>2 DEF StopEnter, scan, handover, TableType, ScanType, RestType
<1>3. CASE Stop
  <2>1. ScanType' /\ RestType'
    <3>1. ScanType'
        BY <1>3 DEF Stop, scan, ScanType
    <3>2. stopping' \in [id : Ids \cup {NoId}, age : 0 .. MaxLate]
        BY <1>3 DEF Stop, NoStop
    <3>3. missed' \subseteq Slots
        BY <1>3 DEF Stop, RestType
    <3> QED BY <1>3, <3>1, <3>2, <3>3 DEF Stop, RestType
  <2>2. CASE Found(timers, stopping.id) = {}
    <3>1. UNCHANGED <<timers, running, osLeft>>
        BY <1>3, <2>2, Zenon DEF Stop
    <3> QED BY <2>1, <3>1 DEF TableType
  <2>3. CASE Found(timers, stopping.id) # {}
    <3>1. PICK s \in Found(timers, stopping.id) :
              /\ timers' = [timers EXCEPT ![s] = Free]
              /\ IF s = running THEN Arm(timers', stopping.age)
                                ELSE UNCHANGED <<running, osLeft>>
        BY <1>3, <2>3 DEF Stop
    <3>2. timers' \in [Slots -> [id : Ids \cup {NoId}, left : -MaxLate .. MaxLen]]
        BY <3>1, FreeType DEF TableType
    <3>3. stopping.age \in 0 .. MaxLate
        BY DEF RestType
    <3>4. CASE s = running
      <4>1. Arm(timers', stopping.age)
          BY <3>1, <3>4
      <4>2. running' \in Slots \cup {Null}
          BY <4>1, <3>2, <3>3, RecentType DEF Arm
      <4>3. osLeft' \in 0 .. MaxLen + MaxLate
        <5>1. CASE Recent(timers', stopping.age) = Null
            BY <4>1, <5>1 DEF Arm
        <5>2. CASE Recent(timers', stopping.age) # Null
            BY <4>1, <5>2, <3>2, <3>3, RecentType DEF Arm
        <5> QED BY <5>1, <5>2
      <4> QED BY <2>1, <3>2, <4>2, <4>3 DEF TableType
    <3>5. CASE s # running
      <4>1. UNCHANGED <<running, osLeft>>
          BY <3>1, <3>5
      <4> QED BY <2>1, <3>2, <4>1 DEF TableType
    <3> QED BY <3>4, <3>5
  <2> QED BY <2>1, <2>2, <2>3
<1>4. CASE Tick
  <2>1. timers' \in [Slots -> [id : Ids \cup {NoId}, left : -MaxLate .. MaxLen]]
    <3>1. \A s \in Slots : timers[s].left > -MaxLate =>
              [timers[s] EXCEPT !.left = @ - 1] \in [id : Ids \cup {NoId}, left : -MaxLate .. MaxLen]
        BY DEF TableType
    <3> QED BY <1>4, <3>1 DEF Tick, TableType
  <2>2. TableType'
      BY <1>4, <2>1 DEF Tick, TableType
  <2>3. ScanType'
      BY <1>4 DEF Tick, ScanType
  <2>4. stopping' \in [id : Ids \cup {NoId}, age : 0 .. MaxLate]
      BY <1>4 DEF Tick, RestType, NoStop
  <2>5. event' \in BOOLEAN
      BY <1>4, Zenon DEF Tick
  <2> QED BY <1>4, <2>2, <2>3, <2>4, <2>5 DEF Tick, handover, RestType
<1>5. CASE HandleInterrupt
  <2>1. event' \in BOOLEAN
      BY <1>5, Zenon DEF HandleInterrupt
  <2> QED BY <1>5, <2>1 DEF HandleInterrupt, TableType, ScanType, RestType
<1>6. CASE ScanSkip
    BY <1>6 DEF ScanSkip, handover, TableType, ScanType, RestType
<1>7. CASE ScanCopy
    BY <1>7 DEF ScanCopy, handover, TableType, ScanType, RestType
<1>8. CASE ScanClear
    BY <1>8, FreeType DEF ScanClear, handover, TableType, ScanType, RestType
<1>9. CASE ScanEnd
    BY <1>9 DEF ScanEnd, handover, TableType, ScanType, RestType
<1>10. CASE Rearm
  <2>1. age \in 0 .. MaxLate
      BY DEF ScanType
  <2>2. TableType'
      BY <1>10, <2>1, RecentType DEF Rearm, TableType
  <2> QED BY <1>10, <2>2 DEF Rearm, handover, ScanType, RestType
<1>11. CASE Callback
    BY <1>11 DEF Callback, handover, TableType, ScanType, RestType
<1>12. CASE CallbacksDone
    BY <1>12 DEF CallbacksDone, handover, TableType, ScanType, RestType
<1>13. CASE RhoGetData
    BY <1>13 DEF RhoGetData, scan, TableType, ScanType, RestType
<1>14. CASE RhoSuccess
    BY <1>14, FreeType DEF RhoSuccess, scan, TableType, ScanType, RestType
<1>15. CASE RhoFail
  <2>1. TableType'
    <3>1. CASE InUseSlots = {}
        BY <1>15, <3>1 DEF RhoFail, TableType
    <3>2. CASE InUseSlots # {}
      <4>1. running' = Recent(timers, 0)
          BY <1>15, <3>2 DEF RhoFail
      <4>2. osLeft' = IF Recent(timers, 0) = Null THEN osLeft ELSE timers[Recent(timers, 0)].left
          BY <1>15, <3>2 DEF RhoFail
      <4>3. ASSUME NEW r \in Slots
            PROVE  timers[r].left + 0 = timers[r].left
          BY DEF TableType
      <4> QED BY <1>15, <4>1, <4>2, <4>3, RecentType DEF RhoFail, TableType
    <3> QED BY <3>1, <3>2
  <2> QED BY <1>15, <2>1 DEF RhoFail, scan, ScanType, RestType, InUseSlots
<1>16. CASE RhoUpdate
    BY <1>16, FreeType DEF RhoUpdate, TableType, ScanType, RestType
<1>17. ASSUME NEW id \in Ids, NEW len \in 1 .. MaxLen, RhoStart(id, len)
       PROVE  TableType' /\ ScanType' /\ RestType'
  <2>1. StartStep(id, len)
      BY <1>17 DEF RhoStart, StartStep
  <2> QED BY <1>17, <2>1, StartType DEF RhoStart, scan, handover, ScanType, RestType
<1>18. CASE RhoUpdated
    BY <1>18 DEF RhoUpdated, TableType, ScanType, RestType
<1>19. CASE UNCHANGED vars
    BY <1>19 DEF vars, TableType, ScanType, RestType
<1> QED
    BY <1>1, <1>2, <1>3, <1>4, <1>5, <1>6, <1>7, <1>8, <1>9, <1>10, <1>11, <1>12, <1>13,
       <1>14, <1>15, <1>16, <1>17, <1>18, <1>19
    DEF Next, Calls, Service, HandoverStep

LEMMA InitTypes == Init => TableType /\ ScanType /\ RestType
<1> SUFFICES ASSUME Init PROVE TableType /\ ScanType /\ RestType
    OBVIOUS
<1>1. TableType
    BY FreeType, SlotFacts DEF Init, TableType
<1>2. ScanType
    BY SlotFacts DEF Init, ScanType
<1>3. RestType
  <2>1. event \in BOOLEAN
      BY Zenon DEF Init
  <2>2. stopping \in [id : Ids \cup {NoId}, age : 0 .. MaxLate]
      BY SlotFacts DEF Init, NoStop
  <2> QED BY <2>1, <2>2 DEF Init, RestType
<1> QED BY <1>1, <1>2, <1>3

\* The table, the pointer, the OS timer and the scan have their types in every
\* reachable state, also when other tasks and ticks come in between.
THEOREM TypeCorrect == Spec => []TypeOK
<1> DEFINE Inv == TableType /\ ScanType /\ RestType
<1>1. Init => Inv
    BY InitTypes
<1>2. Inv /\ [Next]_vars => Inv'
    BY TypeStep
<1>3. Inv => TypeOK
    BY TypeParts
<1> HIDE DEF Inv
<1> QED BY <1>1, <1>2, <1>3, PTL DEF Spec

-----------------------------------------------------------------------------
(* The invariant, step by step.                                              *)

Types == TableType /\ ScanType /\ RestType

LEMMA TypesStep == Types /\ [Next]_vars => Types'
BY TypeStep DEF Types

\* Callers come between the steps of the task, the task after a stop of its own.
LEMMA QuietSteps ==
    ASSUME Quiet
    PROVE  /\ MayCall => pc \in {"idle", "call"} /\ stopping = NoStop
           /\ TaskStep => stopping = NoStop
           /\ Tick => pc \in {"idle", "call"} /\ stopping = NoStop
BY BtTimerAssumption DEF Quiet, MayCall, TaskStep, Tick

LEMMA BaseStep ==
    ASSUME Types, Quiet, Undisturbed, Clearing, [Next]_vars
    PROVE  Undisturbed' /\ Clearing'
<1> USE QuietSteps, SlotFacts DEF Undisturbed, Clearing, NoStop
<1>1. ASSUME NEW id \in Ids, NEW len \in 1 .. MaxLen, Start(id, len)
      PROVE  Undisturbed' /\ Clearing'
    BY <1>1 DEF Start, scan, handover
<1>2. ASSUME NEW id \in Ids, StopEnter(id)
      PROVE  Undisturbed' /\ Clearing'
    BY <1>2 DEF StopEnter, scan, handover
<1>3. CASE Stop
  <2>1. pc \in {"idle", "call"}
      BY <1>3 DEF Stop, Types, RestType
  <2> QED BY <1>3, <2>1 DEF Stop, scan, handover
<1>4. CASE Tick
    BY <1>4 DEF Tick, handover
<1>5. CASE HandleInterrupt
    BY <1>5 DEF HandleInterrupt
<1>6. CASE ScanSkip
    BY <1>6 DEF ScanSkip, handover
<1>7. CASE ScanCopy
  <2>1. Overdue(at)
      BY <1>7 DEF ScanCopy, Due, Overdue, Types, TableType
  <2> QED BY <1>7, <2>1 DEF ScanCopy, Overdue, InUse, handover
<1>8. CASE ScanClear
    BY <1>8 DEF ScanClear, handover
<1>9. CASE ScanEnd
    BY <1>9 DEF ScanEnd, handover
<1>10. CASE Rearm
    BY <1>10 DEF Rearm, handover
<1>11. CASE Callback
    BY <1>11 DEF Callback, handover
<1>12. CASE CallbacksDone
    BY <1>12 DEF CallbacksDone, handover
<1>13. CASE RhoGetData
    BY <1>13 DEF RhoGetData, scan
<1>14. CASE RhoSuccess
    BY <1>14 DEF RhoSuccess, scan
<1>15. CASE RhoFail
    BY <1>15 DEF RhoFail, scan
<1>16. CASE RhoUpdate
    BY <1>16 DEF RhoUpdate
<1>17. ASSUME NEW id \in Ids, NEW len \in 1 .. MaxLen, RhoStart(id, len)
       PROVE  Undisturbed' /\ Clearing'
    BY <1>17 DEF RhoStart, scan, handover
<1>18. CASE RhoUpdated
    BY <1>18 DEF RhoUpdated
<1>19. CASE UNCHANGED vars
    BY <1>19 DEF vars, Overdue, InUse
<1> QED
    BY <1>1, <1>2, <1>3, <1>4, <1>5, <1>6, <1>7, <1>8, <1>9, <1>10, <1>11, <1>12, <1>13,
       <1>14, <1>15, <1>16, <1>17, <1>18, <1>19
    DEF Next, Calls, Service, HandoverStep

\* What the table says while no handover is under way.
Order == Armed /\ Pending /\ Scanning

LEMMA Lefts ==
    ASSUME Types
    PROVE  /\ \A s \in Slots : timers[s].left \in Int
           /\ osLeft \in Int /\ at \in Int
           /\ running \in Slots \/ (running = Null /\ running \notin Slots)
BY SlotFacts DEF Types, TableType, ScanType

\* A table without timers is in order, whatever the scan is not doing.
LEMMA EmptyOrder ==
    ASSUME pc' \notin {"scan", "clear", "arm"}, timers' = [s \in Slots |-> Free], running' = Null
    PROVE  Order'
<1>1. \A s \in Slots : ~InUse(timers, s)'
    BY DEF InUse, Free
<1>2. ~Current'
    BY <1>1 DEF Current
<1> QED BY <1>1, <1>2 DEF Order, Armed, Pending, Scanning, Coming, Overdue

\* Steps that leave the table alone keep it in order, if the scan is where it was.
LEMMA SameOrder ==
    ASSUME Order, UNCHANGED <<timers, running, osLeft, event, missed>>, pc' = pc /\ at' = at
    PROVE  Order'
BY DEF Order, Armed, Pending, Scanning, Coming, Overdue, Current, InUse

LEMMA StartOrder ==
    ASSUME Types, NEW id \in Ids, NEW len \in 1 .. MaxLen, StartStep(id, len),
           Order, pc \in {"idle", "call", "update"}, UNCHANGED <<pc, at, event, missed>>
    PROVE  Order'
<1>1. CASE UNCHANGED <<timers, running, osLeft>>
    BY <1>1, SameOrder
<1>2. CASE \E s \in Slots : Taken(s, id, len)
  <2>1. PICK s \in Slots : Taken(s, id, len)
      BY <1>2
  <2>2. /\ ~InUse(timers, s) /\ InUse(timers, s)' /\ timers'[s].left = len
        /\ \A r \in Slots \ {s} : timers'[r] = timers[r]
      BY <2>1, BtTimerAssumption DEF Taken, InUse, Types, TableType
  <2>3. /\ ~Overdue(s)' /\ Coming' = Coming \cup {s}
        /\ \A r \in Slots : Overdue(r)' => Overdue(r)
      BY <2>2, SlotFacts DEF Overdue, InUse, Coming
  <2>4. CASE Current /\ timers[running].left < len /\ UNCHANGED <<running, osLeft>>
    <3>1. running # s /\ Current'
        BY <2>2, <2>4 DEF Current, InUse
    <3>2. Armed'
        BY <2>2, <2>3, <2>4, <3>1, Lefts DEF Order, Armed, Current, Coming
    <3>3. Pending'
        BY <2>3, <2>4, <3>1 DEF Order, Pending
    <3> QED BY <3>2, <3>3 DEF Order, Scanning
  <2>5. CASE (Current => timers[running].left >= len) /\ running' = s /\ osLeft' = len
    <3>1. Current' /\ timers'[running'].left = len
        BY <2>2, <2>5 DEF Current
    <3>2. \A r \in Coming : len <= timers[r].left
      <4>1. CASE Current
        <5>1. timers[running].left >= len /\ timers[running].left > 0
          <6>1. running \in Slots /\ timers[running].left \in Int
              BY <4>1, Lefts DEF Current
          <6>2. timers[running].left >= len
              BY <2>5, <4>1
          <6> QED BY <6>1, <6>2, SlotFacts
        <5>2. osLeft = timers[running].left /\ \A r \in Coming : osLeft <= timers[r].left
            BY <4>1, <5>1 DEF Order, Armed
        <5> QED BY <5>1, <5>2, Lefts, SlotFacts DEF Coming
      <4>2. CASE ~Current
          BY <4>2 DEF Order, Pending
      <4> QED BY <4>1, <4>2
    <3>3. Armed'
        BY <2>2, <2>3, <2>5, <3>1, <3>2 DEF Armed, Coming
    <3>4. \A r \in Slots : Overdue(r) => event \/ r \in missed
        BY DEF Order, Pending
    <3>5. Pending'
        BY <2>3, <2>5, <3>1, <3>4 DEF Pending
    <3> QED BY <3>3, <3>5 DEF Order, Scanning
  <2> QED BY <2>1, <2>4, <2>5 DEF Taken
<1> QED BY <1>1, <1>2, StartTakes DEF Types

\* Arming for the soonest timer puts the table in order.
LEMMA ArmOrder ==
    ASSUME Types, Types', running' = Recent(timers', 0),
           running' # Null => osLeft' = timers'[running'].left,
           pc' \in {"idle", "call"},
           \A s \in Slots : Overdue(s)' => event' \/ s \in missed'
    PROVE  Order'
<1>1. \A s \in Slots : timers'[s].left + 0 = timers'[s].left /\ timers'[s].left \in Int
    BY DEF Types, TableType
<1>2. 0 \in Nat /\ timers' \in [Slots -> [id : Ids \cup {NoId}, left : -MaxLate .. MaxLen]]
    BY DEF Types, TableType
<1>3. \/ /\ running' = Null
         /\ \A s \in Slots : InUse(timers', s) => timers'[s].left <= 0
      \/ /\ running' \in Slots /\ InUse(timers', running')
         /\ timers'[running'].left > 0
         /\ \A s \in Slots : InUse(timers', s) /\ timers'[s].left > 0
                                 => timers'[running'].left <= timers'[s].left
    BY <1>1, <1>2, RecentIsSoonest
<1>4. Armed'
    BY <1>1, <1>3, SlotFacts DEF Armed, Coming, Current, InUse
<1>5. Pending'
  <2>1. ASSUME ~Current' PROVE Coming' = {}
    <3>1. running' = Null
        BY <1>3, <2>1 DEF Current
    <3>2. \A s \in Slots : InUse(timers', s) => timers'[s].left <= 0
        BY <1>3, <3>1, SlotFacts
    <3> QED BY <1>1, <3>2 DEF Coming, InUse
  <2>2. ASSUME NEW s \in Slots, Overdue(s)' PROVE event' \/ (s \in missed' /\ s # running')
    <3>1. s # running'
        BY <1>1, <1>3, <2>2, SlotFacts DEF Overdue
    <3> QED BY <2>2, <3>1
  <2> QED BY <2>1, <2>2 DEF Pending
<1> QED BY <1>4, <1>5 DEF Order, Scanning

LEMMA StopOrder ==
    ASSUME Types, Types', Quiet, Undisturbed, Order, Stop
    PROVE  Order'
<1>1. pc \in {"idle", "call"} /\ stopping.age = 0 /\ UNCHANGED <<pc, at, event>>
    BY DEF Stop, Undisturbed, NoStop, Types, RestType, scan
<1>2. CASE Found(timers, stopping.id) = {}
    BY <1>1, <1>2, SameOrder DEF Stop
<1>3. CASE Found(timers, stopping.id) # {}
  <2>1. PICK s \in Found(timers, stopping.id) :
            /\ timers' = [timers EXCEPT ![s] = Free]
            /\ missed' = missed \ {s}
            /\ IF s = running THEN Arm(timers', stopping.age)
                              ELSE UNCHANGED <<running, osLeft>>
      BY <1>3 DEF Stop
  <2>2. s \in Slots
      BY DEF Found
  <2>3. /\ ~InUse(timers, s)'
        /\ \A r \in Slots \ {s} : timers'[r] = timers[r]
      BY <2>1, <2>2 DEF InUse, Free, Types, TableType
  <2>4. /\ Coming' = Coming \ {s}
        /\ \A r \in Slots : Overdue(r)' => r # s /\ Overdue(r)
      BY <2>3 DEF Coming, Overdue, InUse
  <2>5. CASE s = running
    <3>1. running' = Recent(timers', 0) /\ (running' # Null => osLeft' = timers'[running'].left + 0)
        BY <1>1, <2>1, <2>5 DEF Arm
    <3>2. running' # Null => osLeft' = timers'[running'].left
        BY <3>1 DEF Types, TableType
    <3>3. \A r \in Slots : Overdue(r)' => event' \/ r \in missed'
        BY <1>1, <2>1, <2>4 DEF Order, Pending
    <3> QED BY <1>1, <3>1, <3>2, <3>3, ArmOrder
  <2>6. CASE s # running
    <3>1. UNCHANGED <<running, osLeft>>
        BY <2>1, <2>6
    <3>2. Current' <=> Current
        BY <2>3, <2>6, <3>1 DEF Current, InUse
    <3>3. Armed'
        BY <2>3, <2>4, <2>6, <3>1, <3>2 DEF Order, Armed, Current, Coming
    <3>4. Pending'
        BY <1>1, <2>1, <2>4, <3>1, <3>2 DEF Order, Pending
    <3> QED BY <1>1, <3>3, <3>4 DEF Order, Scanning
  <2> QED BY <2>5, <2>6
<1> QED BY <1>2, <1>3

\* A tick brings the OS timer and the timer it is armed for one step nearer.
LEMMA TickOrder ==
    ASSUME Types, Types', Quiet, Order, Tick
    PROVE  Order'
<1>1. pc \in {"idle", "call"} /\ UNCHANGED <<pc, at, running, missed>>
    BY QuietSteps DEF Tick, handover
<1>2. \A s \in Slots : /\ timers'[s].id = timers[s].id
                       /\ InUse(timers, s) /\ timers[s].left > 0 => timers'[s].left = timers[s].left - 1
                       /\ timers[s].left <= 0 => timers'[s].left <= 0
  <2> SUFFICES ASSUME NEW s \in Slots
               PROVE  /\ timers'[s].id = timers[s].id
                      /\ InUse(timers, s) /\ timers[s].left > 0
                             => timers'[s].left = timers[s].left - 1
                      /\ timers[s].left <= 0 => timers'[s].left <= 0
      OBVIOUS
  <2>1. timers'[s] = IF InUse(timers, s) /\ timers[s].left > -MaxLate
                     THEN [timers[s] EXCEPT !.left = @ - 1] ELSE timers[s]
      BY DEF Tick
  <2>2. timers[s] \in [id : Ids \cup {NoId}, left : -MaxLate .. MaxLen]
      BY DEF Types, TableType
  <2> QED BY <2>1, <2>2, SlotFacts
<1>3. \A s \in Slots : /\ InUse(timers, s)' <=> InUse(timers, s)
                       /\ s \in Coming' => s \in Coming /\ timers'[s].left = timers[s].left - 1
                       /\ Overdue(s)' => Overdue(s) \/ (s \in Coming /\ timers[s].left = 1)
  <2> TAKE s \in Slots
  <2>1. InUse(timers, s)' <=> InUse(timers, s)
      BY <1>2 DEF InUse
  <2>2. timers[s].left \in Int /\ timers'[s].left \in Int
      BY Lefts DEF Types, TableType
  <2>3. s \in Coming' => s \in Coming /\ timers'[s].left = timers[s].left - 1
      BY <1>2, <2>1, <2>2 DEF Coming
  <2>4. Overdue(s)' => Overdue(s) \/ (s \in Coming /\ timers[s].left = 1)
      BY <1>2, <2>1, <2>2 DEF Coming, Overdue
  <2> QED BY <2>1, <2>3, <2>4
<1>4. Current' <=> Current
    BY <1>1, <1>3 DEF Current
<1>5. (osLeft # 0 => osLeft' = osLeft - 1) /\ (event' <=> event \/ osLeft = 1)
  <2>1. osLeft # 0 => osLeft' = osLeft - 1
      BY DEF Tick
  <2>2. event' <=> event \/ osLeft = 1
      BY Zenon DEF Tick
  <2> QED BY <2>1, <2>2
<1>6. Coming # {} => Current
    BY <1>1 DEF Order, Pending
<1>7. \A s \in Coming : timers[s].left = 1 => event \/ osLeft = 1
  <2> SUFFICES ASSUME NEW s \in Coming, timers[s].left = 1, ~event
               PROVE  osLeft = 1
      OBVIOUS
  <2>1. Current
      BY <1>6
  <2>2. timers[running].left > 0
      BY <1>1, <2>1, Lefts DEF Order, Pending, Current, Overdue
  <2> QED BY <2>1, <2>2, Lefts DEF Order, Armed
<1>8. Armed'
  <2> SUFFICES ASSUME Current', timers'[running'].left > 0
               PROVE  /\ osLeft' = timers'[running'].left
                      /\ \A s \in Coming' : osLeft' <= timers'[s].left
      BY DEF Armed
  <2>1. running \in Coming' /\ running \in Slots
      BY <1>1 DEF Current, Coming
  <2>2. running \in Coming /\ timers'[running].left = timers[running].left - 1
      BY <1>3, <2>1
  <2>3. osLeft = timers[running].left /\ osLeft > 0 /\ \A s \in Coming : osLeft <= timers[s].left
      BY <2>2, <1>4 DEF Order, Armed, Coming
  <2> QED BY <1>1, <1>3, <1>5, <2>2, <2>3, Lefts DEF Coming
<1>9. Pending'
  <2>1. ~Current' => Coming' = {}
      BY <1>3, <1>4, <1>6 DEF Coming
  <2>2. ASSUME NEW s \in Slots, Overdue(s)' PROVE event' \/ (s \in missed' /\ s # running')
      BY <1>1, <1>3, <1>5, <1>7, <2>2, Zenon DEF Order, Pending
  <2> QED BY <2>1, <2>2 DEF Pending
<1> QED BY <1>1, <1>8, <1>9 DEF Order, Scanning

-----------------------------------------------------------------------------
(* The steps of the scan and of a handover, and the theorems.                *)

\* A timer is found due at the current tick.
LEMMA DueNow ==
    ASSUME Types, Undisturbed, NEW s \in Slots
    PROVE  Due(s) <=> Overdue(s)
BY Lefts DEF Undisturbed, Due, Overdue

LEMMA ScanClearOrder ==
    ASSUME Types, Clearing, Order, ScanClear
    PROVE  Order'
<1>1. /\ pc = "clear" /\ pc' = "scan" /\ at' = at + 1 /\ at \in Slots /\ at \in Int
      /\ timers' = [timers EXCEPT ![at] = Free] /\ UNCHANGED <<running, osLeft, event, missed>>
    BY Lefts DEF ScanClear, Clearing, handover
<1>2. /\ ~InUse(timers', at)
      /\ \A s \in Slots \ {at} : timers'[s] = timers[s]
    BY <1>1 DEF InUse, Free, Types, TableType
<1>3. Coming' \subseteq Coming
    BY <1>2 DEF Coming, InUse
<1>4. \A s \in Slots : Overdue(s)' => s # at /\ Overdue(s)
    BY <1>2 DEF Overdue, InUse
<1>5. Current' => Current /\ running # at
    BY <1>1, <1>2 DEF Current, InUse
<1>6. Armed'
  <2> SUFFICES ASSUME Current', timers'[running'].left > 0
               PROVE  /\ osLeft' = timers'[running'].left
                      /\ \A s \in Coming' : osLeft' <= timers'[s].left
      BY DEF Armed
  <2>1. Current /\ running \in Slots \ {at} /\ timers'[running] = timers[running]
      BY <1>1, <1>2, <1>5 DEF Current
  <2>2. osLeft = timers[running].left /\ \A s \in Coming : osLeft <= timers[s].left
      BY <1>1, <2>1 DEF Order, Armed
  <2>3. \A s \in Coming' : s \in Coming /\ timers'[s] = timers[s]
      BY <1>1, <1>2, <1>3 DEF Coming
  <2> QED BY <1>1, <2>1, <2>2, <2>3
<1>7. ASSUME NEW s \in Slots, s < at' PROVE ~Overdue(s)'
  <2>1. s < at \/ s = at
      BY <1>1, <1>7, SlotFacts
  <2> QED BY <2>1, <1>1, <1>4 DEF Order, Scanning
<1>8. ASSUME ~Current' PROVE running' # Null \/ Coming' = {}
  <2>1. CASE Current
      BY <1>1, <2>1, SlotFacts DEF Current
  <2>2. CASE ~Current
      BY <1>1, <1>3, <2>2 DEF Order, Scanning
  <2> QED BY <2>1, <2>2
<1> QED BY <1>1, <1>6, <1>7, <1>8 DEF Order, Pending, Scanning

LEMMA ScanEndOrder ==
    ASSUME Types, Order, ScanEnd
    PROVE  Order'
<1>1. /\ pc = "scan" /\ UNCHANGED <<timers, osLeft, event, missed>>
      /\ \A s \in Slots : s < at
    BY Lefts, SlotFacts DEF ScanEnd, handover, Types, ScanType
<1>2. \A s \in Slots : ~Overdue(s) /\ ~Overdue(s)'
    BY <1>1 DEF Order, Scanning, Overdue, InUse
<1>3. CASE running # Null /\ ~InUse(timers, running)
  <2>1. running' = Null /\ pc' = "arm"
      BY <1>3 DEF ScanEnd
  <2> QED BY <1>2, <2>1, SlotFacts DEF Order, Armed, Pending, Scanning, Current
<1>4. CASE ~(running # Null /\ ~InUse(timers, running))
  <2>1. running' = running /\ pc' = "call"
      BY <1>4 DEF ScanEnd
  <2>2. (Current' <=> Current) /\ Coming' = Coming
      BY <1>1, <2>1 DEF Current, Coming, InUse
  <2>3. Armed'
      BY <1>1, <2>1, <2>2 DEF Order, Armed
  <2>4. ~Current => Coming = {}
      BY <1>1, <1>4, Lefts DEF Order, Scanning, Current
  <2> QED BY <1>2, <2>1, <2>2, <2>3, <2>4 DEF Order, Pending, Scanning
<1> QED BY <1>3, <1>4

\* Every step of the scan keeps the table in order.
LEMMA ServiceOrder ==
    ASSUME Types, Types', Quiet, Undisturbed, Clearing, Order, Service
    PROVE  Order'
<1>1. CASE HandleInterrupt
  <2>1. UNCHANGED <<timers, running, osLeft>> /\ pc = "idle" /\ pc' = "scan" /\ at' = 1
      BY <1>1 DEF HandleInterrupt
  <2>2. Armed' /\ (~Current' => Coming' = {})
      BY <2>1 DEF Order, Armed, Pending, Current, Coming, InUse
  <2>3. \A s \in Slots : ~(s < at')
      BY <2>1, SlotFacts
  <2> QED BY <2>1, <2>2, <2>3 DEF Order, Pending, Scanning
<1>2. CASE ScanSkip
  <2>1. /\ pc = "scan" /\ at \in Slots /\ ~Overdue(at) /\ at' = at + 1
        /\ UNCHANGED <<timers, running, osLeft, event, pc, missed>>
      BY <1>2, DueNow DEF ScanSkip, handover
  <2>2. \A s \in Slots : s < at' => s < at \/ s = at
      BY <2>1, SlotFacts
  <2>3. \A s \in Slots : s < at' => ~Overdue(s)
      BY <2>1, <2>2 DEF Order, Scanning
  <2> QED BY <2>1, <2>3 DEF Order, Armed, Pending, Scanning, Coming, Overdue, Current, InUse
<1>3. CASE ScanCopy
  <2>1. pc = "scan" /\ pc' = "clear" /\ UNCHANGED <<timers, running, osLeft, event, at, missed>>
      BY <1>3 DEF ScanCopy, handover
  <2> QED BY <2>1 DEF Order, Armed, Pending, Scanning, Coming, Overdue, Current, InUse
<1>4. CASE ScanClear
    BY <1>4, ScanClearOrder
<1>5. CASE ScanEnd
    BY <1>5, ScanEndOrder
<1>6. CASE Rearm
  <2>1. /\ pc = "arm" /\ pc' = "call" /\ UNCHANGED timers /\ age = 0
        /\ running' = Recent(timers', 0)
        /\ running' # Null => osLeft' = timers'[running'].left + 0
      BY <1>6 DEF Rearm, Undisturbed
  <2>2. running' # Null => osLeft' = timers'[running'].left
      BY <2>1 DEF Types, TableType
  <2>3. \A s \in Slots : ~Overdue(s)'
      BY <2>1 DEF Order, Scanning, Overdue, InUse
  <2> QED BY <2>1, <2>2, <2>3, ArmOrder
<1>7. CASE Callback
    BY <1>7, SameOrder DEF Callback, handover
<1>8. CASE CallbacksDone
  <2>1. /\ pc = "call" /\ pc' = "idle"
        /\ UNCHANGED <<timers, running, osLeft, event, missed>>
      BY <1>8 DEF CallbacksDone, handover
  <2> QED BY <2>1 DEF Order, Armed, Pending, Scanning, Coming, Overdue, Current, InUse
<1> QED BY <1>1, <1>2, <1>3, <1>4, <1>5, <1>6, <1>7, <1>8 DEF Service

\* A handover that fails arms for the soonest timer of the table it left alone.
LEMMA FailOrder ==
    ASSUME Types, Types', RhoFail
    PROVE  Order'
<1>1. /\ pc = "idle" /\ pc' = "idle" /\ UNCHANGED <<timers, event>>
      /\ missed' = {s \in InUseSlots : Overdue(s)}
    BY DEF RhoFail, scan
<1>2. \A s \in Slots : Overdue(s)' => s \in missed'
    BY <1>1 DEF Overdue, InUseSlots, InUse
<1>3. CASE InUseSlots = {}
  <2>1. \A s \in Slots : ~InUse(timers, s)'
      BY <1>1, <1>3 DEF InUseSlots, InUse
  <2> QED BY <1>1, <2>1 DEF Order, Armed, Pending, Scanning, Coming, Overdue, Current
<1>4. CASE InUseSlots # {}
  <2>1. /\ running' = Recent(timers', 0)
        /\ running' # Null => osLeft' = timers'[running'].left
      BY <1>1, <1>4 DEF RhoFail
  <2> QED BY <1>1, <1>2, <2>1, ArmOrder
<1> QED BY <1>3, <1>4

LEMMA OrderStep ==
    ASSUME Types, Types', Quiet, TimerInv, [Next]_vars, rho' # "handing"
    PROVE  Order'
<1>1. CASE RhoFail
    BY <1>1, FailOrder
<1>2. CASE RhoSuccess
  <2>1. pc' = "idle" /\ timers' = [s \in Slots |-> Free] /\ running' = Null
      BY <1>2 DEF RhoSuccess, scan
  <2> QED BY <2>1, EmptyOrder
<1>3. CASE ~RhoFail /\ ~RhoSuccess /\ rho # "handing"
  <2>1. Order /\ Undisturbed /\ Clearing
      BY <1>3 DEF TimerInv, Order
  <2>2. ASSUME NEW id \in Ids, NEW len \in 1 .. MaxLen, Start(id, len) PROVE Order'
    <3>1. StartStep(id, len) /\ pc \in {"idle", "call"} /\ UNCHANGED <<pc, at, event, missed>>
        BY <2>2, QuietSteps DEF Start, StartStep, scan, handover
    <3> QED BY <2>1, <3>1, StartOrder
  <2>3. ASSUME NEW id \in Ids, StopEnter(id) PROVE Order'
      BY <2>1, <2>3, SameOrder DEF StopEnter, scan, handover
  <2>4. CASE Stop
      BY <2>1, <2>4, StopOrder
  <2>5. CASE Tick
      BY <2>1, <2>5, TickOrder
  <2>6. CASE Service
      BY <2>1, <2>6, ServiceOrder
  <2>7. CASE RhoGetData
      BY <2>7 DEF RhoGetData
  <2>8. CASE RhoUpdate
    <3>1. pc' = "update" /\ timers' = [s \in Slots |-> Free] /\ running' = Null
        BY <2>8 DEF RhoUpdate
    <3> QED BY <3>1, EmptyOrder
  <2>9. ASSUME NEW id \in Ids, NEW len \in 1 .. MaxLen, RhoStart(id, len) PROVE Order'
    <3>1. StartStep(id, len) /\ pc = "update" /\ UNCHANGED <<pc, at, event, missed>>
        BY <2>9 DEF RhoStart, StartStep, scan, handover
    <3> QED BY <2>1, <3>1, StartOrder
  <2>10. CASE RhoUpdated
    <3>1. pc = "update" /\ pc' = "idle" /\ UNCHANGED <<timers, running, osLeft, event, missed>>
        BY <2>10 DEF RhoUpdated
    <3> QED BY <2>1, <3>1 DEF Order, Armed, Pending, Scanning, Coming, Overdue, Current, InUse
  <2>11. CASE UNCHANGED vars
      BY <2>1, <2>11, SameOrder DEF vars
  <2> QED
      BY <1>3, <2>2, <2>3, <2>4, <2>5, <2>6, <2>7, <2>8, <2>9, <2>10, <2>11
      DEF Next, Calls, HandoverStep
<1>4. CASE ~RhoFail /\ ~RhoSuccess /\ rho = "handing"
  <2>1. Undisturbed
      BY DEF TimerInv
  <2>2. ~RhoGetData /\ ~RhoUpdate /\ ~RhoUpdated
      BY <1>4, <2>1 DEF RhoGetData, RhoUpdate, RhoUpdated, Undisturbed
  <2>3. rho' = rho
    <3>1. ASSUME NEW id \in Ids, NEW len \in 1 .. MaxLen, Start(id, len) \/ RhoStart(id, len)
          PROVE  rho' = rho
        BY <3>1 DEF Start, RhoStart, handover
    <3>2. ASSUME NEW id \in Ids, StopEnter(id) PROVE rho' = rho
        BY <3>2 DEF StopEnter, handover
    <3>3. CASE Stop \/ Tick \/ UNCHANGED vars
        BY <3>3 DEF Stop, Tick, vars, handover
    <3>4. CASE Service
        BY <3>4 DEF Service, HandleInterrupt, ScanSkip, ScanCopy, ScanClear, ScanEnd, Rearm,
                    Callback, CallbacksDone, handover
    <3> QED BY <1>4, <2>2, <3>1, <3>2, <3>3, <3>4 DEF Next, Calls, HandoverStep
  <2> QED BY <1>4, <2>3
<1> QED BY <1>1, <1>2, <1>3, <1>4

LEMMA InvStep ==
    ASSUME Types, Quiet, TimerInv, [Next]_vars
    PROVE  TimerInv'
<1>1. Types'
    BY TypesStep
<1>2. Undisturbed' /\ Clearing'
    BY BaseStep DEF TimerInv
<1>3. rho' # "handing" => Order'
    BY <1>1, OrderStep
<1> QED BY <1>2, <1>3 DEF TimerInv, Order

LEMMA InitInv == Init => Types /\ TimerInv
<1> SUFFICES ASSUME Init PROVE Types /\ TimerInv
    OBVIOUS
<1>1. Types
    BY InitTypes DEF Types
<1>2. /\ pc = "idle" /\ running = Null /\ age = 0 /\ stopping = NoStop
      /\ timers = [s \in Slots |-> Free]
    BY DEF Init
<1>3. \A s \in Slots : ~InUse(timers, s)
    BY <1>2 DEF InUse, Free
<1>4. Undisturbed /\ Clearing
    BY <1>2 DEF Undisturbed, Clearing, NoStop
<1>5. Armed /\ Pending /\ Scanning
    BY <1>2, <1>3, SlotFacts DEF Armed, Pending, Scanning, Current, Coming, Overdue
<1> QED BY <1>1, <1>4, <1>5 DEF TimerInv

\* The invariant of the table, the pointer and the OS timer, if only the Bluetooth
\* task uses the timers and no tick comes inside an operation.
THEOREM Invariance ==
    ASSUME Quiet
    PROVE  Spec => [](Types /\ TimerInv)
<1>1. Init => Types /\ TimerInv
    BY InitInv
<1>2. Types /\ TimerInv /\ [Next]_vars => Types' /\ TimerInv'
    BY TypesStep, InvStep
<1> QED BY <1>1, <1>2, PTL DEF Spec

\* A timer that is due is about to be served, but for those a failed handover
\* has passed over: a scan is coming or under way.
THEOREM DueSeen ==
    ASSUME Quiet
    PROVE  Spec => []OnTime
<1>1. Types /\ TimerInv => OnTime
    BY DEF Types, ScanType, TimerInv, Pending, Scanning, OnTime
<1> QED BY <1>1, Invariance, PTL

\* Between scans the OS timer expires with the soonest timer to come, whatever was
\* started, stopped, served and handed over.
THEOREM SoonestArmed ==
    ASSUME Quiet
    PROVE  Spec => []NextArmed
<1>1. Types /\ TimerInv => NextArmed
  <2> SUFFICES ASSUME Types, TimerInv, pc \in {"idle", "call"}, ~event, rho # "handing", Coming # {}
               PROVE  /\ \E s \in Coming : timers[s].left = osLeft
                      /\ \A s \in Coming : osLeft <= timers[s].left
      BY DEF NextArmed
  <2>1. Current /\ ~Overdue(running)
      BY DEF TimerInv, Pending, Current
  <2>2. running \in Coming
      BY <2>1, Lefts DEF Current, Overdue, Coming
  <2> QED BY <2>1, <2>2 DEF TimerInv, Armed, Coming
<1> QED BY <1>1, Invariance, PTL

\* A timer leaves the table before its time only when its user stops it or a
\* handover takes it.
THEOREM NoneDropped ==
    ASSUME Quiet
    PROVE  Spec => NotDropped
<1> DEFINE Dropped(s) ==
              \/ stopping.id = timers[s].id /\ stopping' = NoStop
              \/ RhoSuccess \/ RhoUpdate
<1>1. ASSUME Types, TimerInv, [Next]_vars, NEW s \in Coming, timers'[s].id # timers[s].id
      PROVE  Dropped(s)
  <2> USE <1>1
  <2>1. s \in Slots /\ InUse(timers, s) /\ ~Overdue(s)
      BY Lefts DEF Coming, Overdue
  <2>2. ASSUME NEW id \in Ids, NEW len \in 1 .. MaxLen, StartStep(id, len) PROVE FALSE
    <3>1. PICK r \in Slots : Taken(r, id, len)
        BY <2>2, StartTakes DEF Types
    <3>2. r # s
        BY <2>1, <3>1 DEF Taken, InUse
    <3> QED BY <3>1, <3>2, <2>1 DEF Taken, Types, TableType
  <2>3. ASSUME NEW id \in Ids, NEW len \in 1 .. MaxLen, Start(id, len) \/ RhoStart(id, len)
        PROVE  FALSE
      BY <2>2, <2>3 DEF Start, RhoStart, StartStep
  <2>4. CASE Stop
    <3>1. PICK r \in Found(timers, stopping.id) : timers' = [timers EXCEPT ![r] = Free]
        BY <2>4 DEF Stop
    <3>2. r = s
        BY <3>1, <2>1 DEF Types, TableType
    <3> QED BY <2>4, <3>1, <3>2 DEF Stop, Found
  <2>5. CASE Tick
    <3>1. timers'[s] = IF InUse(timers, s) /\ timers[s].left > -MaxLate
                       THEN [timers[s] EXCEPT !.left = @ - 1] ELSE timers[s]
        BY <2>1, <2>5 DEF Tick
    <3> QED BY <2>1, <3>1 DEF Types, TableType
  <2>6. CASE ScanClear
    <3>1. s # at
        BY <2>1, <2>6 DEF TimerInv, Clearing, ScanClear
    <3> QED BY <2>1, <2>6, <3>1 DEF ScanClear, Types, TableType
  <2>7. CASE HandleInterrupt \/ ScanSkip \/ ScanCopy \/ ScanEnd \/ Rearm \/ Callback \/ CallbacksDone
      BY <2>7 DEF HandleInterrupt, ScanSkip, ScanCopy, ScanEnd, Rearm, Callback, CallbacksDone
  <2>8. CASE RhoGetData \/ RhoFail \/ RhoUpdated \/ UNCHANGED vars
      BY <2>8 DEF RhoGetData, RhoFail, RhoUpdated, vars
  <2>9. ASSUME NEW id \in Ids, StopEnter(id) PROVE FALSE
      BY <2>9 DEF StopEnter
  <2> QED BY <2>3, <2>4, <2>5, <2>6, <2>7, <2>8, <2>9 DEF Next, Calls, Service, HandoverStep
<1>2. (Types /\ TimerInv) /\ [Next]_vars
          => [\A s \in Coming : timers'[s].id # timers[s].id => Dropped(s)]_vars
    BY <1>1
<1> QED BY <1>2, Invariance, PTL DEF Spec, NotDropped
=============================================================================
