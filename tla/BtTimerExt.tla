----------------------------- MODULE BtTimerExt -----------------------------
(***************************************************************************)
(* The external timers of the Bluetooth task (bt_timer_external.c): a      *)
(* table of timers served by one FreeRTOS one-shot timer that is armed for *)
(* the soonest of them.  The OS timer's callback only sets an event bit;   *)
(* the Bluetooth task then scans the table, re-arms the OS timer and runs  *)
(* the callbacks.  start and stop hold a semaphore, the scan does not.     *)
(*                                                                         *)
(* Times are kept relative to now: left is time_tick minus the tick count, *)
(* and a "current" a task read earlier is represented by its age.          *)
(***************************************************************************)
EXTENDS Integers

CONSTANTS
    SlotCount,   \* BT_TIMER_EXT_INSTANCE_NUM
    Ids, NoId,   \* timer ids; NoId is 0, the id of a free entry
    MaxLen,      \* bound: longest timer, in ticks
    MaxLate,     \* bound: how late a timer is told apart, ticks inside one operation
    Overlap,     \* other tasks start and stop timers while the Bluetooth task scans
    Preempted,   \* ticks pass while an operation is under way
    Handover     \* the role handover of bt_timer_external_rho.c takes place

ASSUME BtTimerAssumption ==
    /\ {SlotCount, MaxLen, MaxLate} \subseteq Nat \ {0}
    /\ NoId \notin Ids
    /\ {Overlap, Preempted, Handover} \subseteq BOOLEAN

Slots == 1 .. SlotCount
Null == 0

VARIABLES
    timers,    \* bt_timer_ext_array: the id and remaining ticks of each entry
    running,   \* bt_sink_srv_time_running: the entry the OS timer is armed for, or Null
    osLeft,    \* ticks until bt_sink_srv_os_timer expires, 0 when it is not active
    event,     \* BT_TIMER_EXT_EXPIRED is set in bt_sink_srv_events
    pc,        \* where bt_timer_ext_check_status is; "update" while a partner starts
               \* the timers it was handed, "idle" outside of both
    at,        \* the entry the scan is at
    age,       \* ticks since the scan read its current time
    expired,   \* expire_timer: per entry the id whose callback is still to run
    stopping,  \* a stop that has read its current time and not yet the semaphore
    rho,       \* role in the headset: agent, agent handing over, or partner
    missed     \* ghost: the entries already due when a failed handover let them go on

vars == <<timers, running, osLeft, event, pc, at, age, expired, stopping, rho, missed>>
handover == <<rho, missed>>
scan == <<pc, at, age, expired>>

NoStop == [id |-> NoId, age |-> 0]
Free == [id |-> NoId, left |-> 0]

InUse(t, s) == t[s].id # NoId
\* bt_timer_ext_find: the first entry with this id, NoId asks for a free one.
Found(t, id) == {s \in Slots : t[s].id = id /\ \A r \in 1 .. s - 1 : t[r].id # id}
\* Mutant: a timer that is already due is found too.
RecentDue(t, n) ==
    IF \A s \in Slots : ~InUse(t, s) THEN Null
    ELSE CHOOSE s \in Slots : InUse(t, s)
             /\ \A r \in Slots : InUse(t, r) => t[s].left <= t[r].left

\* bt_timer_ext_find_recent, with a current time read n ticks ago: the first of
\* the soonest timers, those already due left out.
Recent(t, n) ==
    LET later == {s \in Slots : InUse(t, s) /\ t[s].left + n > 0}
        first == {s \in later : \A r \in later :
                     \/ t[s].left < t[r].left
                     \/ t[s].left = t[r].left /\ s <= r}
    IN  IF later = {} THEN Null ELSE CHOOSE s \in first : TRUE

Init ==
    /\ timers = [s \in Slots |-> Free]
    /\ running = Null /\ osLeft = 0 /\ event = FALSE
    /\ pc = "idle" /\ at = 1 /\ age = 0 /\ expired = [s \in Slots |-> NoId]
    /\ stopping = NoStop /\ missed = {}
    /\ rho \in IF Handover THEN {"agent", "partner"} ELSE {"agent"}

-----------------------------------------------------------------------------
\* start and stop are called from callbacks and other handlers of the Bluetooth
\* task, and with Overlap from other tasks too.
MayCall == Overlap \/ (pc \in {"idle", "call"} /\ stopping = NoStop)

\* What bt_timer_ext_start makes of the table, the pointer and the OS timer; it
\* fails when the timer exists or the table is full.
Started(st, id, len) ==
    IF Found(st.timers, id) # {} \/ Found(st.timers, NoId) = {} THEN st
    ELSE LET s == CHOOSE x \in Found(st.timers, NoId) : TRUE
             t == [st.timers EXCEPT ![s] = [id |-> id, left |-> len]]
             armedSooner == /\ st.running # Null /\ InUse(t, st.running)
                            /\ t[st.running].left < 0 \/ t[st.running].left < len
         IN  IF armedSooner THEN [st EXCEPT !.timers = t]
             ELSE [timers |-> t, running |-> s, osLeft |-> len]

Table == [timers |-> timers, running |-> running, osLeft |-> osLeft]

Start(id, len) ==
    /\ MayCall
    /\ LET st == Started(Table, id, len)
       IN  timers' = st.timers /\ running' = st.running /\ osLeft' = st.osLeft
    /\ UNCHANGED <<event, scan, stopping, handover>>

\* bt_timer_ext_stop reads the current time before it waits for the semaphore.
StopEnter(id) ==
    /\ MayCall /\ stopping = NoStop
    /\ stopping' = [id |-> id, age |-> 0]
    /\ UNCHANGED <<timers, running, osLeft, event, scan, handover>>

\* Mutant: a stop leaves the OS timer as it is.
ArmNothing(t, n) ==
    /\ running' = Recent(t, n)
    /\ UNCHANGED osLeft

\* bt_timer_ext_os_start for the soonest timer, seen from n ticks ago.
Arm(t, n) ==
    /\ running' = Recent(t, n)
    /\ osLeft' = IF Recent(t, n) = Null THEN 0 ELSE t[Recent(t, n)].left + n

Stop ==
    /\ stopping # NoStop
    /\ stopping' = NoStop
    /\ IF Found(timers, stopping.id) = {}
       THEN UNCHANGED <<timers, running, osLeft, missed>>
       ELSE \E s \in Found(timers, stopping.id) :
               /\ timers' = [timers EXCEPT ![s] = Free]
               /\ missed' = missed \ {s}
               /\ IF s = running THEN Arm(timers', stopping.age)
                                 ELSE UNCHANGED <<running, osLeft>>
    /\ UNCHANGED <<event, scan, rho>>

-----------------------------------------------------------------------------
\* A tick of the kernel.  The timer task runs bt_timer_ext_expire at once.
Tick ==
    /\ Preempted \/ (pc \in {"idle", "call"} /\ stopping = NoStop)
    /\ timers' = [s \in Slots |->
                     IF InUse(timers, s) /\ timers[s].left > -MaxLate
                     THEN [timers[s] EXCEPT !.left = @ - 1] ELSE timers[s]]
    /\ osLeft' = IF osLeft = 0 THEN 0 ELSE osLeft - 1
    /\ event' = (event \/ osLeft = 1)
    /\ age' = IF pc \in {"scan", "clear", "arm"} THEN age + 1 ELSE age
    /\ stopping' = IF stopping = NoStop THEN NoStop ELSE [stopping EXCEPT !.age = @ + 1]
    /\ age' <= MaxLate /\ stopping'.age <= MaxLate
    /\ UNCHANGED <<running, pc, at, expired, handover>>

\* The steps of the Bluetooth task.  A stop it has entered itself comes first.
TaskStep == Overlap \/ stopping = NoStop

\* bt_timer_ext_handle_interrupt takes the events and starts the scan.
HandleInterrupt ==
    /\ TaskStep /\ pc = "idle" /\ event
    /\ event' = FALSE
    /\ pc' = "scan" /\ at' = 1 /\ age' = 0
    /\ missed' = {}
    /\ UNCHANGED <<timers, running, osLeft, expired, stopping, rho>>

Due(s) == InUse(timers, s) /\ timers[s].left + age <= 0

ScanSkip ==
    /\ TaskStep /\ pc = "scan" /\ at \in Slots /\ ~Due(at)
    /\ at' = at + 1
    /\ UNCHANGED <<timers, running, osLeft, event, pc, age, expired, stopping, handover>>

\* A due timer is copied first and its entry freed afterwards.
ScanCopy ==
    /\ TaskStep /\ pc = "scan" /\ at \in Slots /\ Due(at)
    /\ expired' = [expired EXCEPT ![at] = timers[at].id]
    /\ pc' = "clear"
    /\ UNCHANGED <<timers, running, osLeft, event, at, age, stopping, handover>>

\* Mutant: the index has moved on when the entry is freed.
ScanClearNext ==
    /\ TaskStep /\ pc = "clear"
    /\ timers' = [timers EXCEPT ![(at % SlotCount) + 1] = Free]
    /\ pc' = "scan" /\ at' = at + 1
    /\ UNCHANGED <<running, osLeft, event, age, expired, stopping, handover>>

ScanClear ==
    /\ TaskStep /\ pc = "clear"
    /\ timers' = [timers EXCEPT ![at] = Free]
    /\ pc' = "scan" /\ at' = at + 1
    /\ UNCHANGED <<running, osLeft, event, age, expired, stopping, handover>>

\* Mutant: the pointer is not followed to a freed entry.
ScanEndKept ==
    /\ TaskStep /\ pc = "scan" /\ at \notin Slots
    /\ at' = 1 /\ age' = 0
    /\ pc' = IF running = Null THEN "arm" ELSE "call"
    /\ UNCHANGED <<timers, running, osLeft, event, expired, stopping, handover>>

\* Only when the timer it was armed for has gone is the OS timer armed again.
ScanEnd ==
    /\ TaskStep /\ pc = "scan" /\ at \notin Slots
    /\ at' = 1 /\ age' = 0
    /\ IF running # Null /\ ~InUse(timers, running)
       THEN running' = Null /\ pc' = "arm"
       ELSE running' = running /\ pc' = "call"
    /\ UNCHANGED <<timers, osLeft, event, expired, stopping, handover>>

\* The OS timer is left as it is when no timer is to come.
Rearm ==
    /\ TaskStep /\ pc = "arm"
    /\ running' = Recent(timers, age)
    /\ osLeft' = IF running' = Null THEN osLeft ELSE timers[running'].left + age
    /\ pc' = "call"
    /\ age' = 0
    /\ UNCHANGED <<timers, event, at, expired, stopping, handover>>

Callback ==
    /\ TaskStep /\ pc = "call"
    /\ \E s \in Slots :
          /\ expired[s] # NoId
          /\ \A r \in 1 .. s - 1 : expired[r] = NoId
          /\ expired' = [expired EXCEPT ![s] = NoId]
    /\ UNCHANGED <<timers, running, osLeft, event, pc, at, age, stopping, handover>>

CallbacksDone ==
    /\ TaskStep /\ pc = "call" /\ \A s \in Slots : expired[s] = NoId
    /\ pc' = "idle"
    /\ UNCHANGED <<timers, running, osLeft, event, at, age, expired, stopping, handover>>

-----------------------------------------------------------------------------
\* Role handover between the two sides of a headset: the roles alternate.
InUseSlots == {s \in Slots : InUse(timers, s)}
Overdue(s) == InUse(timers, s) /\ timers[s].left <= 0

\* bt_timer_ext_rho_get_data_cb at the agent: the timers are written for the
\* partner, which this module leaves out, and the OS timer is stopped.
RhoGetData ==
    /\ Handover /\ TaskStep /\ pc = "idle" /\ rho = "agent"
    /\ rho' = "handing"
    /\ osLeft' = 0
    /\ UNCHANGED <<timers, running, event, scan, stopping, missed>>

\* bt_timer_ext_rho_stop_all_timer, when the handover has succeeded.
RhoSuccess ==
    /\ TaskStep /\ pc = "idle" /\ rho = "handing"
    /\ rho' = "partner" /\ missed' = {}
    /\ timers' = [s \in Slots |-> Free]
    /\ running' = Null /\ osLeft' = 0
    /\ UNCHANGED <<event, scan, stopping>>

\* Mutant: a failed handover does not start the OS timer again.
RhoFailStopped ==
    /\ TaskStep /\ pc = "idle" /\ rho = "handing"
    /\ rho' = "agent"
    /\ missed' = {s \in InUseSlots : Overdue(s)}
    /\ UNCHANGED <<timers, running, osLeft, event, scan, stopping>>

\* bt_timer_ext_rho_restart_timer, when it has failed and timers are left.
RhoFail ==
    /\ TaskStep /\ pc = "idle" /\ rho = "handing"
    /\ rho' = "agent"
    /\ missed' = {s \in InUseSlots : Overdue(s)}
    /\ IF InUseSlots = {} THEN UNCHANGED <<running, osLeft>>
       ELSE /\ running' = Recent(timers, 0)
            /\ osLeft' = IF running' = Null THEN osLeft ELSE timers[running'].left
    /\ UNCHANGED <<timers, event, scan, stopping>>

\* bt_timer_ext_rho_update_context at the partner, which becomes the agent: it
\* stops its own timers first.
RhoUpdate ==
    /\ TaskStep /\ pc = "idle" /\ rho = "partner"
    /\ pc' = "update" /\ missed' = {}
    /\ timers' = [s \in Slots |-> Free]
    /\ running' = Null /\ osLeft' = 0
    /\ UNCHANGED <<event, at, age, expired, stopping, rho>>

\* Then one bt_timer_ext_start for each timer the other side has written, which
\* may be any, and the semaphore is free between two of them.
RhoStart(id, len) ==
    /\ TaskStep /\ pc = "update"
    /\ LET st == Started(Table, id, len)
       IN  timers' = st.timers /\ running' = st.running /\ osLeft' = st.osLeft
    /\ UNCHANGED <<event, scan, stopping, handover>>

RhoUpdated ==
    /\ TaskStep /\ pc = "update"
    /\ pc' = "idle" /\ rho' = "agent"
    /\ UNCHANGED <<timers, running, osLeft, event, at, age, expired, stopping, missed>>

Calls == \/ \E id \in Ids : (\E len \in 1 .. MaxLen : Start(id, len)) \/ StopEnter(id)
Service ==
    \/ HandleInterrupt \/ ScanSkip \/ ScanCopy \/ ScanClear \/ ScanEnd \/ Rearm
    \/ Callback \/ CallbacksDone
HandoverStep ==
    \/ RhoGetData \/ RhoSuccess \/ RhoFail
    \/ RhoUpdate \/ RhoUpdated \/ \E id \in Ids, len \in 1 .. MaxLen : RhoStart(id, len)

Next == Calls \/ Stop \/ Tick \/ Service \/ HandoverStep

Spec == Init /\ [][Next]_vars
\* However often handlers call start and stop, each of them returns: ticks come,
\* and the Bluetooth task gets back to its loop and to the event.  A handover
\* ends one way or the other, and the data a partner is handed has an end.
FairSpec == Spec /\ SF_vars(Tick) /\ SF_vars(Service) /\ WF_vars(Stop)
                 /\ SF_vars(RhoSuccess \/ RhoFail) /\ SF_vars(RhoUpdated)

-----------------------------------------------------------------------------
TypeOK ==
    /\ timers \in [Slots -> [id : Ids \cup {NoId}, left : -MaxLate .. MaxLen]]
    /\ running \in Slots \cup {Null}
    /\ osLeft \in 0 .. MaxLen + MaxLate
    /\ event \in BOOLEAN
    /\ pc \in {"idle", "scan", "clear", "arm", "call", "update"}
    /\ at \in 1 .. SlotCount + 1 /\ age \in 0 .. MaxLate
    /\ expired \in [Slots -> Ids \cup {NoId}]
    /\ stopping \in [id : Ids \cup {NoId}, age : 0 .. MaxLate]
    /\ rho \in {"agent", "handing", "partner"} /\ missed \subseteq Slots

Coming == {s \in Slots : InUse(timers, s) /\ timers[s].left > 0}

\* A timer that is due is about to be served: the event that makes the
\* Bluetooth task scan is pending or the scan runs.  Without either nothing
\* would look at the entry again until some other timer expires.  That happens
\* only to the timers that came due during a handover which then failed.
OnTime ==
    rho # "handing" => \A s \in Slots \ missed : Overdue(s) => event \/ pc \in {"scan", "clear"}

\* Between scans the OS timer expires with the soonest of the timers to come,
\* however they were started, stopped, served or handed over.
NextArmed ==
    pc \in {"idle", "call"} /\ ~event /\ rho # "handing" /\ Coming # {}
    => /\ \E s \in Coming : timers[s].left = osLeft
       /\ \A s \in Coming : osLeft <= timers[s].left

\* A timer leaves the table before its time only when its user stops it or a
\* handover takes it: no step made for one timer drops another in its entry.
NotDropped ==
    [][\A s \in Coming : timers'[s].id # timers[s].id =>
          \/ stopping.id = timers[s].id /\ stopping' = NoStop
          \/ RhoSuccess \/ RhoUpdate]_vars

\* A started timer does not stay in the table for ever: it is served (or
\* stopped), whatever is started, stopped and handed over around it.
Served ==
    \A id \in Ids :
        Found(timers, id) # {} ~> Found(timers, id) \subseteq missed
=============================================================================
