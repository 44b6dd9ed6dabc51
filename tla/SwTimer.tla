------------------------------ MODULE SwTimer ------------------------------
(***************************************************************************)
(* The software timers of the GPT driver (hal_gpt.c, hal_gpt_internal.c):  *)
(* a table of one-shot timers multiplexed on one hardware port, which is   *)
(* armed for the soonest of them.  Every start and stop reads the time     *)
(* that has passed from the counter, rounded to milliseconds, clears the   *)
(* counter and arms the port again.  The handler runs in the GPT interrupt *)
(* and the callbacks run inside it.                                        *)
(*                                                                         *)
(* The hardware port is external: in one-shot mode it counts up to the     *)
(* compare value, stops there and raises its interrupt (the driver has a   *)
(* separate keep-go mode for a counter that goes on).                      *)
(***************************************************************************)
EXTENDS Integers, FiniteSets, FiniteSetsExt

CONSTANTS
    Users,       \* tasks
    TimerCount,  \* HAL_GPT_SW_NUMBER
    Durations,   \* the timeouts asked for, in ms
    MaxMs,       \* HAL_GPT_MAXIMUM_MS_TIMER_TIME
    Modulus,     \* 2^32: milliseconds and the counters of timers wrap here
    Sub,         \* counter units to the millisecond
    MaxLate,     \* bound: how far past its deadline a timer is told apart
    Split,       \* what the code does not mask comes apart: checks, loads, acknowledgement
    OtherPort    \* another GPT port raises the shared interrupt too

ASSUME SwTimerAssumption ==
    /\ {TimerCount, Sub, MaxMs} \subseteq Nat \ {0} /\ MaxLate \in Nat
    /\ Durations \subseteq 0 .. MaxMs
    \* 2^32 against 130150523 and 32
    /\ Modulus \in Nat /\ Modulus > 2 * MaxMs /\ Modulus > TimerCount
    /\ IsFiniteSet(Users)
    /\ {Split, OtherPort} \subseteq BOOLEAN

Timers == 0 .. TimerCount - 1
\* A timer of the table, or the index gpt_sw_get_free_timer returns for none.
Handles == 0 .. TimerCount

VARIABLES
    used,         \* is_used of each timer
    run,          \* is_running of each timer
    timeout,      \* time_out_ms of each timer
    usedCount,    \* used_timer_count
    runCount,     \* running_timer_count
    absTime,      \* absolute_time: the time of the last reading of the counter
    lastTime,     \* last_absolute_time: absTime when the port was last armed
    port,         \* the hardware: counting or not, compare value, counter, interrupt
    isr,          \* gpt_interrupt_handler: where it is and the timer it looks at
    pc, arg,      \* per user: a call that has made its checks, and its argument
    handle,       \* per user: the timers it has got
    due           \* ghost: counter units until each timer's real deadline

vars == <<used, run, timeout, usedCount, runCount, absTime, lastTime, port, isr,
          pc, arg, handle, due>>
table == <<used, usedCount, handle>>
timing == <<run, timeout, runCount, absTime, lastTime, port, due>>

NoArg == [timer |-> 0, ms |-> 0, count |-> 0]
PortOff == [on |-> FALSE, compare |-> 0, count |-> 0, irq |-> FALSE]

Init ==
    /\ used = [t \in Handles |-> FALSE] /\ run = [t \in Handles |-> FALSE]
    /\ timeout = [t \in Handles |-> 0] /\ due = [t \in Handles |-> 0]
    /\ usedCount = 0 /\ runCount = 0
    /\ absTime = 0 /\ lastTime = 0
    /\ port = PortOff
    /\ isr = [pc |-> "off", at |-> 0]
    /\ pc = [u \in Users |-> "idle"] /\ arg = [u \in Users |-> NoArg]
    /\ handle = [u \in Users |-> {}]

-----------------------------------------------------------------------------
\* gpt_sw_get_current_time_ms: the counter in milliseconds, rounded to the
\* nearest.  Inside a callback no time is read.
Ms(count) == (2 * count + Sub) \div (2 * Sub)
InCallback == isr.pc = "callback"

\* Mutant: the clock does not wrap.
NowPlain == IF InCallback THEN absTime ELSE absTime + Ms(port.count)

Now == IF InCallback THEN absTime ELSE (absTime + Ms(port.count)) % Modulus

\* Mutant: the difference is not taken modulo the width of the clock.
LeftPlain(deadline, now, last) == IF deadline > now THEN deadline - now ELSE 0

\* gpt_sw_absolute_value: milliseconds left at time now, of a clock that wraps,
\* for a timer started since the port was armed at time last.
Left(deadline, now, last) ==
    IF (deadline - last) % Modulus > (now - last) % Modulus
    THEN (deadline - now) % Modulus ELSE 0

\* Mutant: the port is armed for the timer that was started last.
ArmLast(running, deadlines, now) ==
    LET soonest == Max({0} \cup {Left(deadlines[t], now, lastTime) : t \in
                                 {t \in Timers : running[t]}})
    IN  /\ lastTime' = now
        /\ port' = [on |-> soonest # 0, compare |-> soonest * Sub, count |-> 0,
                    irq |-> soonest = 0]

\* gpt_sw_start_timer: arm the port for the soonest timer.  A time the port
\* cannot wait for, also the one found when no timer runs, leaves it stopped.
Arm(running, deadlines, now) ==
    LET soonest == Min({Modulus - 1} \cup {Left(deadlines[t], now, lastTime) : t \in
                                           {t \in Timers : running[t]}})
    IN  /\ lastTime' = now
        /\ port' = IF soonest > MaxMs THEN PortOff
                   ELSE [on |-> soonest # 0, compare |-> soonest * Sub, count |-> 0,
                         irq |-> soonest = 0]

\* The part of hal_gpt_sw_start_timer_ms under the interrupt mask.
StartMasked(t, ms) ==
    /\ absTime' = Now
    /\ runCount' = (runCount + 1) % Modulus
    /\ run' = [run EXCEPT ![t] = TRUE]
    /\ timeout' = [timeout EXCEPT ![t] = (Now + ms) % Modulus]
    /\ due' = [due EXCEPT ![t] = ms * Sub]
    /\ IF InCallback THEN port' = PortOff /\ UNCHANGED lastTime
                     ELSE Arm(run', timeout', Now)

\* The part of hal_gpt_sw_stop_timer_ms under the interrupt mask.
StopMasked(t) ==
    /\ absTime' = Now
    /\ runCount' = (runCount - 1) % Modulus
    /\ run' = [run EXCEPT ![t] = FALSE]
    /\ UNCHANGED <<timeout, due>>
    /\ IF runCount' # 0 /\ ~InCallback THEN Arm(run', timeout, Now)
       ELSE port' = PortOff /\ UNCHANGED lastTime

-----------------------------------------------------------------------------
\* Calls of a task.  Each makes its checks first; what it does afterwards does
\* not look at them again.
TaskRuns(u) == isr.pc = "off" /\ (Split \/ \A v \in Users \ {u} : pc[v] = "idle")
Checked(u, where, a) ==
    /\ TaskRuns(u) /\ pc[u] = "idle"
    /\ pc' = [pc EXCEPT ![u] = where] /\ arg' = [arg EXCEPT ![u] = a]
    /\ UNCHANGED <<table, timing, isr>>
Resumes(u, where) ==
    /\ TaskRuns(u) /\ pc[u] = where
    /\ pc' = [pc EXCEPT ![u] = "idle"] /\ arg' = [arg EXCEPT ![u] = NoArg]
    /\ UNCHANGED isr

GetCheck(u) == usedCount < TimerCount /\ Checked(u, "get", NoArg)

\* gpt_sw_get_free_timer and the rest of hal_gpt_sw_get_timer, masked.
Get(u) ==
    /\ Resumes(u, "get")
    /\ LET t == Min({t \in Timers : ~used[t]} \cup {TimerCount})
       IN  used' = [used EXCEPT ![t] = TRUE] /\ handle' = [handle EXCEPT ![u] = @ \cup {t}]
    /\ usedCount' = usedCount + 1
    /\ UNCHANGED timing

CanFree(t) == usedCount # 0 /\ ~run[t] /\ used[t]

\* hal_gpt_sw_free_timer takes no mask: its decrement is a load and a store.
FreeLoad(u, t) ==
    /\ t \in handle[u] /\ CanFree(t)
    /\ TaskRuns(u) /\ pc[u] = "idle"
    /\ pc' = [pc EXCEPT ![u] = "free"]
    /\ arg' = [arg EXCEPT ![u] = [timer |-> t, ms |-> 0, count |-> usedCount]]
    /\ used' = [used EXCEPT ![t] = FALSE] /\ handle' = [handle EXCEPT ![u] = @ \ {t}]
    /\ UNCHANGED <<usedCount, timing, isr>>

\* Mutant: freeing a timer does not count.
FreeStoreNothing(u) == Resumes(u, "free") /\ UNCHANGED <<table, timing>>

FreeStore(u) ==
    /\ Resumes(u, "free")
    /\ usedCount' = arg[u].count - 1
    /\ UNCHANGED <<used, handle, timing>>

StartCheck(u, t, ms) ==
    /\ t \in handle[u] /\ ~run[t] /\ used[t]
    /\ Checked(u, "start", [timer |-> t, ms |-> ms, count |-> 0])

Start(u) ==
    /\ Resumes(u, "start")
    /\ StartMasked(arg[u].timer, arg[u].ms)
    /\ UNCHANGED table

StopCheck(u, t) ==
    /\ t \in handle[u] /\ run[t] /\ used[t]
    /\ Checked(u, "stop", [timer |-> t, ms |-> 0, count |-> 0])

Stop(u) ==
    /\ Resumes(u, "stop")
    /\ StopMasked(arg[u].timer)
    /\ UNCHANGED table

-----------------------------------------------------------------------------
\* Time passes, also while the interrupt is held off.
Tick ==
    /\ Split \/ (isr.pc # "ack" /\ \A u \in Users : pc[u] = "idle")
    /\ port' = IF ~port.on THEN port
               ELSE [port EXCEPT !.count = @ + 1, !.on = port.count + 1 < port.compare,
                                 !.irq = port.count + 1 = port.compare]
    /\ due' = [t \in Handles |-> IF run[t] /\ due[t] > -MaxLate THEN due[t] - 1 ELSE due[t]]
    /\ UNCHANGED <<used, run, timeout, usedCount, runCount, absTime, lastTime, isr,
                   pc, arg, handle>>

IsrMayRun == isr.pc = "off" /\ (Split \/ \A u \in Users : pc[u] = "idle")

\* Mutant: the handler forgets the time that has passed.
IsrEnterNoTime ==
    /\ IsrMayRun /\ port.irq /\ usedCount # 0
    /\ port' = PortOff
    /\ isr' = [pc |-> "loop", at |-> 0]
    /\ UNCHANGED <<table, run, timeout, runCount, absTime, lastTime, due, pc, arg>>

\* The interrupt of the port: acknowledged, then gpt_sw_handler stops the port
\* and reads the time.  With no timer in use it does nothing.
IsrEnter ==
    /\ IsrMayRun /\ port.irq
    /\ IF usedCount # 0
       THEN /\ absTime' = Now
            /\ port' = PortOff
            /\ isr' = [pc |-> "loop", at |-> 0]
       ELSE /\ port' = [port EXCEPT !.irq = FALSE]
            /\ UNCHANGED <<absTime, isr>>
    /\ UNCHANGED <<table, run, timeout, runCount, lastTime, due, pc, arg>>

\* The interrupt of another port: the status of this one is read, and then its
\* interrupt acknowledged whatever was read.
IsrOther ==
    /\ OtherPort /\ IsrMayRun /\ ~port.irq
    /\ isr' = [isr EXCEPT !.pc = "ack"]
    /\ UNCHANGED <<table, timing, pc, arg>>

IsrAck ==
    /\ isr.pc = "ack"
    /\ isr' = [isr EXCEPT !.pc = "off"]
    /\ port' = [port EXCEPT !.irq = FALSE]
    /\ UNCHANGED <<table, run, timeout, runCount, absTime, lastTime, due, pc, arg>>

Expired(t) == run[t] /\ Left(timeout[t], absTime, lastTime) = 0

IsrSkip ==
    /\ isr.pc = "loop" /\ isr.at \in Timers /\ ~Expired(isr.at)
    /\ isr' = [isr EXCEPT !.at = @ + 1]
    /\ UNCHANGED <<table, timing, pc, arg>>

IsrExpire ==
    /\ isr.pc = "loop" /\ isr.at \in Timers /\ Expired(isr.at)
    /\ run' = [run EXCEPT ![isr.at] = FALSE]
    /\ runCount' = (runCount - 1) % Modulus
    /\ isr' = [isr EXCEPT !.pc = "callback"]
    /\ UNCHANGED <<table, timeout, absTime, lastTime, port, due, pc, arg>>

\* The callback may start its timer again or free it, as the documentation has
\* it, or stop another one.
CallbackEnds == isr' = [pc |-> "loop", at |-> isr.at + 1] /\ UNCHANGED <<pc, arg>>
CallbackReturns == InCallback /\ CallbackEnds /\ UNCHANGED <<table, timing>>
CallbackStarts(ms) ==
    /\ InCallback /\ CallbackEnds
    /\ ~run[isr.at] /\ used[isr.at] /\ StartMasked(isr.at, ms)
    /\ UNCHANGED table
CallbackStops(t) ==
    /\ InCallback /\ CallbackEnds
    /\ run[t] /\ used[t] /\ StopMasked(t)
    /\ UNCHANGED table
CallbackFrees ==
    /\ InCallback /\ CallbackEnds
    /\ CanFree(isr.at)
    /\ used' = [used EXCEPT ![isr.at] = FALSE]
    /\ usedCount' = usedCount - 1
    /\ handle' = [u \in Users |-> handle[u] \ {isr.at}]
    /\ UNCHANGED timing

IsrExit ==
    /\ isr.pc = "loop" /\ isr.at \notin Timers
    /\ isr' = [pc |-> "off", at |-> 0]
    /\ IF runCount # 0 THEN Arm(run, timeout, absTime) ELSE UNCHANGED <<port, lastTime>>
    /\ UNCHANGED <<table, run, timeout, runCount, absTime, due, pc, arg>>

Callback ==
    \/ CallbackReturns \/ CallbackFrees
    \/ (\E ms \in Durations : CallbackStarts(ms)) \/ (\E t \in Timers : CallbackStops(t))
Isr == IsrEnter \/ IsrAck \/ IsrSkip \/ IsrExpire \/ Callback \/ IsrExit
Resume(u) == Get(u) \/ FreeStore(u) \/ Start(u) \/ Stop(u)
Call(u) ==
    \/ GetCheck(u)
    \/ \E t \in Handles : FreeLoad(u, t) \/ StopCheck(u, t)
    \/ \E t \in Handles, ms \in Durations : StartCheck(u, t, ms)

Next == Tick \/ Isr \/ IsrOther \/ \E u \in Users : Call(u) \/ Resume(u)

Spec == Init /\ [][Next]_vars
\* The counter runs, a call that has begun goes on, and the interrupt is taken
\* and its handler gets to its end, however many calls are made in between.
FairSpec == Spec /\ SF_vars(Tick) /\ SF_vars(Isr)
                 /\ \A u \in Users : SF_vars(Resume(u))

-----------------------------------------------------------------------------
TypeOK ==
    /\ used \in [Handles -> BOOLEAN] /\ run \in [Handles -> BOOLEAN]
    /\ timeout \in [Handles -> 0 .. Modulus - 1]
    /\ usedCount \in 0 .. TimerCount + Cardinality(Users)
    /\ runCount \in 0 .. Modulus - 1
    /\ absTime \in 0 .. Modulus - 1 /\ lastTime \in 0 .. Modulus - 1
    /\ port \in [on : BOOLEAN, compare : 0 .. MaxMs * Sub, count : 0 .. MaxMs * Sub,
                 irq : BOOLEAN]
    /\ isr \in [pc : {"off", "ack", "loop", "callback"}, at : Handles]
    /\ pc \in [Users -> {"idle", "get", "free", "start", "stop"}]
    /\ arg \in [Users -> [timer : Handles, ms : Durations \cup {0},
                          count : 0 .. TimerCount + Cardinality(Users)]]
    /\ handle \in [Users -> SUBSET Handles]
    /\ due \in [Handles -> -MaxLate .. MaxMs * Sub]

Running == {t \in Timers : run[t]}
Quiet == isr.pc = "off" /\ \A u \in Users : pc[u] = "idle"

\* A handle names a timer of the table, and only one user has it.
HandlesValid ==
    \A u \in Users : /\ handle[u] \subseteq Timers
                     /\ \A v \in Users \ {u} : handle[u] \cap handle[v] = {}

\* Between calls both counters say what the table says.  The handler and the
\* decision to arm the port go by the counters alone.
CountsExact ==
    Quiet => /\ usedCount = Cardinality({t \in Handles : used[t]})
             /\ runCount = Cardinality({t \in Handles : run[t]})

\* Between calls, while a timer runs, the port counts to the soonest deadline or
\* its interrupt is pending: no running timer waits behind the armed one.
SoonestArmed ==
    Quiet /\ Running # {} =>
        /\ port.on \/ port.irq
        /\ \A t \in Running :
              Left(timeout[t], absTime, lastTime) * Sub >= port.compare

\* A callback never runs a millisecond or more before the time its user asked
\* for, wherever the clock wraps and whatever is started and stopped meanwhile.
NeverEarly == InCallback => due[isr.at] < Sub

\* hal_gpt_sw_get_remaining_time_ms adds the counter to the time as it is.
Remaining(t) == IF timeout[t] > absTime + port.count
                THEN timeout[t] - (absTime + port.count) ELSE 0
\* The remaining time it returns is the real one, to the millisecond.
RemainingRight ==
    Quiet => \A t \in Running : due[t] >= 0 => Remaining(t) \in {due[t] \div Sub, Ms(due[t])}

\* A running timer fires, or is stopped.
Fires == \A t \in Timers : run[t] ~> ~run[t]
=============================================================================
