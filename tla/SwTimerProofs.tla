-------------------------- MODULE SwTimerProofs --------------------------
(***************************************************************************)
(* Proofs about the software timers, for any tasks, number of timers and   *)
(* width of the clock, as long as what the code leaves unmasked does not   *)
(* come apart.                                                             *)
(***************************************************************************)
EXTENDS SwTimer, FiniteSetTheorems, WellFoundedInduction, TLAPS

Marked(f) == {t \in Handles : f[t]}
Used == Marked(used)
RunSet == Marked(run)

\* Milliseconds from l on to d, of a clock that wraps; how far the clock has been
\* read forward since the port was armed, and from then to a deadline.
Gap(l, d) == (d - l) % Modulus
Elapsed == Gap(lastTime, absTime)
Rest(t) == Gap(lastTime, timeout[t])

-----------------------------------------------------------------------------
(* The invariant.                                                            *)

\* One call at a time is between its checks and its effect, none while the
\* handler runs, and what it has checked still holds.
CallsInv ==
    /\ \A u, v \in Users : pc[u] # "idle" /\ pc[v] # "idle" => u = v
    /\ isr.pc # "off" => \A u \in Users : pc[u] = "idle"
    /\ \A u \in Users :
          /\ pc[u] = "get" => usedCount < TimerCount
          /\ pc[u] = "start" => used[arg[u].timer] /\ ~run[arg[u].timer]
          /\ pc[u] = "stop" => run[arg[u].timer]

\* The counters say what the table says; a task that frees a timer has still to count it.
CountInv ==
    /\ RunSet \subseteq Used /\ Used \subseteq Timers
    /\ runCount = Cardinality(RunSet)
    /\ (\A u \in Users : pc[u] # "free") => usedCount = Cardinality(Used)
    /\ \A u \in Users : pc[u] = "free" => /\ usedCount = Cardinality(Used) + 1
                                          /\ arg[u].count = usedCount

\* A handle is a timer in use, and only one task has it.
HandlesInv == HandlesValid /\ \A u \in Users : handle[u] \subseteq Used

\* No deadline is behind the clock when its timer runs, nor further ahead than
\* the port can wait.
DeadlinesInv ==
    /\ Elapsed <= MaxMs
    /\ \A t \in RunSet : Elapsed <= Rest(t) /\ Rest(t) <= Elapsed + MaxMs

\* The port waits for at most the soonest deadline, counted from when it was
\* armed; inside the handler and when no timer runs it is off.
PortFor(k) ==
    /\ port.compare = k * Sub /\ port.count <= port.compare
    /\ \A t \in RunSet : k <= Rest(t)
PortInv ==
    /\ isr.pc \in {"loop", "callback"} \/ RunSet = {} => ~port.on /\ ~port.irq /\ port.count = 0
    /\ isr.pc \notin {"loop", "callback"} /\ RunSet # {} =>
          /\ absTime = lastTime
          /\ port.on \/ port.irq
          /\ \E k \in 0 .. MaxMs : PortFor(k)
    /\ port.on => port.count < port.compare
    /\ isr.pc = "callback" => isr.at \in Timers
    /\ isr.pc = "ack" => ~port.irq

\* Without rounding, real time is never behind the clock.
DueInv ==
    /\ \A t \in RunSet : due[t] > 0 => due[t] + port.count <= Rest(t) - Elapsed
    /\ InCallback => due[isr.at] <= 0

-----------------------------------------------------------------------------
(* The clock and the choices of a minimum.                                   *)

LEMMA Sizes ==
    /\ TimerCount \in Nat \ {0} /\ Sub \in Nat \ {0} /\ MaxMs \in Nat \ {0} /\ MaxLate \in Nat
    /\ Modulus \in Nat \ {0} /\ Modulus > 2 * MaxMs /\ Modulus > TimerCount
    /\ Durations \subseteq 0 .. MaxMs
    /\ Timers \subseteq Handles /\ TimerCount \in Handles /\ TimerCount \notin Timers
    /\ \A t \in Handles : t \in Int /\ (t \notin Timers => t = TimerCount)
    /\ IsFiniteSet(Timers) /\ Cardinality(Timers) = TimerCount
<1>1. /\ TimerCount \in Nat \ {0} /\ Sub \in Nat \ {0} /\ MaxMs \in Nat \ {0} /\ MaxLate \in Nat
      /\ Modulus \in Nat \ {0} /\ Modulus > 2 * MaxMs /\ Modulus > TimerCount
      /\ Durations \subseteq 0 .. MaxMs
    BY SwTimerAssumption
<1>2. /\ Timers \subseteq Handles /\ TimerCount \in Handles /\ TimerCount \notin Timers
      /\ \A t \in Handles : t \in Int /\ (t \notin Timers => t = TimerCount)
    BY <1>1 DEF Timers, Handles
<1>3. IsFiniteSet(Timers) /\ Cardinality(Timers) = TimerCount
  <2>1. /\ IsFiniteSet(0 .. TimerCount - 1)
        /\ Cardinality(0 .. TimerCount - 1) = (TimerCount - 1) - 0 + 1
      BY <1>1, FS_Interval
  <2> QED BY <1>1, <2>1 DEF Timers
<1> QED BY <1>1, <1>2, <1>3

LEMMA GapType ==
    ASSUME NEW l \in 0 .. Modulus - 1, NEW d \in 0 .. Modulus - 1
    PROVE  /\ Gap(l, d) \in 0 .. Modulus - 1 /\ Gap(l, d) \in Int
           /\ Gap(l, d) = IF d >= l THEN d - l ELSE d - l + Modulus
BY Sizes DEF Gap

\* From l on by x and back.
LEMMA Ahead ==
    ASSUME NEW l \in 0 .. Modulus - 1, NEW x \in 0 .. Modulus - 1
    PROVE  (l + x) % Modulus \in 0 .. Modulus - 1 /\ Gap(l, (l + x) % Modulus) = x
BY Sizes DEF Gap

\* Of two times ahead of l, how far the second is ahead of the first.
LEMMA Between ==
    ASSUME NEW d \in 0 .. Modulus - 1, NEW n \in 0 .. Modulus - 1, NEW l \in 0 .. Modulus - 1,
           Gap(l, n) <= Gap(l, d)
    PROVE  Gap(n, d) = Gap(l, d) - Gap(l, n) /\ Left(d, n, l) = Gap(n, d)
<1>1. Gap(n, d) = Gap(l, d) - Gap(l, n)
  <2>1. /\ Gap(l, d) = IF d >= l THEN d - l ELSE d - l + Modulus
        /\ Gap(l, n) = IF n >= l THEN n - l ELSE n - l + Modulus
        /\ Gap(n, d) = IF d >= n THEN d - n ELSE d - n + Modulus
      BY GapType
  <2>2. Gap(l, n) <= Gap(l, d)
      OBVIOUS
  <2>3. Modulus \in Nat /\ d \in 0 .. Modulus - 1 /\ n \in 0 .. Modulus - 1 /\ l \in 0 .. Modulus - 1
      BY Sizes
  <2> QED BY <2>1, <2>2, <2>3
<1>2. CASE Gap(l, d) > Gap(l, n)
    BY <1>1, <1>2 DEF Left, Gap
<1>3. CASE Gap(l, d) = Gap(l, n)
  <2>1. Left(d, n, l) = 0
      BY <1>3, GapType DEF Left, Gap
  <2> QED BY <1>1, <1>3, <2>1, GapType
<1> QED BY <1>1, <1>2, <1>3, GapType

LEMMA OnClock == ASSUME NEW a \in Int PROVE a % Modulus \in 0 .. Modulus - 1
<1>1. Modulus \in Nat \ {0}
    BY Sizes
<1> QED BY <1>1

\* The counter never reads further than to what it is compared with.
LEMMA MsBound ==
    ASSUME NEW k \in Nat, NEW c \in 0 .. k * Sub
    PROVE  Ms(c) \in 0 .. k
BY Sizes DEF Ms

LEMMA MsZero == Ms(0) = 0
BY Sizes DEF Ms

LEMMA MsExact == ASSUME Sub = 1, NEW c \in Nat PROVE Ms(c) = c
BY DEF Ms

LEMMA Scaled == ASSUME NEW a \in Nat, NEW b \in 0 .. a PROVE b * Sub \in 0 .. a * Sub
BY Sizes

LEMMA Spread ==
    ASSUME NEW x \in Int, NEW y \in Int, y <= x, x <= y + MaxMs
    PROVE  x - y \in 0 .. MaxMs
BY Sizes

\* A set of numbers that is not empty has a least member.
LEMMA LeastNumber ==
    ASSUME NEW S \in SUBSET Nat, S # {}
    PROVE  Min(S) \in S /\ \A n \in S : Min(S) <= n
<1>1. PICK n \in S : \A m \in S : ~ (<<m, n>> \in OpToRel(<, Nat))
  BY NatLessThanWellFounded, WFMin
<1>2. \A m \in S : ~ (m < n)
  BY <1>1 DEF OpToRel
<1>3. \A m \in S : n <= m
  BY <1>2
<1> QED BY <1>3 DEF Min

\* gpt_sw_start_timer, when a timer runs and no deadline is behind the clock nor
\* too far ahead of it.
LEMMA ArmFacts ==
    ASSUME lastTime \in 0 .. Modulus - 1, NEW now \in 0 .. Modulus - 1,
           NEW running \in [Handles -> BOOLEAN], NEW deadlines \in [Handles -> 0 .. Modulus - 1],
           \A t \in Timers : running[t] =>
               /\ Gap(lastTime, now) <= Gap(lastTime, deadlines[t])
               /\ Gap(lastTime, deadlines[t]) <= Gap(lastTime, now) + MaxMs,
           \E t \in Timers : running[t],
           Arm(running, deadlines, now)
    PROVE  /\ lastTime' = now
           /\ \A t \in Timers : running[t] =>
                 Gap(now, deadlines[t])
                     = Gap(lastTime, deadlines[t]) - Gap(lastTime, now)
           /\ \E k \in 0 .. MaxMs :
                 /\ port' = [on |-> k # 0, compare |-> k * Sub, count |-> 0, irq |-> k = 0]
                 /\ \A t \in Timers : running[t] => k <= Gap(now, deadlines[t])
<1> DEFINE R == {t \in Timers : running[t]}
           L == {Left(deadlines[t], now, lastTime) : t \in R}
           k == Min({Modulus - 1} \cup L)
<1>1. \A t \in R : deadlines[t] \in 0 .. Modulus - 1
    BY Sizes
<1>2. \A t \in R : /\ Gap(now, deadlines[t])
                         = Gap(lastTime, deadlines[t]) - Gap(lastTime, now)
                   /\ Left(deadlines[t], now, lastTime) = Gap(now, deadlines[t])
  <2> TAKE t \in R
  <2>1. Gap(lastTime, now) <= Gap(lastTime, deadlines[t])
      BY Sizes
  <2>2. deadlines[t] \in 0 .. Modulus - 1
      BY <1>1
  <2> QED BY <2>1, <2>2, Between, Zenon
<1>3. \A t \in R : Gap(now, deadlines[t]) \in 0 .. MaxMs
  <2> SUFFICES ASSUME NEW t \in R PROVE Gap(now, deadlines[t]) \in 0 .. MaxMs
      OBVIOUS
  <2>1. Gap(lastTime, deadlines[t]) \in Int /\ Gap(lastTime, now) \in Int
      BY <1>1, GapType
  <2>2. /\ Gap(lastTime, now) <= Gap(lastTime, deadlines[t])
        /\ Gap(lastTime, deadlines[t]) <= Gap(lastTime, now) + MaxMs
      BY Sizes
  <2>3. Gap(lastTime, deadlines[t]) - Gap(lastTime, now) \in 0 .. MaxMs
      BY <2>1, <2>2, Spread
  <2> QED BY <1>2, <2>3
<1>4. L \subseteq 0 .. MaxMs
    BY <1>2, <1>3
<1>5. {Modulus - 1} \cup L \in SUBSET Nat
    BY <1>4, Sizes
<1>6. k \in {Modulus - 1} \cup L /\ \A n \in {Modulus - 1} \cup L : k <= n
  <2> HIDE DEF L
  <2> QED BY <1>5, LeastNumber
<1>7. PICK r \in R : TRUE
    OBVIOUS
<1>8. k \in 0 .. MaxMs
  <2>1. Left(deadlines[r], now, lastTime) \in L
      BY <1>7
  <2> HIDE DEF L, k
  <2>2. k <= Left(deadlines[r], now, lastTime)
      BY <1>6, <2>1
  <2>3. k \in Nat
      BY <1>5, <1>6
  <2>4. Left(deadlines[r], now, lastTime) \in 0 .. MaxMs
      BY <1>4, <2>1
  <2> QED BY <2>2, <2>3, <2>4, Sizes
<1>9. \A t \in R : k <= Gap(now, deadlines[t])
    BY <1>2, <1>6
<1>10. /\ lastTime' = now
       /\ port' = IF k > MaxMs THEN PortOff
                  ELSE [on |-> k # 0, compare |-> k * Sub, count |-> 0, irq |-> k = 0]
    BY Zenon DEF Arm
<1>11. port' = [on |-> k # 0, compare |-> k * Sub, count |-> 0, irq |-> k = 0]
  <2> HIDE DEF k
  <2>1. ~(k > MaxMs)
      BY <1>8, Sizes
  <2> QED BY <1>10, <2>1, Zenon
<1> HIDE DEF k
<1> QED BY <1>2, <1>8, <1>9, <1>10, <1>11


-----------------------------------------------------------------------------
(* What the state is made of.                                                *)

UsedMax == TimerCount + Cardinality(Users)
ArgType == [timer : Handles, ms : Durations \cup {0}, count : 0 .. UsedMax]
PortType == [on : BOOLEAN, compare : 0 .. MaxMs * Sub, count : 0 .. MaxMs * Sub,
             irq : BOOLEAN]
TableOK ==
    /\ used \in [Handles -> BOOLEAN] /\ usedCount \in 0 .. UsedMax
    /\ handle \in [Users -> SUBSET Handles]
TimingOK ==
    /\ run \in [Handles -> BOOLEAN] /\ timeout \in [Handles -> 0 .. Modulus - 1]
    /\ runCount \in 0 .. Modulus - 1
    /\ absTime \in 0 .. Modulus - 1 /\ lastTime \in 0 .. Modulus - 1
    /\ port \in PortType
    /\ due \in [Handles -> -MaxLate .. MaxMs * Sub]
CallsOK ==
    /\ isr \in [pc : {"off", "ack", "loop", "callback"}, at : Handles]
    /\ pc \in [Users -> {"idle", "get", "free", "start", "stop"}]
    /\ arg \in [Users -> ArgType]

\* The inductive invariant: the types and the parts above.
TimersInv ==
    /\ TableOK /\ TimingOK /\ CallsOK
    /\ CallsInv /\ CountInv /\ HandlesInv /\ DeadlinesInv /\ PortInv

LEMMA TypeParts == TypeOK <=> TableOK /\ TimingOK /\ CallsOK
BY Zenon DEF TypeOK, TableOK, TimingOK, CallsOK, PortType, ArgType, UsedMax

LEMMA UsersCount == Cardinality(Users) \in Nat /\ TimerCount <= UsedMax /\ UsedMax \in Nat
<1>1. Cardinality(Users) \in Nat
    BY SwTimerAssumption, FS_CardinalityType
<1> QED BY <1>1, Sizes DEF UsedMax

LEMMA ArgMade ==
    ASSUME NEW t \in Handles, NEW ms \in Durations \cup {0}, NEW n \in 0 .. UsedMax
    PROVE  [timer |-> t, ms |-> ms, count |-> n] \in ArgType
BY Zenon DEF ArgType

LEMMA NoArgMade == NoArg \in ArgType
<1>1. 0 \in Handles /\ 0 \in 0 .. UsedMax /\ 0 \in Durations \cup {0}
    BY Sizes, UsersCount DEF Handles
<1> QED BY <1>1, ArgMade, Zenon DEF NoArg

LEMMA OffMade == PortOff \in PortType
<1>1. 0 \in 0 .. MaxMs * Sub
    BY Sizes
<1> QED BY <1>1 DEF PortOff, PortType

\* An argument, field by field.
LEMMA ArgFields ==
    ASSUME NEW a \in ArgType
    PROVE  a.timer \in Handles /\ a.ms \in 0 .. MaxMs /\ a.ms \in Durations \cup {0}
           /\ a.count \in 0 .. UsedMax
<1>1. a.timer \in Handles /\ a.ms \in Durations \cup {0} /\ a.count \in 0 .. UsedMax
    BY DEF ArgType
<1>2. Durations \cup {0} \subseteq 0 .. MaxMs
    BY Sizes
<1> QED BY <1>1, <1>2

-----------------------------------------------------------------------------
(* Counting.                                                                 *)

LEMMA MarkedFinite ==
    ASSUME NEW f \in [Handles -> BOOLEAN]
    PROVE  IsFiniteSet(Marked(f)) /\ Cardinality(Marked(f)) \in Nat
<1>1. IsFiniteSet(Handles)
    BY FS_Interval, Sizes DEF Handles
<1>2. Marked(f) \subseteq Handles
    BY DEF Marked
<1>3. IsFiniteSet(Marked(f))
    BY <1>1, <1>2, FS_Subset, Zenon
<1> QED BY <1>3, FS_CardinalityType, Zenon

LEMMA MarkedAdded ==
    ASSUME NEW f \in [Handles -> BOOLEAN], NEW t \in Handles, ~f[t],
           NEW g, g = [f EXCEPT ![t] = TRUE]
    PROVE  /\ g \in [Handles -> BOOLEAN] /\ Marked(g) = Marked(f) \cup {t}
           /\ Cardinality(Marked(g)) = Cardinality(Marked(f)) + 1
<1>1. g \in [Handles -> BOOLEAN] /\ Marked(g) = Marked(f) \cup {t} /\ t \notin Marked(f)
    BY DEF Marked
<1> QED BY <1>1, MarkedFinite, FS_AddElement

LEMMA MarkedRemoved ==
    ASSUME NEW f \in [Handles -> BOOLEAN], NEW t \in Handles, f[t],
           NEW g, g = [f EXCEPT ![t] = FALSE]
    PROVE  /\ g \in [Handles -> BOOLEAN] /\ Marked(g) = Marked(f) \ {t}
           /\ Cardinality(Marked(g)) = Cardinality(Marked(f)) - 1
           /\ Cardinality(Marked(f)) \in Nat \ {0}
<1>1. g \in [Handles -> BOOLEAN] /\ Marked(g) = Marked(f) \ {t} /\ t \in Marked(f)
    BY DEF Marked
<1>2. Cardinality(Marked(g)) = Cardinality(Marked(f)) - 1
    BY <1>1, MarkedFinite, FS_RemoveElement
<1>3. Cardinality(Marked(f)) # 0
    BY <1>1, MarkedFinite, FS_EmptySet
<1> QED BY <1>1, <1>2, <1>3, MarkedFinite

LEMMA MarkedBound ==
    ASSUME NEW f \in [Handles -> BOOLEAN], Marked(f) \subseteq Timers
    PROVE  /\ Cardinality(Marked(f)) \in 0 .. TimerCount
           /\ Marked(f) # Timers => Cardinality(Marked(f)) < TimerCount
           /\ Cardinality(Marked(f)) = 0 <=> Marked(f) = {}
<1>1. Cardinality(Marked(f)) <= TimerCount
    BY Sizes, FS_Subset
<1>2. ASSUME Marked(f) # Timers PROVE Cardinality(Marked(f)) < TimerCount
    BY <1>1, <1>2, Sizes, FS_Subset, MarkedFinite
<1>3. Cardinality(Marked(f)) = 0 <=> Marked(f) = {}
    BY MarkedFinite, FS_EmptySet
<1> QED BY <1>1, <1>2, <1>3, MarkedFinite, Sizes

\* A counter of what is marked does not wrap.
LEMMA CountWraps ==
    ASSUME NEW n \in 0 .. TimerCount
    PROVE  n % Modulus = n
BY Sizes

-----------------------------------------------------------------------------
(* The clock.                                                                *)

\* A time x ahead of a reading n of the clock that was made after time l.
LEMMA Later ==
    ASSUME NEW l \in 0 .. Modulus - 1, NEW n \in 0 .. Modulus - 1, NEW x \in 0 .. MaxMs,
           Gap(l, n) <= MaxMs
    PROVE  (n + x) % Modulus \in 0 .. Modulus - 1 /\ Gap(l, (n + x) % Modulus) = Gap(l, n) + x
<1> DEFINE d == (n + x) % Modulus
<1>1. d = IF n + x >= Modulus THEN n + x - Modulus ELSE n + x
    BY Sizes
<1>2. d \in 0 .. Modulus - 1
    BY <1>1, Sizes
<1> HIDE DEF d
<1>3. /\ Gap(l, d) = IF d >= l THEN d - l ELSE d - l + Modulus
      /\ Gap(l, n) = IF n >= l THEN n - l ELSE n - l + Modulus
    BY <1>2, GapType
<1>4. Modulus \in Nat /\ Modulus > 2 * MaxMs /\ MaxMs \in Nat
    BY Sizes
<1>5. Gap(l, d) = Gap(l, n) + x
    BY <1>1, <1>2, <1>3, <1>4
<1> QED BY <1>2, <1>5 DEF d

LEMMA NoGap == ASSUME NEW l \in 0 .. Modulus - 1 PROVE Gap(l, l) = 0
BY GapType

\* gpt_sw_get_current_time_ms, wherever it is called: no running timer's
\* deadline is behind the time it reads, nor too far ahead.
Read(now) ==
    /\ now \in 0 .. Modulus - 1
    /\ Gap(lastTime, now) \in 0 .. MaxMs
    /\ \A t \in RunSet : /\ Gap(lastTime, now) <= Gap(lastTime, timeout[t])
                         /\ Gap(lastTime, timeout[t]) <= Gap(lastTime, now) + MaxMs

LEMMA Deadline ==
    ASSUME TimingOK, NEW t \in RunSet
    PROVE  /\ timeout[t] \in 0 .. Modulus - 1
           /\ Rest(t) \in 0 .. Modulus - 1 /\ Rest(t) = Gap(lastTime, timeout[t])
<1>1. timeout[t] \in 0 .. Modulus - 1 /\ lastTime \in 0 .. Modulus - 1
    BY Zenon DEF TimingOK, RunSet, Marked
<1> QED BY <1>1, GapType, Zenon DEF Rest

LEMMA ReadAgain == ASSUME TimingOK, DeadlinesInv PROVE Read(absTime)
<1>1. lastTime \in 0 .. Modulus - 1 /\ absTime \in 0 .. Modulus - 1
    BY Zenon DEF TimingOK
<1>2. Gap(lastTime, absTime) \in 0 .. MaxMs
    BY <1>1, GapType, Sizes DEF DeadlinesInv, Elapsed
<1>3. \A t \in RunSet : /\ Gap(lastTime, absTime) <= Gap(lastTime, timeout[t])
                        /\ Gap(lastTime, timeout[t]) <= Gap(lastTime, absTime) + MaxMs
    BY Zenon DEF DeadlinesInv, Elapsed, Rest
<1> QED BY <1>1, <1>2, <1>3, Zenon DEF Read

LEMMA ReadCounter ==
    ASSUME TimingOK, DeadlinesInv, PortInv, isr.pc \notin {"loop", "callback"}, RunSet # {}
    PROVE  /\ Read(Now) /\ absTime = lastTime
           /\ Gap(lastTime, Now) = Ms(port.count)
           /\ Now = (absTime + Ms(port.count)) % Modulus
<1>1. lastTime \in 0 .. Modulus - 1 /\ absTime = lastTime
    BY Zenon DEF TimingOK, PortInv
<1>2. PICK k \in 0 .. MaxMs : PortFor(k)
    BY DEF PortInv
<1>3. port.count \in 0 .. k * Sub /\ k \in Nat
  <2>1. port.count \in 0 .. MaxMs * Sub
      BY DEF TimingOK, PortType
  <2> QED BY <1>2, <2>1, Sizes DEF PortFor
<1> DEFINE m == Ms(port.count)
<1>4. m \in 0 .. k
    BY <1>3, MsBound
<1> HIDE DEF m
<1>5. m \in 0 .. MaxMs /\ m \in 0 .. Modulus - 1
    BY <1>2, <1>4, Sizes
<1>6. Now = (lastTime + m) % Modulus
    BY <1>1 DEF Now, InCallback, m
<1>7. Now \in 0 .. Modulus - 1 /\ Gap(lastTime, Now) = m
    BY <1>1, <1>5, <1>6, Ahead
<1>8. \A t \in RunSet : /\ m <= Gap(lastTime, timeout[t])
                        /\ Gap(lastTime, timeout[t]) <= m + MaxMs
  <2> SUFFICES ASSUME NEW t \in RunSet
               PROVE  m <= Gap(lastTime, timeout[t]) /\ Gap(lastTime, timeout[t]) <= m + MaxMs
      OBVIOUS
  <2> DEFINE r == Gap(lastTime, timeout[t])
  <2>1. r \in Int /\ r = Rest(t)
      BY Deadline
  <2>2. k <= r
      BY <1>2, <2>1 DEF PortFor
  <2>3. Elapsed = 0
      BY <1>1, NoGap DEF Elapsed
  <2>4. r <= 0 + MaxMs
      BY <2>1, <2>3 DEF DeadlinesInv
  <2> HIDE DEF r
  <2>5. m <= r /\ r <= m + MaxMs
      BY <1>4, <1>5, <2>1, <2>2, <2>4, Sizes
  <2> QED BY <2>5 DEF r
<1> QED BY <1>1, <1>5, <1>6, <1>7, <1>8 DEF Read, m

LEMMA ReadIdle ==
    ASSUME TimingOK, DeadlinesInv, InCallback \/ port.count = 0
    PROVE  Now = absTime /\ Read(Now)
<1>1. absTime \in 0 .. Modulus - 1
    BY Zenon DEF TimingOK
<1>2. Now = absTime
    BY <1>1, MsZero, Sizes DEF Now
<1> QED BY <1>2, ReadAgain

LEMMA Reading == ASSUME TimingOK, DeadlinesInv, PortInv PROVE Read(Now)
<1>1. CASE isr.pc \notin {"loop", "callback"} /\ RunSet # {}
    BY <1>1, ReadCounter
<1>2. CASE ~(isr.pc \notin {"loop", "callback"} /\ RunSet # {})
  <2>1. port.count = 0
      BY <1>2 DEF PortInv
  <2> QED BY <2>1, ReadIdle
<1> QED BY <1>1, <1>2

-----------------------------------------------------------------------------
(* Arming the port.                                                          *)

\* What is left of every timer at a time now is what is left of it after a step that
\* starts the counter anew.
Kept(now) ==
    /\ port'.count = 0
    /\ \A t \in RunSet' : Rest(t)' - Elapsed'
                              = Gap(lastTime, timeout'[t]) - Gap(lastTime, now)

\* Arming restores what holds of the clock and the port between calls.
LEMMA Armed ==
    ASSUME TimingOK, NEW now \in 0 .. Modulus - 1, absTime' = now,
           NEW running \in [Handles -> BOOLEAN], run' = running,
           NEW deadlines \in [Handles -> 0 .. Modulus - 1], timeout' = deadlines,
           isr'.pc = "off", Marked(running) \subseteq Timers, Marked(running) # {},
           \A t \in Marked(running) :
               /\ Gap(lastTime, now) <= Gap(lastTime, deadlines[t])
               /\ Gap(lastTime, deadlines[t]) <= Gap(lastTime, now) + MaxMs,
           Arm(running, deadlines, now)
    PROVE  /\ DeadlinesInv' /\ PortInv' /\ port' \in PortType /\ lastTime' = now
           /\ Kept(now)
<1>1. lastTime \in 0 .. Modulus - 1
    BY Zenon DEF TimingOK
<1>2. \A t \in Timers : running[t] <=> t \in Marked(running)
    BY Sizes DEF Marked
<1>3. \E t \in Timers : running[t]
    BY <1>2
<1>4. \A t \in Timers : running[t] =>
          /\ Gap(lastTime, now) <= Gap(lastTime, deadlines[t])
          /\ Gap(lastTime, deadlines[t]) <= Gap(lastTime, now) + MaxMs
    BY <1>2, Zenon
<1>5. /\ lastTime' = now
      /\ \A t \in Timers : running[t] =>
            Gap(now, deadlines[t])
                = Gap(lastTime, deadlines[t]) - Gap(lastTime, now)
      /\ \E k \in 0 .. MaxMs :
            /\ port' = [on |-> k # 0, compare |-> k * Sub, count |-> 0, irq |-> k = 0]
            /\ \A t \in Timers : running[t] => k <= Gap(now, deadlines[t])
    BY <1>1, <1>3, <1>4, ArmFacts, Zenon
<1>6. \A t \in Marked(running) :
          Gap(now, deadlines[t]) = Gap(lastTime, deadlines[t]) - Gap(lastTime, now)
    BY <1>2, <1>5, Zenon
<1>7. PICK k \in 0 .. MaxMs :
            /\ port' = [on |-> k # 0, compare |-> k * Sub, count |-> 0, irq |-> k = 0]
            /\ \A t \in Timers : running[t] => k <= Gap(now, deadlines[t])
    BY <1>5
<1>8. k * Sub \in 0 .. MaxMs * Sub /\ (k # 0 => 0 < k * Sub) /\ 0 \in 0 .. MaxMs * Sub
  <2>1. k * Sub \in 0 .. MaxMs * Sub
      BY Sizes, Scaled
  <2>2. ASSUME k # 0 PROVE 0 < k * Sub
      BY <2>2, Sizes
  <2>3. 0 \in 0 .. MaxMs * Sub
      BY Sizes, Scaled
  <2> QED BY <2>1, <2>2, <2>3
<1>9. port' \in PortType /\ port'.count = 0
    BY <1>7, <1>8 DEF PortType
<1>10. RunSet' = Marked(running)
    BY DEF RunSet, Marked
<1>11. \A t \in RunSet' : Rest(t)' = Gap(now, deadlines[t])
    BY <1>5, <1>10 DEF Rest
<1>12. Elapsed' = 0
    BY <1>5, NoGap DEF Elapsed
<1>13. PortInv'
  <2>1. PortFor(k)'
      BY <1>2, <1>7, <1>8, <1>10, <1>11 DEF PortFor
  <2>2. port'.on \/ port'.irq
      BY <1>7
  <2>3. port'.on => port'.count < port'.compare
      BY <1>7, <1>8
  <2> QED BY <1>5, <1>10, <2>1, <2>2, <2>3 DEF PortInv
<1>14. DeadlinesInv'
  <2> SUFFICES ASSUME NEW t \in RunSet' PROVE 0 <= Rest(t)' /\ Rest(t)' <= MaxMs
      BY <1>12, Sizes DEF DeadlinesInv
  <2>1. /\ Gap(lastTime, now) <= Gap(lastTime, deadlines[t])
        /\ Gap(lastTime, deadlines[t]) <= Gap(lastTime, now) + MaxMs
      BY <1>10
  <2>2. Gap(lastTime, now) \in Int /\ Gap(lastTime, deadlines[t]) \in Int
    <3>1. deadlines[t] \in 0 .. Modulus - 1
        BY <1>10 DEF Marked
    <3> QED BY <1>1, <3>1, GapType
  <2>3. Gap(lastTime, deadlines[t]) - Gap(lastTime, now) \in 0 .. MaxMs
      BY <2>1, <2>2, Spread
  <2> QED BY <1>6, <1>10, <1>11, <2>3, Sizes
<1>15. Kept(now)
  <2> SUFFICES ASSUME NEW t \in RunSet'
               PROVE  Rest(t)' - 0 = Gap(lastTime, deadlines[t]) - Gap(lastTime, now)
      BY <1>9, <1>12 DEF Kept
  <2>1. deadlines[t] \in 0 .. Modulus - 1
      BY <1>10 DEF Marked
  <2>2. Gap(now, deadlines[t]) \in Int
      BY <2>1, GapType
  <2> QED BY <1>6, <1>10, <1>11, <2>2
<1> QED BY <1>5, <1>9, <1>13, <1>14, <1>15

-----------------------------------------------------------------------------
(* The masked parts of start and stop.                                       *)

\* When the port is not armed again the clock stays read against the old time.
LEMMA Disarmed ==
    ASSUME TimingOK, NEW now, Read(now), absTime' = now, lastTime' = lastTime,
           port' = PortOff,
           \A t \in RunSet' : /\ Gap(lastTime, now) <= Gap(lastTime, timeout'[t])
                              /\ Gap(lastTime, timeout'[t]) <= Gap(lastTime, now) + MaxMs,
           isr'.pc = "loop" \/ (isr'.pc = "off" /\ RunSet' = {})
    PROVE  DeadlinesInv' /\ PortInv' /\ Kept(now)
<1>1. Elapsed' = Gap(lastTime, now) /\ Elapsed' <= MaxMs
    BY Sizes DEF Elapsed, Read
<1>2. \A t \in RunSet' : Rest(t)' = Gap(lastTime, timeout'[t])
    BY DEF Rest
<1>3. DeadlinesInv'
    BY <1>1, <1>2 DEF DeadlinesInv
<1>4. ~port'.on /\ ~port'.irq /\ port'.count = 0
    BY DEF PortOff
<1>5. PortInv'
    BY <1>4 DEF PortInv
<1>6. Kept(now)
    BY <1>1, <1>2, <1>4 DEF Kept
<1> QED BY <1>3, <1>5, <1>6

LEMMA Started ==
    ASSUME TimingOK, DeadlinesInv, PortInv, RunSet \subseteq Timers,
           NEW t \in Timers, NEW ms \in 0 .. MaxMs, ~run[t], StartMasked(t, ms),
           IF InCallback THEN isr'.pc = "loop" ELSE isr'.pc = "off",
           runCount = Cardinality(RunSet)
    PROVE  /\ TimingOK' /\ DeadlinesInv' /\ PortInv'
           /\ RunSet' = RunSet \cup {t} /\ runCount' = Cardinality(RunSet')
           /\ Kept(Now)
           /\ Gap(lastTime, timeout'[t]) = Gap(lastTime, Now) + ms
           /\ \A s \in RunSet : timeout'[s] = timeout[s] /\ due'[s] = due[s]
           /\ due'[t] = ms * Sub
<1> DEFINE l == lastTime
           d == (Now + ms) % Modulus
<1>1. /\ run \in [Handles -> BOOLEAN] /\ timeout \in [Handles -> 0 .. Modulus - 1]
      /\ l \in 0 .. Modulus - 1 /\ due \in [Handles -> -MaxLate .. MaxMs * Sub]
      /\ t \in Handles
    BY Sizes, Zenon DEF TimingOK
<1>2. /\ absTime' = Now
      /\ runCount' = (runCount + 1) % Modulus
      /\ run' = [run EXCEPT ![t] = TRUE]
      /\ timeout' = [timeout EXCEPT ![t] = d]
      /\ due' = [due EXCEPT ![t] = ms * Sub]
      /\ InCallback => port' = PortOff /\ lastTime' = l
      /\ ~InCallback => Arm(run', timeout', Now)
    BY Zenon DEF StartMasked
<1>3. Read(Now)
    BY Reading
<1>4. d \in 0 .. Modulus - 1 /\ Gap(l, d) = Gap(l, Now) + ms
    BY <1>1, <1>3, Later DEF Read
<1> HIDE DEF d
<1>5. /\ run' \in [Handles -> BOOLEAN] /\ RunSet' = RunSet \cup {t}
      /\ Cardinality(RunSet') = Cardinality(RunSet) + 1
  <2>1. /\ run' \in [Handles -> BOOLEAN] /\ Marked(run') = Marked(run) \cup {t}
        /\ Cardinality(Marked(run')) = Cardinality(Marked(run)) + 1
      BY <1>1, <1>2, MarkedAdded
  <2> QED BY <2>1 DEF RunSet, Marked
<1>6. RunSet' = Marked(run')
    BY DEF RunSet, Marked
<1>7. runCount' = Cardinality(RunSet') /\ runCount' \in 0 .. Modulus - 1
  <2>1. Cardinality(Marked(run')) \in 0 .. TimerCount
      BY <1>5, <1>6, MarkedBound
  <2>2. runCount' = Cardinality(RunSet') % Modulus
      BY <1>2, <1>5
  <2> QED BY <1>6, <2>1, <2>2, CountWraps, Sizes
<1>8. timeout' \in [Handles -> 0 .. Modulus - 1] /\ timeout'[t] = d
      /\ \A s \in RunSet : s # t => timeout'[s] = timeout[s]
    BY <1>1, <1>2, <1>4 DEF RunSet, Marked
<1>9. t \notin RunSet
    BY DEF RunSet, Marked
<1>10. \A s \in RunSet' : /\ Gap(l, Now) <= Gap(l, timeout'[s])
                          /\ Gap(l, timeout'[s]) <= Gap(l, Now) + MaxMs
  <2> SUFFICES ASSUME NEW s \in RunSet'
               PROVE  /\ Gap(l, Now) <= Gap(l, timeout'[s])
                      /\ Gap(l, timeout'[s]) <= Gap(l, Now) + MaxMs
      OBVIOUS
  <2>1. CASE s = t
    <3>1. Gap(l, Now) \in 0 .. MaxMs /\ ms \in 0 .. MaxMs /\ MaxMs \in Nat
        BY <1>3, Sizes DEF Read
    <3>2. Gap(l, timeout'[s]) = Gap(l, Now) + ms
        BY <1>4, <1>8, <2>1
    <3> QED BY <3>1, <3>2
  <2>2. CASE s # t
    <3>1. s \in RunSet /\ timeout'[s] = timeout[s]
        BY <1>5, <1>8, <2>2
    <3> QED BY <1>3, <3>1 DEF Read
  <2> QED BY <2>1, <2>2
<1>11. due' \in [Handles -> -MaxLate .. MaxMs * Sub]
  <2>1. ms * Sub \in 0 .. MaxMs * Sub
      BY Scaled, Sizes
  <2>2. ms * Sub \in -MaxLate .. MaxMs * Sub
      BY <2>1, Sizes
  <2> QED BY <1>1, <1>2, <2>2
<1>12. Gap(lastTime, timeout'[t]) = Gap(lastTime, Now) + ms
    BY <1>4, <1>8
<1>13. /\ \A s \in RunSet : timeout'[s] = timeout[s] /\ due'[s] = due[s]
       /\ due'[t] = ms * Sub
    BY <1>1, <1>2, <1>8, <1>9 DEF RunSet, Marked
<1>14. CASE InCallback
  <2>1. DeadlinesInv' /\ PortInv' /\ Kept(Now)
      BY <1>2, <1>3, <1>10, <1>14, Disarmed
  <2>2. TimingOK'
      BY <1>1, <1>2, <1>3, <1>5, <1>7, <1>8, <1>11, <1>14, OffMade DEF TimingOK, Read
  <2> QED BY <1>5, <1>7, <1>12, <1>13, <2>1, <2>2
<1>15. CASE ~InCallback
  <2>1. Marked(run') \subseteq Timers /\ Marked(run') # {}
      BY <1>5, <1>6
  <2>2. isr'.pc = "off" /\ Arm(run', timeout', Now) /\ Now \in 0 .. Modulus - 1
      BY <1>2, <1>3, <1>15 DEF Read
  <2>3. /\ DeadlinesInv' /\ PortInv' /\ port' \in PortType /\ lastTime' = Now
         /\ Kept(Now)
      BY <1>2, <1>5, <1>6, <1>8, <1>10, <2>1, <2>2, Armed
  <2>4. TimingOK'
      BY <1>2, <1>5, <1>7, <1>8, <1>11, <2>2, <2>3 DEF TimingOK
  <2> QED BY <1>5, <1>7, <1>12, <1>13, <2>3, <2>4
<1> QED BY <1>14, <1>15

LEMMA Stopped ==
    ASSUME TimingOK, DeadlinesInv, PortInv, RunSet \subseteq Timers,
           NEW t \in Timers, run[t], StopMasked(t),
           IF InCallback THEN isr'.pc = "loop" ELSE isr'.pc = "off",
           runCount = Cardinality(RunSet)
    PROVE  /\ TimingOK' /\ DeadlinesInv' /\ PortInv'
           /\ RunSet' = RunSet \ {t} /\ runCount' = Cardinality(RunSet')
           /\ Kept(Now) /\ timeout' = timeout /\ due' = due
<1> DEFINE l == lastTime
<1>1. /\ run \in [Handles -> BOOLEAN] /\ timeout \in [Handles -> 0 .. Modulus - 1]
      /\ l \in 0 .. Modulus - 1 /\ due \in [Handles -> -MaxLate .. MaxMs * Sub]
      /\ t \in Handles
    BY Sizes, Zenon DEF TimingOK
<1>2. /\ absTime' = Now
      /\ runCount' = (runCount - 1) % Modulus
      /\ run' = [run EXCEPT ![t] = FALSE]
      /\ timeout' = timeout /\ due' = due
      /\ ~(runCount' # 0 /\ ~InCallback) => port' = PortOff /\ lastTime' = l
      /\ runCount' # 0 /\ ~InCallback => Arm(run', timeout, Now)
    BY Zenon DEF StopMasked
<1>3. Read(Now)
    BY Reading
<1>4. /\ run' \in [Handles -> BOOLEAN] /\ RunSet' = RunSet \ {t}
      /\ Cardinality(RunSet') = Cardinality(RunSet) - 1
  <2>1. /\ run' \in [Handles -> BOOLEAN] /\ Marked(run') = Marked(run) \ {t}
        /\ Cardinality(Marked(run')) = Cardinality(Marked(run)) - 1
      BY <1>1, <1>2, MarkedRemoved
  <2> QED BY <2>1 DEF RunSet, Marked
<1>5. RunSet' = Marked(run')
    BY DEF RunSet, Marked
<1>6. /\ runCount' = Cardinality(RunSet') /\ runCount' \in 0 .. Modulus - 1
      /\ runCount' = 0 <=> RunSet' = {}
  <2>1. /\ Cardinality(Marked(run')) \in 0 .. TimerCount
        /\ Cardinality(Marked(run')) = 0 <=> Marked(run') = {}
      BY <1>4, <1>5, MarkedBound
  <2>2. runCount' = Cardinality(RunSet') % Modulus
      BY <1>2, <1>4
  <2> QED BY <1>5, <2>1, <2>2, CountWraps, Sizes
<1>7. \A s \in RunSet' : /\ Gap(l, Now) <= Gap(l, timeout'[s])
                         /\ Gap(l, timeout'[s]) <= Gap(l, Now) + MaxMs
    BY <1>2, <1>3, <1>4 DEF Read
<1>8. CASE InCallback \/ runCount' = 0
  <2>1. DeadlinesInv' /\ PortInv' /\ Kept(Now)
      BY <1>2, <1>3, <1>6, <1>7, <1>8, Disarmed
  <2>2. TimingOK'
      BY <1>1, <1>2, <1>3, <1>4, <1>6, <1>8, OffMade DEF TimingOK, Read
  <2> QED BY <1>2, <1>4, <1>6, <2>1, <2>2
<1>9. CASE ~InCallback /\ runCount' # 0
  <2>1. Marked(run') \subseteq Timers /\ Marked(run') # {}
      BY <1>4, <1>5, <1>6, <1>9
  <2>2. isr'.pc = "off" /\ Arm(run', timeout', Now) /\ Now \in 0 .. Modulus - 1
      BY <1>2, <1>3, <1>9 DEF Read
  <2>3. /\ DeadlinesInv' /\ PortInv' /\ port' \in PortType /\ lastTime' = Now
         /\ Kept(Now)
      BY <1>1, <1>2, <1>4, <1>5, <1>7, <2>1, <2>2, Armed
  <2>4. TimingOK'
      BY <1>1, <1>2, <1>4, <1>6, <2>2, <2>3 DEF TimingOK
  <2> QED BY <1>2, <1>4, <1>6, <2>3, <2>4
<1> QED BY <1>8, <1>9

-----------------------------------------------------------------------------
(* The calls of a task.                                                      *)

LEMMA SameClock ==
    ASSUME TimingOK, DeadlinesInv, PortInv, UNCHANGED timing, UNCHANGED isr
    PROVE  TimingOK' /\ DeadlinesInv' /\ PortInv'
<1>1. /\ run' = run /\ timeout' = timeout /\ runCount' = runCount /\ absTime' = absTime
      /\ lastTime' = lastTime /\ port' = port /\ due' = due /\ isr' = isr
    BY DEF timing
<1>2. TimingOK'
    BY <1>1, Zenon DEF TimingOK
<1>3. RunSet' = RunSet /\ Elapsed' = Elapsed /\ \A t : Rest(t)' = Rest(t)
    BY <1>1, Zenon DEF RunSet, Marked, Elapsed, Rest
<1>4. DeadlinesInv'
    BY <1>3 DEF DeadlinesInv
<1>5. \A k : PortFor(k)' <=> PortFor(k)
    BY <1>1, <1>3 DEF PortFor
<1>6. PortInv'
    BY <1>1, <1>3, <1>5, Zenon DEF PortInv
<1> QED BY <1>2, <1>4, <1>6

LEMMA SameTable ==
    ASSUME TableOK, HandlesInv, UNCHANGED table
    PROVE  TableOK' /\ HandlesInv' /\ Used' = Used
<1>1. used' = used /\ usedCount' = usedCount /\ handle' = handle
    BY DEF table
<1> QED BY <1>1, Zenon DEF TableOK, HandlesInv, HandlesValid, Used, Marked

\* A call that makes its checks and comes back later.
LEMMA CheckedStep ==
    ASSUME ~Split, TimersInv, NEW u \in Users, NEW where \in {"get", "start", "stop"},
           NEW a \in ArgType, Checked(u, where, a),
           where = "get" => usedCount < TimerCount,
           where = "start" => used[a.timer] /\ ~run[a.timer],
           where = "stop" => run[a.timer]
    PROVE  TimersInv'
<1>1. /\ isr.pc = "off" /\ \A v \in Users : pc[v] = "idle"
      /\ pc' = [pc EXCEPT ![u] = where] /\ arg' = [arg EXCEPT ![u] = a]
      /\ UNCHANGED table /\ UNCHANGED timing /\ isr' = isr
    BY DEF Checked, TaskRuns
<1>2. TableOK /\ TimingOK /\ CallsOK
    BY Zenon DEF TimersInv
<1>3. CallsInv /\ CountInv /\ HandlesInv /\ DeadlinesInv /\ PortInv
    BY Zenon DEF TimersInv
<1>4. TimingOK' /\ DeadlinesInv' /\ PortInv'
    BY <1>1, <1>2, <1>3, SameClock, Zenon
<1>5. TableOK' /\ HandlesInv' /\ Used' = Used
    BY <1>1, <1>2, <1>3, SameTable, Zenon
<1>6. CallsOK'
    BY <1>1, <1>2 DEF CallsOK
<1>7. /\ used' = used /\ usedCount' = usedCount /\ run' = run /\ runCount' = runCount
      /\ RunSet' = RunSet
    BY <1>1, Zenon DEF table, timing, RunSet, Marked
<1>8. pc'[u] = where /\ arg'[u] = a /\ \A v \in Users \ {u} : pc'[v] = "idle"
    BY <1>1, <1>2 DEF CallsOK
<1>9. CallsInv'
  <2>1. \A v, w \in Users : pc'[v] # "idle" /\ pc'[w] # "idle" => v = w
      BY <1>8, Zenon
  <2>2. isr'.pc = "off"
      BY <1>1
  <2>3. \A v \in Users :
          /\ pc'[v] = "get" => usedCount' < TimerCount
          /\ pc'[v] = "start" => used'[arg'[v].timer] /\ ~run'[arg'[v].timer]
          /\ pc'[v] = "stop" => run'[arg'[v].timer]
    <3> TAKE v \in Users
    <3>1. CASE v = u
        BY <1>7, <1>8, <3>1
    <3>2. CASE v # u
      <4>1. pc'[v] = "idle"
          BY <1>8, <3>2
      <4> QED BY <4>1
    <3> QED BY <3>1, <3>2
  <2> QED BY <2>1, <2>2, <2>3 DEF CallsInv
<1>10. CountInv'
  <2>1. \A v \in Users : pc'[v] # "free" /\ pc[v] # "free"
      BY <1>1, <1>8
  <2>2. /\ RunSet \subseteq Used /\ Used \subseteq Timers /\ runCount = Cardinality(RunSet)
        /\ usedCount = Cardinality(Used)
      BY <1>3, <2>1 DEF CountInv
  <2> QED BY <1>5, <1>7, <2>1, <2>2 DEF CountInv
<1> QED BY <1>4, <1>5, <1>6, <1>9, <1>10 DEF TimersInv

LEMMA GetCheckStep ==
    ASSUME ~Split, TimersInv, NEW u \in Users, GetCheck(u)
    PROVE  TimersInv'
<1>1. usedCount < TimerCount /\ Checked(u, "get", NoArg)
    BY Zenon DEF GetCheck
<1> QED BY <1>1, CheckedStep, NoArgMade

\* A task's own timer is one of the table.
LEMMA OwnTimer ==
    ASSUME TimersInv, NEW u \in Users, NEW t \in handle[u]
    PROVE  t \in Timers /\ t \in Handles
<1>1. handle[u] \subseteq Timers
    BY Zenon DEF TimersInv, HandlesInv, HandlesValid
<1> QED BY <1>1, Sizes

LEMMA StartCheckStep ==
    ASSUME ~Split, TimersInv, NEW u \in Users, NEW t \in Handles, NEW ms \in Durations,
           StartCheck(u, t, ms)
    PROVE  TimersInv'
<1> DEFINE a == [timer |-> t, ms |-> ms, count |-> 0]
<1>1. ~run[t] /\ used[t] /\ Checked(u, "start", a)
    BY Zenon DEF StartCheck
<1>2. a \in ArgType
    BY ArgMade, UsersCount
<1>3. a.timer = t
    OBVIOUS
<1> HIDE DEF a
<1> QED BY <1>1, <1>2, <1>3, CheckedStep

LEMMA StopCheckStep ==
    ASSUME ~Split, TimersInv, NEW u \in Users, NEW t \in Handles, StopCheck(u, t)
    PROVE  TimersInv'
<1> DEFINE a == [timer |-> t, ms |-> 0, count |-> 0]
<1>1. run[t] /\ Checked(u, "stop", a)
    BY Zenon DEF StopCheck
<1>2. a \in ArgType
    BY ArgMade, UsersCount
<1>3. a.timer = t
    OBVIOUS
<1> HIDE DEF a
<1> QED BY <1>1, <1>2, <1>3, CheckedStep

\* What goes on with a call that has made its checks.
LEMMA ResumeFacts ==
    ASSUME ~Split, TimersInv, NEW u \in Users, NEW where \in {"get", "free", "start", "stop"},
           Resumes(u, where)
    PROVE  /\ isr.pc = "off" /\ isr' = isr /\ pc[u] = where
           /\ \A v \in Users : pc'[v] = "idle" /\ (v # u => pc[v] = "idle")
           /\ CallsOK' /\ CallsInv'
<1>1. /\ isr.pc = "off" /\ isr' = isr /\ pc[u] = where
      /\ \A v \in Users \ {u} : pc[v] = "idle"
      /\ pc' = [pc EXCEPT ![u] = "idle"] /\ arg' = [arg EXCEPT ![u] = NoArg]
    BY DEF Resumes, TaskRuns
<1>2. CallsOK
    BY Zenon DEF TimersInv
<1>3. \A v \in Users : pc'[v] = "idle"
    BY <1>1, <1>2 DEF CallsOK
<1>4. CallsOK'
    BY <1>1, <1>2, NoArgMade DEF CallsOK
<1>5. CallsInv'
    BY <1>1, <1>3 DEF CallsInv
<1> QED BY <1>1, <1>3, <1>4, <1>5

\* With no call under way both counters say what the table says.
LEMMA CountIdle ==
    ASSUME CountInv, \A u \in Users : pc[u] # "free"
    PROVE  /\ RunSet \subseteq Used /\ Used \subseteq Timers
           /\ runCount = Cardinality(RunSet) /\ usedCount = Cardinality(Used)
BY Zenon DEF CountInv

LEMMA GetStep ==
    ASSUME ~Split, TimersInv, NEW u \in Users, Get(u)
    PROVE  TimersInv'
<1> DEFINE free == {t \in Timers : ~used[t]}
           new == Min(free \cup {TimerCount})
<1>1. /\ Resumes(u, "get") /\ UNCHANGED timing
      /\ used' = [used EXCEPT ![new] = TRUE]
      /\ handle' = [handle EXCEPT ![u] = @ \cup {new}]
      /\ usedCount' = usedCount + 1
    BY DEF Get
<1>2. TableOK /\ TimingOK /\ CallsInv /\ CountInv /\ HandlesInv /\ DeadlinesInv /\ PortInv
    BY Zenon DEF TimersInv
<1>3. /\ isr' = isr /\ pc[u] = "get"
      /\ \A v \in Users : pc'[v] = "idle" /\ (v # u => pc[v] = "idle")
      /\ CallsOK' /\ CallsInv'
    BY <1>1, ResumeFacts
<1>4. usedCount < TimerCount
    BY <1>2, <1>3 DEF CallsInv
<1>5. /\ RunSet \subseteq Used /\ Used \subseteq Timers
      /\ runCount = Cardinality(RunSet) /\ usedCount = Cardinality(Used)
  <2>1. \A v \in Users : pc[v] # "free"
      BY <1>3
  <2> QED BY <1>2, <2>1, CountIdle
<1>6. used \in [Handles -> BOOLEAN] /\ handle \in [Users -> SUBSET Handles]
    BY <1>2, Zenon DEF TableOK
<1>7. free # {}
  <2>1. Used # Timers
      BY <1>4, <1>5, Sizes
  <2> QED BY <1>5, <2>1, Sizes DEF Used, Marked
<1>8. new \in free
  <2>1. free \cup {TimerCount} \in SUBSET Nat
      BY Sizes DEF Timers
  <2>2. new \in free \cup {TimerCount} /\ \A n \in free \cup {TimerCount} : new <= n
    <3> HIDE DEF free
    <3> QED BY <2>1, LeastNumber
  <2>3. PICK t \in free : TRUE
      BY <1>7
  <2>4. t \in Nat /\ t < TimerCount
      BY Sizes DEF Timers
  <2> HIDE DEF new
  <2> QED BY <2>2, <2>3, <2>4, Sizes
<1>9. new \in Timers /\ new \in Handles /\ ~used[new]
    BY <1>8, Sizes
<1> HIDE DEF new, free
<1>10. /\ used' \in [Handles -> BOOLEAN] /\ Used' = Used \cup {new}
       /\ Cardinality(Used') = Cardinality(Used) + 1
  <2>1. /\ used' \in [Handles -> BOOLEAN] /\ Marked(used') = Marked(used) \cup {new}
        /\ Cardinality(Marked(used')) = Cardinality(Marked(used)) + 1
      BY <1>1, <1>6, <1>9, MarkedAdded
  <2> QED BY <2>1 DEF Used, Marked
<1>11. new \notin Used
    BY <1>9 DEF Used, Marked
<1>12. TimingOK' /\ DeadlinesInv' /\ PortInv'
    BY <1>1, <1>2, <1>3, SameClock, Zenon
<1>13. TableOK'
  <2>1. usedCount' \in 0 .. UsedMax
    <3>1. usedCount \in 0 .. UsedMax
        BY <1>2, Zenon DEF TableOK
    <3> QED BY <1>1, <1>4, <3>1, UsersCount, Sizes
  <2>2. handle' \in [Users -> SUBSET Handles]
      BY <1>1, <1>6, <1>9
  <2> QED BY <1>10, <2>1, <2>2 DEF TableOK
<1>14. CountInv'
  <2>1. RunSet' = RunSet /\ runCount' = runCount
      BY <1>1, Zenon DEF timing, RunSet, Marked
  <2>2. RunSet' \subseteq Used' /\ Used' \subseteq Timers
      BY <1>5, <1>9, <1>10, <2>1
  <2> QED BY <1>1, <1>3, <1>5, <1>10, <2>1, <2>2 DEF CountInv
<1>15. HandlesInv'
  <2>1. \A v \in Users : handle[v] \subseteq Used
      BY <1>2 DEF HandlesInv
  <2>2. \A v \in Users : handle'[v] = IF v = u THEN handle[v] \cup {new} ELSE handle[v]
      BY <1>1, <1>6
  <2>3. \A v \in Users : handle'[v] \subseteq Used' /\ handle'[v] \subseteq Timers
      BY <1>5, <1>9, <1>10, <2>1, <2>2
  <2>4. \A v \in Users : \A w \in Users \ {v} : handle[v] \cap handle[w] = {}
      BY <1>2 DEF HandlesInv, HandlesValid
  <2>5. \A v \in Users : \A w \in Users \ {v} : handle'[v] \cap handle'[w] = {}
    <3> TAKE v \in Users
    <3> TAKE w \in Users \ {v}
    <3>1. handle[v] \cap handle[w] = {} /\ new \notin handle[v] /\ new \notin handle[w]
        BY <1>11, <2>1, <2>4
    <3> QED BY <2>2, <3>1
  <2> QED BY <2>3, <2>5 DEF HandlesInv, HandlesValid
<1> QED BY <1>3, <1>12, <1>13, <1>14, <1>15 DEF TimersInv

\* A timer given back: it is no longer marked and belongs to nobody.
LEMMA GivenBack ==
    ASSUME TableOK, CountInv, HandlesInv, NEW t \in Handles, used[t], ~run[t],
           used' = [used EXCEPT ![t] = FALSE], run' = run,
           \A v \in Users : handle'[v] \subseteq handle[v] /\ t \notin handle'[v],
           handle' \in [Users -> SUBSET Handles]
    PROVE  /\ used' \in [Handles -> BOOLEAN] /\ HandlesInv'
           /\ RunSet' = RunSet /\ RunSet' \subseteq Used' /\ Used' \subseteq Timers
           /\ Cardinality(Used) = Cardinality(Used') + 1 /\ Cardinality(Used') \in Nat
<1>1. used \in [Handles -> BOOLEAN]
    BY Zenon DEF TableOK
<1>2. /\ used' \in [Handles -> BOOLEAN] /\ Used' = Used \ {t}
      /\ Cardinality(Used') = Cardinality(Used) - 1 /\ Cardinality(Used) \in Nat \ {0}
  <2>1. /\ used' \in [Handles -> BOOLEAN] /\ Marked(used') = Marked(used) \ {t}
        /\ Cardinality(Marked(used')) = Cardinality(Marked(used)) - 1
        /\ Cardinality(Marked(used)) \in Nat \ {0}
      BY <1>1, MarkedRemoved
  <2> QED BY <2>1 DEF Used, Marked
<1>3. RunSet' = RunSet /\ t \notin RunSet
    BY DEF RunSet, Marked
<1>4. RunSet \subseteq Used /\ Used \subseteq Timers
    BY Zenon DEF CountInv
<1>5. HandlesInv'
  <2>1. \A v \in Users : handle[v] \subseteq Used
      BY DEF HandlesInv
  <2>2. \A v \in Users : handle'[v] \subseteq Used' /\ handle'[v] \subseteq Timers
      BY <1>2, <1>4, <2>1
  <2>3. \A v \in Users : \A w \in Users \ {v} : handle[v] \cap handle[w] = {}
      BY DEF HandlesInv, HandlesValid
  <2>4. \A v \in Users : \A w \in Users \ {v} : handle'[v] \cap handle'[w] = {}
    <3> TAKE v \in Users
    <3> TAKE w \in Users \ {v}
    <3>1. handle[v] \cap handle[w] = {}
        BY <2>3
    <3>2. handle'[v] \subseteq handle[v] /\ handle'[w] \subseteq handle[w]
        OBVIOUS
    <3> QED BY <3>1, <3>2
  <2> QED BY <2>2, <2>4 DEF HandlesInv, HandlesValid
<1> QED BY <1>2, <1>3, <1>4, <1>5

LEMMA FreeLoadStep ==
    ASSUME ~Split, TimersInv, NEW u \in Users, NEW t \in Handles, FreeLoad(u, t)
    PROVE  TimersInv'
<1> DEFINE a == [timer |-> t, ms |-> 0, count |-> usedCount]
<1>1. /\ t \in handle[u] /\ ~run[t] /\ used[t] /\ isr.pc = "off"
      /\ \A v \in Users : pc[v] = "idle"
      /\ pc' = [pc EXCEPT ![u] = "free"] /\ arg' = [arg EXCEPT ![u] = a]
      /\ used' = [used EXCEPT ![t] = FALSE] /\ handle' = [handle EXCEPT ![u] = @ \ {t}]
      /\ usedCount' = usedCount /\ UNCHANGED timing /\ isr' = isr
    BY DEF FreeLoad, CanFree, TaskRuns
<1>2. /\ TableOK /\ TimingOK /\ CallsOK
      /\ CallsInv /\ CountInv /\ HandlesInv /\ DeadlinesInv /\ PortInv
    BY Zenon DEF TimersInv
<1>3. /\ handle \in [Users -> SUBSET Handles] /\ usedCount \in 0 .. UsedMax
    BY <1>2, Zenon DEF TableOK
<1>4. a \in ArgType /\ a.count = usedCount
    BY <1>3, ArgMade
<1> HIDE DEF a
<1>5. TimingOK' /\ DeadlinesInv' /\ PortInv'
    BY <1>1, <1>2, SameClock, Zenon
<1>6. CallsOK'
    BY <1>1, <1>2, <1>4 DEF CallsOK
<1>7. pc'[u] = "free" /\ arg'[u] = a /\ \A v \in Users \ {u} : pc'[v] = "idle"
    BY <1>1, <1>2 DEF CallsOK
<1>8. CallsInv'
  <2>1. \A v, w \in Users : pc'[v] # "idle" /\ pc'[w] # "idle" => v = w
      BY <1>7, Zenon
  <2>2. \A v \in Users : pc'[v] \in {"idle", "free"}
      BY <1>7
  <2> QED BY <1>1, <2>1, <2>2 DEF CallsInv
<1>9. run' = run /\ runCount' = runCount
    BY <1>1 DEF timing
<1>10. /\ handle' \in [Users -> SUBSET Handles]
       /\ \A v \in Users : handle'[v] \subseteq handle[v] /\ t \notin handle'[v]
  <2>1. \A v \in Users : handle'[v] = IF v = u THEN handle[v] \ {t} ELSE handle[v]
      BY <1>1, <1>3
  <2>2. \A v \in Users \ {u} : t \notin handle[v]
      BY <1>1, <1>2 DEF HandlesInv, HandlesValid
  <2>3. handle' \in [Users -> SUBSET Handles]
      BY <1>1, <1>3
  <2> QED BY <2>1, <2>2, <2>3
<1>11. /\ used' \in [Handles -> BOOLEAN] /\ HandlesInv'
       /\ RunSet' = RunSet /\ RunSet' \subseteq Used' /\ Used' \subseteq Timers
       /\ Cardinality(Used) = Cardinality(Used') + 1
    BY <1>1, <1>2, <1>9, <1>10, GivenBack
<1>12. TableOK'
    BY <1>1, <1>3, <1>10, <1>11 DEF TableOK
<1>13. CountInv'
  <2>1. usedCount = Cardinality(Used) /\ runCount = Cardinality(RunSet)
      BY <1>1, <1>2, CountIdle
  <2>2. usedCount' = Cardinality(Used') + 1 /\ runCount' = Cardinality(RunSet')
      BY <1>1, <1>9, <1>11, <2>1
  <2>3. \A v \in Users : pc'[v] = "free" => v = u
      BY <1>7
  <2> QED BY <1>1, <1>4, <1>7, <1>11, <2>2, <2>3 DEF CountInv
<1> QED BY <1>5, <1>6, <1>8, <1>11, <1>12, <1>13 DEF TimersInv

LEMMA FreeStoreStep ==
    ASSUME ~Split, TimersInv, NEW u \in Users, FreeStore(u)
    PROVE  TimersInv'
<1>1. /\ Resumes(u, "free") /\ usedCount' = arg[u].count - 1
      /\ used' = used /\ handle' = handle /\ UNCHANGED timing
    BY Zenon DEF FreeStore
<1>2. /\ TableOK /\ TimingOK /\ CallsOK
      /\ CallsInv /\ CountInv /\ HandlesInv /\ DeadlinesInv /\ PortInv
    BY Zenon DEF TimersInv
<1>3. /\ isr' = isr /\ pc[u] = "free" /\ \A v \in Users : pc'[v] = "idle"
      /\ CallsOK' /\ CallsInv'
    BY <1>1, ResumeFacts
<1>4. TimingOK' /\ DeadlinesInv' /\ PortInv'
    BY <1>1, <1>2, <1>3, SameClock, Zenon
<1>5. /\ RunSet' = RunSet /\ runCount' = runCount /\ Used' = Used
    BY <1>1, Zenon DEF timing, RunSet, Used, Marked
<1>6. /\ RunSet \subseteq Used /\ Used \subseteq Timers /\ runCount = Cardinality(RunSet)
      /\ usedCount = Cardinality(Used) + 1 /\ arg[u].count = usedCount
    BY <1>2, <1>3 DEF CountInv
<1>7. usedCount \in 0 .. UsedMax /\ used \in [Handles -> BOOLEAN]
    BY <1>2, Zenon DEF TableOK
<1>8. Cardinality(Used) \in Nat
    BY <1>7, MarkedFinite DEF Used
<1>9. usedCount' = Cardinality(Used') /\ usedCount' \in 0 .. UsedMax
    BY <1>1, <1>5, <1>6, <1>7, <1>8, UsersCount
<1>10. TableOK'
    BY <1>1, <1>2, <1>9 DEF TableOK
<1>11. HandlesInv'
    BY <1>1, <1>2, <1>5, Zenon DEF HandlesInv, HandlesValid
<1>12. CountInv'
    BY <1>3, <1>5, <1>6, <1>9 DEF CountInv
<1> QED BY <1>3, <1>4, <1>10, <1>11, <1>12 DEF TimersInv

LEMMA StartStep ==
    ASSUME ~Split, TimersInv, NEW u \in Users, Start(u)
    PROVE  TimersInv'
<1> DEFINE t == arg[u].timer
           ms == arg[u].ms
<1>1. Resumes(u, "start") /\ StartMasked(t, ms) /\ UNCHANGED table
    BY Zenon DEF Start
<1>2. /\ TableOK /\ TimingOK /\ CallsOK
      /\ CallsInv /\ CountInv /\ HandlesInv /\ DeadlinesInv /\ PortInv
    BY Zenon DEF TimersInv
<1>3. /\ isr.pc = "off" /\ isr' = isr /\ pc[u] = "start" /\ CallsOK' /\ CallsInv'
      /\ \A v \in Users : pc'[v] = "idle" /\ (v # u => pc[v] = "idle")
    BY <1>1, ResumeFacts
<1>4. used[t] /\ ~run[t]
    BY <1>2, <1>3 DEF CallsInv
<1>5. t \in Handles /\ ms \in 0 .. MaxMs
  <2>1. arg[u] \in ArgType
      BY <1>2 DEF CallsOK
  <2> QED BY <2>1, ArgFields, Zenon
<1> HIDE DEF t, ms
<1>6. /\ RunSet \subseteq Used /\ Used \subseteq Timers
      /\ runCount = Cardinality(RunSet) /\ usedCount = Cardinality(Used)
  <2>1. \A v \in Users : pc[v] # "free"
      BY <1>3
  <2> QED BY <1>2, <2>1, CountIdle
<1>7. t \in Used /\ t \in Timers /\ RunSet \subseteq Timers
    BY <1>4, <1>5, <1>6 DEF Used, Marked
<1>8. isr'.pc = "off" /\ ~InCallback
    BY <1>3 DEF InCallback
<1>9. /\ TimingOK' /\ DeadlinesInv' /\ PortInv'
      /\ RunSet' = RunSet \cup {t} /\ runCount' = Cardinality(RunSet')
    BY <1>1, <1>2, <1>4, <1>5, <1>6, <1>7, <1>8, Started
<1>10. TableOK' /\ HandlesInv' /\ Used' = Used
    BY <1>1, <1>2, SameTable, Zenon
<1>11. CountInv'
  <2>1. usedCount' = usedCount
      BY <1>1 DEF table
  <2> QED BY <1>3, <1>6, <1>7, <1>9, <1>10, <2>1 DEF CountInv
<1> QED BY <1>3, <1>9, <1>10, <1>11 DEF TimersInv

LEMMA StopStep ==
    ASSUME ~Split, TimersInv, NEW u \in Users, Stop(u)
    PROVE  TimersInv'
<1> DEFINE t == arg[u].timer
<1>1. Resumes(u, "stop") /\ StopMasked(t) /\ UNCHANGED table
    BY Zenon DEF Stop
<1>2. /\ TableOK /\ TimingOK /\ CallsOK
      /\ CallsInv /\ CountInv /\ HandlesInv /\ DeadlinesInv /\ PortInv
    BY Zenon DEF TimersInv
<1>3. /\ isr.pc = "off" /\ isr' = isr /\ pc[u] = "stop" /\ CallsOK' /\ CallsInv'
      /\ \A v \in Users : pc'[v] = "idle" /\ (v # u => pc[v] = "idle")
    BY <1>1, ResumeFacts
<1>4. run[t]
    BY <1>2, <1>3 DEF CallsInv
<1>5. t \in Handles
  <2>1. arg[u] \in ArgType
      BY <1>2 DEF CallsOK
  <2> QED BY <2>1, ArgFields, Zenon
<1> HIDE DEF t
<1>6. /\ RunSet \subseteq Used /\ Used \subseteq Timers
      /\ runCount = Cardinality(RunSet) /\ usedCount = Cardinality(Used)
  <2>1. \A v \in Users : pc[v] # "free"
      BY <1>3
  <2> QED BY <1>2, <2>1, CountIdle
<1>7. t \in Timers /\ RunSet \subseteq Timers
    BY <1>4, <1>5, <1>6 DEF RunSet, Marked
<1>8. isr'.pc = "off" /\ ~InCallback
    BY <1>3 DEF InCallback
<1>9. /\ TimingOK' /\ DeadlinesInv' /\ PortInv'
      /\ RunSet' = RunSet \ {t} /\ runCount' = Cardinality(RunSet')
    BY <1>1, <1>2, <1>4, <1>6, <1>7, <1>8, Stopped
<1>10. TableOK' /\ HandlesInv' /\ Used' = Used
    BY <1>1, <1>2, SameTable, Zenon
<1>11. CountInv'
  <2>1. usedCount' = usedCount
      BY <1>1 DEF table
  <2> QED BY <1>3, <1>6, <1>9, <1>10, <2>1 DEF CountInv
<1> QED BY <1>3, <1>9, <1>10, <1>11 DEF TimersInv

-----------------------------------------------------------------------------
(* Time and the interrupt.                                                   *)

\* While the handler runs no call is between its checks and its effect.
LEMMA HandlerAlone ==
    ASSUME CallsInv, CountInv, isr.pc # "off"
    PROVE  /\ \A v \in Users : pc[v] = "idle"
           /\ RunSet \subseteq Used /\ Used \subseteq Timers
           /\ runCount = Cardinality(RunSet) /\ usedCount = Cardinality(Used)
<1>1. \A v \in Users : pc[v] = "idle"
    BY Zenon DEF CallsInv
<1>2. \A v \in Users : pc[v] # "free"
    BY <1>1
<1> QED BY <1>1, <1>2, CountIdle

\* With every task between calls, the parts about calls ask nothing.
LEMMA CallsKept ==
    ASSUME CallsOK, \A v \in Users : pc[v] = "idle", UNCHANGED <<pc, arg>>,
           NEW where \in {"off", "ack", "loop", "callback"}, NEW at \in Handles,
           isr' = [pc |-> where, at |-> at]
    PROVE  CallsOK' /\ CallsInv' /\ \A v \in Users : pc'[v] = "idle"
<1>1. isr' \in [pc : {"off", "ack", "loop", "callback"}, at : Handles]
    BY Zenon
<1>2. CallsOK'
    BY <1>1, Zenon DEF CallsOK
<1>3. CallsInv'
    BY DEF CallsInv
<1> QED BY <1>2, <1>3

LEMMA SameIsr ==
    ASSUME CallsOK, \A v \in Users : pc[v] = "idle", UNCHANGED <<pc, arg, isr>>
    PROVE  CallsOK' /\ CallsInv' /\ \A v \in Users : pc'[v] = "idle"
<1>1. CallsOK'
    BY Zenon DEF CallsOK
<1>2. CallsInv'
    BY DEF CallsInv
<1> QED BY <1>1, <1>2

\* The counters, when neither what is marked nor what is counted has changed.
LEMMA SameCount ==
    ASSUME CountInv, \A v \in Users : pc[v] = "idle" /\ pc'[v] = "idle",
           Used' = Used, RunSet' = RunSet, usedCount' = usedCount, runCount' = runCount
    PROVE  CountInv'
<1>1. \A v \in Users : pc[v] # "free"
    OBVIOUS
<1>2. /\ RunSet \subseteq Used /\ Used \subseteq Timers
      /\ runCount = Cardinality(RunSet) /\ usedCount = Cardinality(Used)
    BY <1>1, CountIdle
<1> QED BY <1>2 DEF CountInv

\* The deadlines, when neither they nor the clock have changed.
LEMMA SameDeadlines ==
    ASSUME DeadlinesInv, RunSet' \subseteq RunSet,
           timeout' = timeout, absTime' = absTime, lastTime' = lastTime
    PROVE  DeadlinesInv' /\ \A t : Rest(t)' = Rest(t)
<1>1. Elapsed' = Elapsed /\ \A t : Rest(t)' = Rest(t)
    BY Zenon DEF Elapsed, Rest
<1> QED BY <1>1 DEF DeadlinesInv

LEMMA TickStep ==
    ASSUME ~Split, TimersInv, Tick
    PROVE  TimersInv'
<1>1. /\ isr.pc # "ack" /\ \A v \in Users : pc[v] = "idle"
      /\ port' = IF ~port.on THEN port
                 ELSE [port EXCEPT !.count = @ + 1, !.on = port.count + 1 < port.compare,
                                   !.irq = port.count + 1 = port.compare]
      /\ due' = [t \in Handles |-> IF run[t] /\ due[t] > -MaxLate THEN due[t] - 1 ELSE due[t]]
      /\ used' = used /\ run' = run /\ timeout' = timeout /\ usedCount' = usedCount
      /\ runCount' = runCount /\ absTime' = absTime /\ lastTime' = lastTime /\ isr' = isr
      /\ pc' = pc /\ arg' = arg /\ handle' = handle
    BY Zenon DEF Tick
<1>2. /\ TableOK /\ TimingOK /\ CallsOK
      /\ CallsInv /\ CountInv /\ HandlesInv /\ DeadlinesInv /\ PortInv
    BY Zenon DEF TimersInv
<1>3. TableOK' /\ HandlesInv' /\ Used' = Used
    BY <1>1, <1>2, SameTable, Zenon DEF table
<1>4. CallsOK' /\ CallsInv' /\ \A v \in Users : pc'[v] = "idle"
    BY <1>1, <1>2, SameIsr
<1>5. RunSet' = RunSet
    BY <1>1, Zenon DEF RunSet, Marked
<1>6. CountInv'
    BY <1>1, <1>2, <1>3, <1>4, <1>5, SameCount
<1>7. DeadlinesInv' /\ \A t : Rest(t)' = Rest(t)
    BY <1>1, <1>2, <1>5, SameDeadlines
<1>8. port \in PortType /\ due \in [Handles -> -MaxLate .. MaxMs * Sub]
    BY <1>2, Zenon DEF TimingOK
<1>9. due' \in [Handles -> -MaxLate .. MaxMs * Sub]
    BY <1>1, <1>8, Sizes
<1>10. ASSUME port.on
       PROVE  /\ port'.count = port.count + 1 /\ port'.compare = port.compare
              /\ port'.on = (port.count + 1 < port.compare)
              /\ port'.irq = (port.count + 1 = port.compare)
              /\ port' = [on |-> port.count + 1 < port.compare, compare |-> port.compare,
                          count |-> port.count + 1, irq |-> port.count + 1 = port.compare]
              /\ port.count < port.compare
  <2>1. port.count < port.compare
      BY <1>2, <1>10 DEF PortInv
  <2> QED BY <1>1, <1>8, <1>10, <2>1 DEF PortType
<1>11. port' \in PortType
  <2>1. CASE port.on
    <3>1. port.count + 1 \in 0 .. MaxMs * Sub /\ port.compare \in 0 .. MaxMs * Sub
      <4>1. port.count \in 0 .. MaxMs * Sub /\ port.compare \in 0 .. MaxMs * Sub
          BY <1>8 DEF PortType
      <4>2. MaxMs * Sub \in Nat
          BY Sizes
      <4> QED BY <1>10, <2>1, <4>1, <4>2
    <3> DEFINE on == port.count + 1 < port.compare
               at == port.count + 1 = port.compare
    <3>2. on \in BOOLEAN /\ at \in BOOLEAN
        OBVIOUS
    <3>3. port' = [on |-> on, compare |-> port.compare, count |-> port.count + 1, irq |-> at]
        BY <1>10, <2>1
    <3> HIDE DEF on, at
    <3> QED BY <3>1, <3>2, <3>3, Zenon DEF PortType
  <2>2. CASE ~port.on
      BY <1>1, <1>8, <2>2
  <2> QED BY <2>1, <2>2
<1>12. TimingOK'
    BY <1>1, <1>2, <1>9, <1>11, Zenon DEF TimingOK
<1>13. PortInv'
  <2>1. CASE port.on
    <3>1. isr.pc \notin {"loop", "callback"} /\ RunSet # {}
        BY <1>2, <2>1 DEF PortInv
    <3>2. absTime = lastTime
        BY <1>2, <3>1 DEF PortInv
    <3>3. PICK k \in 0 .. MaxMs : PortFor(k)
        BY <1>2, <3>1 DEF PortInv
    <3>4. port.count \in Nat /\ port.compare \in Nat
        BY <1>8, Sizes DEF PortType
    <3>5. PortFor(k)'
        BY <1>5, <1>7, <1>10, <2>1, <3>3, <3>4 DEF PortFor
    <3>6. port'.on \/ port'.irq
      <4>1. port.count + 1 < port.compare \/ port.count + 1 = port.compare
          BY <1>10, <2>1, <3>4
      <4>2. CASE port.count + 1 < port.compare
          BY <1>10, <2>1, <4>2, Zenon
      <4>3. CASE port.count + 1 = port.compare
          BY <1>10, <2>1, <4>3, Zenon
      <4> QED BY <4>1, <4>2, <4>3
    <3>7. port'.on => port'.count < port'.compare
        BY <1>10, <2>1
    <3> QED BY <1>1, <1>5, <3>1, <3>2, <3>5, <3>6, <3>7 DEF PortInv
  <2>2. CASE ~port.on
    <3>1. port' = port
        BY <1>1, <2>2
    <3>2. \A k : PortFor(k)' <=> PortFor(k)
        BY <1>5, <1>7, <3>1 DEF PortFor
    <3> QED BY <1>1, <1>2, <1>5, <3>1, <3>2, Zenon DEF PortInv
  <2> QED BY <2>1, <2>2
<1> QED BY <1>3, <1>4, <1>6, <1>7, <1>12, <1>13 DEF TimersInv

\* The interrupt is only raised for a timer that runs, so the handler reads the
\* time whenever it is entered.
LEMMA IsrEnterStep ==
    ASSUME ~Split, TimersInv, IsrEnter
    PROVE  TimersInv' /\ absTime' = Now /\ lastTime' = lastTime /\ timeout' = timeout
           /\ RunSet' = RunSet /\ port' = PortOff /\ isr'.pc = "loop" /\ RunSet # {}
<1>1. /\ isr.pc = "off" /\ \A v \in Users : pc[v] = "idle"
      /\ port.irq
      /\ usedCount # 0 => /\ absTime' = Now /\ port' = PortOff
                          /\ isr' = [pc |-> "loop", at |-> 0]
      /\ UNCHANGED table /\ run' = run /\ timeout' = timeout /\ runCount' = runCount
      /\ lastTime' = lastTime /\ due' = due /\ pc' = pc /\ arg' = arg
    BY DEF IsrEnter, IsrMayRun
<1>2. /\ TableOK /\ TimingOK /\ CallsOK
      /\ CallsInv /\ CountInv /\ HandlesInv /\ DeadlinesInv /\ PortInv
    BY Zenon DEF TimersInv
<1>3. RunSet # {}
    BY <1>1, <1>2, Zenon DEF PortInv
<1>4. /\ RunSet \subseteq Used /\ usedCount = Cardinality(Used) /\ Used \subseteq Timers
  <2>1. \A v \in Users : pc[v] # "free"
      BY <1>1
  <2> QED BY <1>2, <2>1, CountIdle
<1>5. usedCount # 0
  <2>1. used \in [Handles -> BOOLEAN]
      BY <1>2, Zenon DEF TableOK
  <2>2. Used # {}
      BY <1>3, <1>4
  <2> QED BY <1>4, <2>1, <2>2, MarkedBound DEF Used
<1>6. TableOK' /\ HandlesInv' /\ Used' = Used
    BY <1>1, <1>2, SameTable, Zenon
<1>7. RunSet' = RunSet
    BY <1>1, Zenon DEF RunSet, Marked
<1>8. CallsOK' /\ CallsInv' /\ \A v \in Users : pc'[v] = "idle"
  <2>1. 0 \in Handles
      BY Sizes DEF Handles
  <2> QED BY <1>1, <1>2, <1>5, <2>1, CallsKept
<1>9. CountInv'
  <2>1. usedCount' = usedCount
      BY <1>1 DEF table
  <2> QED BY <1>1, <1>2, <1>6, <1>7, <1>8, <2>1, SameCount
<1>10. Read(Now)
    BY <1>2, Reading
<1>11. isr'.pc = "loop"
    BY <1>1, <1>5
<1>12. DeadlinesInv' /\ PortInv'
  <2>1. \A t \in RunSet' : /\ Gap(lastTime, Now) <= Gap(lastTime, timeout'[t])
                           /\ Gap(lastTime, timeout'[t]) <= Gap(lastTime, Now) + MaxMs
      BY <1>1, <1>7, <1>10 DEF Read
  <2> QED BY <1>1, <1>2, <1>5, <1>10, <1>11, <2>1, Disarmed
<1>13. TimingOK'
    BY <1>1, <1>2, <1>5, <1>10, OffMade DEF TimingOK, Read
<1> QED BY <1>1, <1>3, <1>5, <1>6, <1>7, <1>8, <1>9, <1>11, <1>12, <1>13 DEF TimersInv

LEMMA IsrOtherStep ==
    ASSUME ~Split, TimersInv, IsrOther
    PROVE  TimersInv'
<1>1. /\ isr.pc = "off" /\ ~port.irq /\ \A v \in Users : pc[v] = "idle"
      /\ isr' = [isr EXCEPT !.pc = "ack"] /\ UNCHANGED table /\ UNCHANGED timing
      /\ pc' = pc /\ arg' = arg
    BY DEF IsrOther, IsrMayRun
<1>2. /\ TableOK /\ TimingOK /\ CallsOK
      /\ CallsInv /\ CountInv /\ HandlesInv /\ DeadlinesInv /\ PortInv
    BY Zenon DEF TimersInv
<1>3. TableOK' /\ HandlesInv' /\ Used' = Used
    BY <1>1, <1>2, SameTable, Zenon
<1>4. isr.at \in Handles /\ isr' = [pc |-> "ack", at |-> isr.at]
    BY <1>1, <1>2 DEF CallsOK
<1>5. CallsOK' /\ CallsInv' /\ \A v \in Users : pc'[v] = "idle"
    BY <1>1, <1>2, <1>4, CallsKept
<1>6. /\ RunSet' = RunSet /\ usedCount' = usedCount /\ runCount' = runCount /\ port' = port
      /\ timeout' = timeout /\ absTime' = absTime /\ lastTime' = lastTime
    BY <1>1, Zenon DEF timing, table, RunSet, Marked
<1>7. CountInv'
    BY <1>1, <1>2, <1>3, <1>5, <1>6, SameCount
<1>8. DeadlinesInv' /\ \A t : Rest(t)' = Rest(t)
    BY <1>2, <1>6, SameDeadlines
<1>9. TimingOK'
    BY <1>1, <1>2, Zenon DEF TimingOK, timing
<1>10. PortInv'
  <2>1. \A k : PortFor(k)' <=> PortFor(k)
      BY <1>6, <1>8 DEF PortFor
  <2>2. isr'.pc = "ack"
      BY <1>4
  <2> QED BY <1>1, <1>2, <1>6, <2>1, <2>2 DEF PortInv
<1> QED BY <1>3, <1>5, <1>7, <1>8, <1>9, <1>10 DEF TimersInv

LEMMA IsrAckStep ==
    ASSUME ~Split, TimersInv, IsrAck
    PROVE  TimersInv'
<1>1. /\ isr.pc = "ack" /\ isr' = [isr EXCEPT !.pc = "off"]
      /\ port' = [port EXCEPT !.irq = FALSE]
      /\ UNCHANGED table /\ run' = run /\ timeout' = timeout /\ runCount' = runCount
      /\ absTime' = absTime /\ lastTime' = lastTime /\ due' = due /\ pc' = pc /\ arg' = arg
    BY DEF IsrAck
<1>2. /\ TableOK /\ TimingOK /\ CallsOK
      /\ CallsInv /\ CountInv /\ HandlesInv /\ DeadlinesInv /\ PortInv
    BY Zenon DEF TimersInv
<1>3. TableOK' /\ HandlesInv' /\ Used' = Used
    BY <1>1, <1>2, SameTable, Zenon
<1>4. isr.at \in Handles /\ isr' = [pc |-> "off", at |-> isr.at]
    BY <1>1, <1>2 DEF CallsOK
<1>5. \A v \in Users : pc[v] = "idle"
    BY <1>1, <1>2, HandlerAlone
<1>6. CallsOK' /\ CallsInv' /\ \A v \in Users : pc'[v] = "idle"
    BY <1>1, <1>2, <1>4, <1>5, CallsKept
<1>7. RunSet' = RunSet /\ usedCount' = usedCount
    BY <1>1, Zenon DEF table, RunSet, Marked
<1>8. CountInv'
    BY <1>1, <1>2, <1>3, <1>5, <1>6, <1>7, SameCount
<1>9. DeadlinesInv' /\ \A t : Rest(t)' = Rest(t)
    BY <1>1, <1>2, <1>7, SameDeadlines
<1>10. port \in PortType
    BY <1>2, Zenon DEF TimingOK
<1>11. port' \in PortType
    BY <1>1, <1>10 DEF PortType
<1>12. TimingOK'
    BY <1>1, <1>2, <1>11, Zenon DEF TimingOK
<1>13. /\ port'.on = port.on /\ port'.count = port.count /\ port'.compare = port.compare
       /\ ~port'.irq /\ ~port.irq
  <2>1. ~port.irq
      BY <1>1, <1>2, Zenon DEF PortInv
  <2> QED BY <1>1, <1>10, <2>1 DEF PortType
<1>14. PortInv'
  <2>1. \A k : PortFor(k)' <=> PortFor(k)
      BY <1>7, <1>9, <1>13 DEF PortFor
  <2>2. isr'.pc = "off"
      BY <1>4
  <2> QED BY <1>1, <1>2, <1>7, <1>13, <2>1, <2>2 DEF PortInv
<1> QED BY <1>3, <1>6, <1>8, <1>9, <1>12, <1>14 DEF TimersInv

\* The parts of the state while the handler runs.
LEMMA HandlerFacts ==
    ASSUME TimersInv, isr.pc \in {"loop", "callback"}
    PROVE  /\ TableOK /\ TimingOK /\ CallsOK
           /\ CallsInv /\ CountInv /\ HandlesInv /\ DeadlinesInv /\ PortInv
           /\ \A v \in Users : pc[v] = "idle"
           /\ RunSet \subseteq Used /\ Used \subseteq Timers /\ RunSet \subseteq Timers
           /\ runCount = Cardinality(RunSet) /\ usedCount = Cardinality(Used)
           /\ ~port.on /\ ~port.irq /\ port.count = 0
           /\ isr.at \in Handles
<1>1. /\ TableOK /\ TimingOK /\ CallsOK
      /\ CallsInv /\ CountInv /\ HandlesInv /\ DeadlinesInv /\ PortInv
    BY Zenon DEF TimersInv
<1>2. /\ \A v \in Users : pc[v] = "idle"
      /\ RunSet \subseteq Used /\ Used \subseteq Timers
      /\ runCount = Cardinality(RunSet) /\ usedCount = Cardinality(Used)
    BY <1>1, HandlerAlone
<1>3. ~port.on /\ ~port.irq /\ port.count = 0
    BY <1>1, Zenon DEF PortInv
<1>4. isr.at \in Handles
    BY <1>1 DEF CallsOK
<1> QED BY <1>1, <1>2, <1>3, <1>4

\* Inside the handler the port is off, whatever else changes.
LEMMA PortStaysOff ==
    ASSUME ~port.on, ~port.irq, port.count = 0, port' = port,
           isr'.pc \in {"loop", "callback"}, isr'.pc = "callback" => isr'.at \in Timers
    PROVE  PortInv'
BY DEF PortInv

LEMMA IsrSkipStep ==
    ASSUME ~Split, TimersInv, IsrSkip
    PROVE  TimersInv'
<1>1. /\ isr.pc = "loop" /\ isr.at \in Timers /\ isr' = [isr EXCEPT !.at = @ + 1]
      /\ UNCHANGED table /\ UNCHANGED timing /\ pc' = pc /\ arg' = arg
    BY DEF IsrSkip
<1>2. /\ TableOK /\ TimingOK /\ CallsOK
      /\ CallsInv /\ CountInv /\ HandlesInv /\ DeadlinesInv /\ PortInv
      /\ \A v \in Users : pc[v] = "idle"
      /\ ~port.on /\ ~port.irq /\ port.count = 0
    BY <1>1, HandlerFacts
<1>3. TableOK' /\ HandlesInv' /\ Used' = Used
    BY <1>1, <1>2, SameTable, Zenon
<1>4. isr.at + 1 \in Handles /\ isr' = [pc |-> "loop", at |-> isr.at + 1]
  <2>1. isr.at + 1 \in Handles
      BY <1>1, Sizes DEF Timers, Handles
  <2>2. isr' = [pc |-> "loop", at |-> isr.at + 1]
      BY <1>1, <1>2 DEF CallsOK
  <2> QED BY <2>1, <2>2
<1>5. CallsOK' /\ CallsInv' /\ \A v \in Users : pc'[v] = "idle"
    BY <1>1, <1>2, <1>4, CallsKept
<1>6. /\ RunSet' = RunSet /\ usedCount' = usedCount /\ runCount' = runCount /\ port' = port
      /\ timeout' = timeout /\ absTime' = absTime /\ lastTime' = lastTime
    BY <1>1, Zenon DEF timing, table, RunSet, Marked
<1>7. CountInv'
    BY <1>1, <1>2, <1>3, <1>5, <1>6, SameCount
<1>8. DeadlinesInv'
    BY <1>2, <1>6, SameDeadlines
<1>9. TimingOK'
    BY <1>1, <1>2, Zenon DEF TimingOK, timing
<1>10. isr'.pc = "loop"
    BY <1>4
<1>11. PortInv'
    BY <1>2, <1>6, <1>10, PortStaysOff
<1> QED BY <1>3, <1>5, <1>7, <1>8, <1>9, <1>11 DEF TimersInv

LEMMA IsrExpireStep ==
    ASSUME ~Split, TimersInv, IsrExpire
    PROVE  TimersInv'
<1> DEFINE t == isr.at
<1>1. /\ isr.pc = "loop" /\ t \in Timers /\ run[t] /\ isr' = [isr EXCEPT !.pc = "callback"]
      /\ run' = [run EXCEPT ![t] = FALSE] /\ runCount' = (runCount - 1) % Modulus
      /\ UNCHANGED table /\ timeout' = timeout /\ absTime' = absTime /\ lastTime' = lastTime
      /\ port' = port /\ due' = due /\ pc' = pc /\ arg' = arg
    BY DEF IsrExpire, Expired
<1>2. /\ TableOK /\ TimingOK /\ CallsOK
      /\ CallsInv /\ CountInv /\ HandlesInv /\ DeadlinesInv /\ PortInv
      /\ \A v \in Users : pc[v] = "idle"
      /\ RunSet \subseteq Used /\ Used \subseteq Timers
      /\ runCount = Cardinality(RunSet) /\ usedCount = Cardinality(Used)
      /\ ~port.on /\ ~port.irq /\ port.count = 0 /\ t \in Handles
    BY <1>1, HandlerFacts
<1>3. TableOK' /\ HandlesInv' /\ Used' = Used
    BY <1>1, <1>2, SameTable, Zenon
<1>4. isr' = [pc |-> "callback", at |-> t]
    BY <1>1, <1>2 DEF CallsOK
<1>5. CallsOK' /\ CallsInv' /\ \A v \in Users : pc'[v] = "idle"
    BY <1>1, <1>2, <1>4, CallsKept
<1>6. isr'.pc = "callback" /\ isr'.at = t
    BY <1>4
<1> HIDE DEF t
<1>7. run \in [Handles -> BOOLEAN]
    BY <1>2, Zenon DEF TimingOK
<1>8. /\ run' \in [Handles -> BOOLEAN] /\ RunSet' = RunSet \ {t}
      /\ runCount' = Cardinality(RunSet') /\ runCount' \in 0 .. Modulus - 1
  <2>1. /\ run' \in [Handles -> BOOLEAN] /\ Marked(run') = Marked(run) \ {t}
        /\ Cardinality(Marked(run')) = Cardinality(Marked(run)) - 1
      BY <1>1, <1>2, <1>7, MarkedRemoved
  <2>2. RunSet' = Marked(run')
      BY DEF RunSet, Marked
  <2>3. RunSet' = RunSet \ {t} /\ RunSet' \subseteq Timers
      BY <1>2, <2>1, <2>2 DEF RunSet
  <2>4. Cardinality(Marked(run')) \in 0 .. TimerCount
      BY <2>1, <2>2, <2>3, MarkedBound
  <2>5. runCount' = Cardinality(Marked(run')) % Modulus
      BY <1>1, <1>2, <2>1 DEF RunSet
  <2> QED BY <2>1, <2>2, <2>3, <2>4, <2>5, CountWraps, Sizes
<1>9. CountInv'
  <2>1. usedCount' = usedCount
      BY <1>1 DEF table
  <2> QED BY <1>2, <1>3, <1>5, <1>8, <2>1 DEF CountInv
<1>10. DeadlinesInv'
    BY <1>1, <1>2, <1>8, SameDeadlines
<1>11. TimingOK'
    BY <1>1, <1>2, <1>8, Zenon DEF TimingOK
<1>12. PortInv'
    BY <1>1, <1>2, <1>6, PortStaysOff
<1> QED BY <1>3, <1>5, <1>9, <1>10, <1>11, <1>12 DEF TimersInv

\* When a callback returns the handler goes on to the next timer.
LEMMA CallbackFacts ==
    ASSUME TimersInv, InCallback, CallbackEnds
    PROVE  /\ TableOK /\ TimingOK /\ CallsOK
           /\ CallsInv /\ CountInv /\ HandlesInv /\ DeadlinesInv /\ PortInv
           /\ \A v \in Users : pc[v] = "idle"
           /\ RunSet \subseteq Used /\ Used \subseteq Timers /\ RunSet \subseteq Timers
           /\ runCount = Cardinality(RunSet) /\ usedCount = Cardinality(Used)
           /\ ~port.on /\ ~port.irq /\ port.count = 0
           /\ isr.at \in Timers /\ isr.at \in Handles
           /\ isr'.pc = "loop" /\ CallsOK' /\ CallsInv' /\ \A v \in Users : pc'[v] = "idle"
<1>1. /\ isr.pc = "callback" /\ isr' = [pc |-> "loop", at |-> isr.at + 1]
      /\ pc' = pc /\ arg' = arg
    BY DEF InCallback, CallbackEnds
<1>2. /\ TableOK /\ TimingOK /\ CallsOK
      /\ CallsInv /\ CountInv /\ HandlesInv /\ DeadlinesInv /\ PortInv
      /\ \A v \in Users : pc[v] = "idle"
      /\ RunSet \subseteq Used /\ Used \subseteq Timers /\ RunSet \subseteq Timers
      /\ runCount = Cardinality(RunSet) /\ usedCount = Cardinality(Used)
      /\ ~port.on /\ ~port.irq /\ port.count = 0
      /\ isr.at \in Handles
    BY <1>1, HandlerFacts
<1>3. isr.at \in Timers
    BY <1>1, <1>2 DEF PortInv
<1>4. isr.at + 1 \in Handles
    BY <1>3, Sizes DEF Timers, Handles
<1>5. CallsOK' /\ CallsInv' /\ \A v \in Users : pc'[v] = "idle"
    BY <1>1, <1>2, <1>4, CallsKept
<1>6. isr'.pc = "loop"
    BY <1>1
<1> QED BY <1>2, <1>3, <1>5, <1>6

\* A callback that leaves the timing alone.
LEMMA CallbackTiming ==
    ASSUME TimersInv, InCallback, CallbackEnds, UNCHANGED timing
    PROVE  TimingOK' /\ DeadlinesInv' /\ PortInv' /\ RunSet' = RunSet
<1>1. /\ TimingOK /\ DeadlinesInv /\ isr'.pc = "loop"
      /\ ~port.on /\ ~port.irq /\ port.count = 0
    BY CallbackFacts
<1>2. /\ RunSet' = RunSet /\ port' = port
      /\ timeout' = timeout /\ absTime' = absTime /\ lastTime' = lastTime
    BY Zenon DEF timing, RunSet, Marked
<1>3. DeadlinesInv'
    BY <1>1, <1>2, SameDeadlines
<1>4. TimingOK'
    BY <1>1, Zenon DEF TimingOK, timing
<1>5. PortInv'
    BY <1>1, <1>2, PortStaysOff
<1> QED BY <1>2, <1>3, <1>4, <1>5

LEMMA CallbackReturnsStep ==
    ASSUME ~Split, TimersInv, CallbackReturns
    PROVE  TimersInv'
<1>1. InCallback /\ CallbackEnds /\ UNCHANGED table /\ UNCHANGED timing
    BY Zenon DEF CallbackReturns
<1>2. /\ TableOK /\ CountInv /\ HandlesInv
      /\ \A v \in Users : pc[v] = "idle" /\ pc'[v] = "idle"
      /\ CallsOK' /\ CallsInv'
    BY <1>1, CallbackFacts
<1>3. TableOK' /\ HandlesInv' /\ Used' = Used
    BY <1>1, <1>2, SameTable, Zenon
<1>4. TimingOK' /\ DeadlinesInv' /\ PortInv' /\ RunSet' = RunSet
    BY <1>1, CallbackTiming
<1>5. usedCount' = usedCount /\ runCount' = runCount
    BY <1>1 DEF table, timing
<1>6. CountInv'
    BY <1>2, <1>3, <1>4, <1>5, SameCount
<1> QED BY <1>2, <1>3, <1>4, <1>6 DEF TimersInv

LEMMA CallbackStartsStep ==
    ASSUME ~Split, TimersInv, NEW ms \in Durations, CallbackStarts(ms)
    PROVE  TimersInv'
<1> DEFINE t == isr.at
<1>1. /\ InCallback /\ CallbackEnds /\ ~run[t] /\ used[t] /\ StartMasked(t, ms)
      /\ UNCHANGED table
    BY Zenon DEF CallbackStarts
<1>2. /\ TableOK /\ TimingOK /\ CountInv /\ HandlesInv /\ DeadlinesInv /\ PortInv
      /\ RunSet \subseteq Used /\ Used \subseteq Timers /\ RunSet \subseteq Timers
      /\ runCount = Cardinality(RunSet) /\ usedCount = Cardinality(Used)
      /\ t \in Timers /\ t \in Handles
      /\ isr'.pc = "loop" /\ CallsOK' /\ CallsInv' /\ \A v \in Users : pc'[v] = "idle"
    BY <1>1, CallbackFacts
<1> HIDE DEF t
<1>3. ms \in 0 .. MaxMs
    BY Sizes
<1>4. /\ TimingOK' /\ DeadlinesInv' /\ PortInv'
      /\ RunSet' = RunSet \cup {t} /\ runCount' = Cardinality(RunSet')
    BY <1>1, <1>2, <1>3, Started
<1>5. TableOK' /\ HandlesInv' /\ Used' = Used
    BY <1>1, <1>2, SameTable, Zenon
<1>6. CountInv'
  <2>1. usedCount' = usedCount
      BY <1>1 DEF table
  <2>2. t \in Used
      BY <1>1, <1>2 DEF Used, Marked
  <2> QED BY <1>2, <1>4, <1>5, <2>1, <2>2 DEF CountInv
<1> QED BY <1>2, <1>4, <1>5, <1>6 DEF TimersInv

LEMMA CallbackStopsStep ==
    ASSUME ~Split, TimersInv, NEW t \in Timers, CallbackStops(t)
    PROVE  TimersInv'
<1>1. /\ InCallback /\ CallbackEnds /\ run[t] /\ StopMasked(t) /\ UNCHANGED table
    BY Zenon DEF CallbackStops
<1>2. /\ TableOK /\ TimingOK /\ CountInv /\ HandlesInv /\ DeadlinesInv /\ PortInv
      /\ RunSet \subseteq Used /\ Used \subseteq Timers /\ RunSet \subseteq Timers
      /\ runCount = Cardinality(RunSet) /\ usedCount = Cardinality(Used)
      /\ isr'.pc = "loop" /\ CallsOK' /\ CallsInv' /\ \A v \in Users : pc'[v] = "idle"
    BY <1>1, CallbackFacts
<1>3. /\ TimingOK' /\ DeadlinesInv' /\ PortInv'
      /\ RunSet' = RunSet \ {t} /\ runCount' = Cardinality(RunSet')
    BY <1>1, <1>2, Stopped
<1>4. TableOK' /\ HandlesInv' /\ Used' = Used
    BY <1>1, <1>2, SameTable, Zenon
<1>5. CountInv'
  <2>1. usedCount' = usedCount
      BY <1>1 DEF table
  <2> QED BY <1>2, <1>3, <1>4, <2>1 DEF CountInv
<1> QED BY <1>2, <1>3, <1>4, <1>5 DEF TimersInv

LEMMA CallbackFreesStep ==
    ASSUME ~Split, TimersInv, CallbackFrees
    PROVE  TimersInv'
<1> DEFINE t == isr.at
<1>1. /\ InCallback /\ CallbackEnds /\ usedCount # 0 /\ ~run[t] /\ used[t]
      /\ used' = [used EXCEPT ![t] = FALSE] /\ usedCount' = usedCount - 1
      /\ handle' = [u \in Users |-> handle[u] \ {t}] /\ UNCHANGED timing
    BY Zenon DEF CallbackFrees, CanFree
<1>2. /\ TableOK /\ CountInv /\ HandlesInv /\ t \in Handles
      /\ runCount = Cardinality(RunSet) /\ usedCount = Cardinality(Used)
      /\ CallsOK' /\ CallsInv' /\ \A v \in Users : pc'[v] = "idle"
    BY <1>1, CallbackFacts
<1>3. TimingOK' /\ DeadlinesInv' /\ PortInv' /\ RunSet' = RunSet
    BY <1>1, CallbackTiming
<1> HIDE DEF t
<1>4. handle \in [Users -> SUBSET Handles] /\ usedCount \in 0 .. UsedMax
    BY <1>2, Zenon DEF TableOK
<1>5. /\ handle' \in [Users -> SUBSET Handles]
      /\ \A v \in Users : handle'[v] \subseteq handle[v] /\ t \notin handle'[v]
    BY <1>1, <1>4
<1>6. run' = run /\ runCount' = runCount
    BY <1>1 DEF timing
<1>7. /\ used' \in [Handles -> BOOLEAN] /\ HandlesInv'
      /\ RunSet' = RunSet /\ RunSet' \subseteq Used' /\ Used' \subseteq Timers
      /\ Cardinality(Used) = Cardinality(Used') + 1 /\ Cardinality(Used') \in Nat
    BY <1>1, <1>2, <1>5, <1>6, GivenBack
<1>8. usedCount' = Cardinality(Used') /\ usedCount' \in 0 .. UsedMax
    BY <1>1, <1>2, <1>4, <1>7, UsersCount
<1>9. TableOK'
    BY <1>5, <1>7, <1>8 DEF TableOK
<1>10. CountInv'
    BY <1>2, <1>6, <1>7, <1>8 DEF CountInv
<1> QED BY <1>2, <1>3, <1>7, <1>9, <1>10 DEF TimersInv

LEMMA IsrExitStep ==
    ASSUME ~Split, TimersInv, IsrExit
    PROVE  TimersInv'
<1>1. /\ isr.pc = "loop" /\ isr' = [pc |-> "off", at |-> 0]
      /\ runCount # 0 => Arm(run, timeout, absTime)
      /\ runCount = 0 => port' = port /\ lastTime' = lastTime
      /\ UNCHANGED table /\ run' = run /\ timeout' = timeout /\ runCount' = runCount
      /\ absTime' = absTime /\ due' = due /\ pc' = pc /\ arg' = arg
    BY DEF IsrExit
<1>2. /\ TableOK /\ TimingOK /\ CallsOK
      /\ CallsInv /\ CountInv /\ HandlesInv /\ DeadlinesInv /\ PortInv
      /\ \A v \in Users : pc[v] = "idle"
      /\ RunSet \subseteq Timers /\ runCount = Cardinality(RunSet)
      /\ ~port.on /\ ~port.irq /\ port.count = 0
    BY <1>1, HandlerFacts
<1>3. TableOK' /\ HandlesInv' /\ Used' = Used
    BY <1>1, <1>2, SameTable, Zenon
<1>4. 0 \in Handles
    BY Sizes DEF Handles
<1>5. CallsOK' /\ CallsInv' /\ \A v \in Users : pc'[v] = "idle"
    BY <1>1, <1>2, <1>4, CallsKept
<1>6. RunSet' = RunSet /\ usedCount' = usedCount
    BY <1>1, Zenon DEF table, RunSet, Marked
<1>7. CountInv'
    BY <1>1, <1>2, <1>3, <1>5, <1>6, SameCount
<1>8. /\ run \in [Handles -> BOOLEAN] /\ timeout \in [Handles -> 0 .. Modulus - 1]
      /\ absTime \in 0 .. Modulus - 1
    BY <1>2, Zenon DEF TimingOK
<1>9. isr'.pc = "off"
    BY <1>1
<1>10. runCount = 0 <=> RunSet = {}
    BY <1>2, <1>8, MarkedBound DEF RunSet
<1>11. CASE runCount # 0
  <2>1. Read(absTime)
      BY <1>2, ReadAgain
  <2>2. /\ Marked(run) \subseteq Timers /\ Marked(run) # {}
        /\ \A t \in Marked(run) :
              /\ Gap(lastTime, absTime) <= Gap(lastTime, timeout[t])
              /\ Gap(lastTime, timeout[t]) <= Gap(lastTime, absTime) + MaxMs
      BY <1>2, <1>10, <1>11, <2>1 DEF Read, RunSet
  <2>3. DeadlinesInv' /\ PortInv' /\ port' \in PortType /\ lastTime' = absTime
      BY <1>1, <1>2, <1>8, <1>9, <1>11, <2>2, Armed
  <2>4. TimingOK'
      BY <1>1, <1>2, <2>3 DEF TimingOK
  <2> QED BY <1>3, <1>5, <1>7, <2>3, <2>4 DEF TimersInv
<1>12. CASE runCount = 0
  <2>1. DeadlinesInv'
      BY <1>1, <1>2, <1>6, <1>12, SameDeadlines
  <2>2. PortInv'
      BY <1>1, <1>2, <1>6, <1>9, <1>10, <1>12 DEF PortInv
  <2>3. TimingOK'
      BY <1>1, <1>2, <1>12, Zenon DEF TimingOK
  <2> QED BY <1>3, <1>5, <1>7, <2>1, <2>2, <2>3 DEF TimersInv
<1> QED BY <1>11, <1>12

-----------------------------------------------------------------------------
(* The invariant holds.                                                      *)

LEMMA InitInv == ASSUME Init PROVE TimersInv
<1>1. /\ used = [t \in Handles |-> FALSE] /\ run = [t \in Handles |-> FALSE]
      /\ timeout = [t \in Handles |-> 0] /\ due = [t \in Handles |-> 0]
      /\ usedCount = 0 /\ runCount = 0 /\ absTime = 0 /\ lastTime = 0 /\ port = PortOff
      /\ isr = [pc |-> "off", at |-> 0]
      /\ pc = [u \in Users |-> "idle"] /\ arg = [u \in Users |-> NoArg]
      /\ handle = [u \in Users |-> {}]
    BY Zenon DEF Init
<1>2. 0 \in 0 .. Modulus - 1 /\ 0 \in -MaxLate .. MaxMs * Sub /\ 0 \in Handles /\ 0 \in 0 .. UsedMax
    BY Sizes, UsersCount DEF Handles
<1>3. TableOK
    BY <1>1, <1>2 DEF TableOK
<1>4. TimingOK
    BY <1>1, <1>2, OffMade DEF TimingOK
<1>5. CallsOK
  <2>1. isr \in [pc : {"off", "ack", "loop", "callback"}, at : Handles]
      BY <1>1, <1>2
  <2>2. /\ pc \in [Users -> {"idle", "get", "free", "start", "stop"}]
        /\ arg \in [Users -> ArgType]
      BY <1>1, NoArgMade
  <2> QED BY <2>1, <2>2 DEF CallsOK
<1>6. CallsInv
    BY <1>1 DEF CallsInv
<1>7. Used = {} /\ RunSet = {}
    BY <1>1 DEF Used, RunSet, Marked
<1>8. CountInv
  <2>1. \A u \in Users : pc[u] # "free"
      BY <1>1
  <2> QED BY <1>1, <1>7, <2>1, FS_EmptySet DEF CountInv
<1>9. HandlesInv
    BY <1>1 DEF HandlesInv, HandlesValid
<1>10. DeadlinesInv
  <2>1. Elapsed = 0
      BY <1>1, <1>2, NoGap DEF Elapsed
  <2> QED BY <1>7, <2>1, Sizes DEF DeadlinesInv
<1>11. PortInv
  <2>1. ~port.on /\ ~port.irq /\ port.count = 0
      BY <1>1 DEF PortOff
  <2> QED BY <1>1, <1>7, <2>1 DEF PortInv
<1> QED BY <1>3, <1>4, <1>5, <1>6, <1>8, <1>9, <1>10, <1>11 DEF TimersInv

LEMMA SameInv == ASSUME TimersInv, UNCHANGED vars PROVE TimersInv'
<1>1. /\ TableOK /\ TimingOK /\ CallsOK
      /\ CallsInv /\ CountInv /\ HandlesInv /\ DeadlinesInv /\ PortInv
    BY Zenon DEF TimersInv
<1>2. UNCHANGED table /\ UNCHANGED timing /\ isr' = isr /\ pc' = pc /\ arg' = arg
    BY DEF vars, table, timing
<1>3. TableOK' /\ HandlesInv' /\ Used' = Used
    BY <1>1, <1>2, SameTable, Zenon
<1>4. TimingOK' /\ DeadlinesInv' /\ PortInv'
    BY <1>1, <1>2, SameClock, Zenon
<1>5. CallsOK'
    BY <1>1, <1>2, Zenon DEF CallsOK
<1>6. /\ used' = used /\ run' = run /\ usedCount' = usedCount /\ runCount' = runCount
      /\ RunSet' = RunSet
    BY <1>2, Zenon DEF table, timing, RunSet, Marked
<1>7. CallsInv'
    BY <1>1, <1>2, <1>6, Zenon DEF CallsInv
<1>8. CountInv'
    BY <1>1, <1>2, <1>3, <1>6, Zenon DEF CountInv
<1> QED BY <1>3, <1>4, <1>5, <1>7, <1>8 DEF TimersInv

LEMMA NextInv == ASSUME ~Split, TimersInv, Next PROVE TimersInv'
<1>1. CASE Tick
    BY <1>1, TickStep, Zenon
<1>2. CASE IsrEnter
    BY <1>2, IsrEnterStep, Zenon
<1>3. CASE IsrAck
    BY <1>3, IsrAckStep, Zenon
<1>4. CASE IsrSkip
    BY <1>4, IsrSkipStep, Zenon
<1>5. CASE IsrExpire
    BY <1>5, IsrExpireStep, Zenon
<1>6. CASE Callback
    BY <1>6, CallbackReturnsStep, CallbackFreesStep, CallbackStartsStep, CallbackStopsStep, Zenon
    DEF Callback
<1>7. CASE IsrExit
    BY <1>7, IsrExitStep, Zenon
<1>8. CASE IsrOther
    BY <1>8, IsrOtherStep, Zenon
<1>9. ASSUME NEW u \in Users, Call(u) PROVE TimersInv'
    BY <1>9, GetCheckStep, FreeLoadStep, StopCheckStep, StartCheckStep, Zenon DEF Call
<1>10. ASSUME NEW u \in Users, Resume(u) PROVE TimersInv'
    BY <1>10, GetStep, FreeStoreStep, StartStep, StopStep, Zenon DEF Resume
<1> QED BY <1>1, <1>2, <1>3, <1>4, <1>5, <1>6, <1>7, <1>8, <1>9, <1>10, Zenon DEF Next, Isr

\* The inductive invariant, when what the code leaves unmasked does not come apart.
THEOREM Invariance == ~Split /\ Spec => []TimersInv
<1> SUFFICES ASSUME ~Split PROVE Spec => []TimersInv
    OBVIOUS
<1>1. Init => TimersInv
    BY InitInv
<1>2. TimersInv /\ [Next]_vars => TimersInv'
    BY NextInv, SameInv, Zenon
<1> QED BY <1>1, <1>2, PTL DEF Spec

-----------------------------------------------------------------------------
(* What the runs check.                                                      *)

\* The types of the table, the counters, the clock and the port (hal_gpt_internal.h),
\* the counters within the table's size.
THEOREM TypeCorrect == ~Split /\ Spec => []TypeOK
<1>1. TimersInv => TypeOK
    BY TypeParts, Zenon DEF TimersInv
<1> QED BY <1>1, Invariance, PTL

\* A handle names a timer of the table and belongs to one task: what
\* gpt_sw_get_free_timer gives out is free, and free takes it back from its owner.
THEOREM Handed == ~Split /\ Spec => []HandlesValid
<1>1. TimersInv => HandlesValid
    BY Zenon DEF TimersInv, HandlesInv
<1> QED BY <1>1, Invariance, PTL

\* Between calls used_timer_count and running_timer_count say what the table says.
THEOREM Counted == ~Split /\ Spec => []CountsExact
<1>1. TimersInv => CountsExact
  <2> SUFFICES ASSUME TimersInv, Quiet
               PROVE  /\ usedCount = Cardinality({t \in Handles : used[t]})
                      /\ runCount = Cardinality({t \in Handles : run[t]})
      BY Zenon DEF CountsExact
  <2>1. CountInv /\ \A u \in Users : pc[u] # "free"
      BY DEF TimersInv, Quiet
  <2>2. runCount = Cardinality(RunSet) /\ usedCount = Cardinality(Used)
      BY <2>1, CountIdle
  <2> QED BY <2>2, Zenon DEF RunSet, Used, Marked
<1> QED BY <1>1, Invariance, PTL

\* Between calls, while a timer runs, the port waits for no later than the soonest
\* deadline, wherever the clock wraps (gpt_sw_start_timer, gpt_sw_absolute_value).
THEOREM ArmedForSoonest == ~Split /\ Spec => []SoonestArmed
<1>1. TimersInv => SoonestArmed
  <2> SUFFICES ASSUME TimersInv, Quiet, Running # {}
               PROVE  /\ port.on \/ port.irq
                      /\ \A t \in Running :
                            Left(timeout[t], absTime, lastTime) * Sub >= port.compare
      BY Zenon DEF SoonestArmed
  <2>1. TimingOK /\ PortInv /\ DeadlinesInv
      BY Zenon DEF TimersInv
  <2>2. isr.pc = "off"
      BY Zenon DEF Quiet
  <2>3. Running \subseteq RunSet /\ RunSet # {}
      BY Sizes DEF Running, RunSet, Marked
  <2>4. absTime = lastTime /\ (port.on \/ port.irq)
      BY <2>1, <2>2, <2>3 DEF PortInv
  <2>5. PICK k \in 0 .. MaxMs : PortFor(k)
      BY <2>1, <2>2, <2>3 DEF PortInv
  <2>6. ASSUME NEW t \in Running
        PROVE  Left(timeout[t], absTime, lastTime) * Sub >= port.compare
    <3> DEFINE r == Rest(t)
    <3>1. timeout[t] \in 0 .. Modulus - 1 /\ r \in 0 .. Modulus - 1
          /\ r = Gap(lastTime, timeout[t])
        BY <2>1, <2>3, Deadline
    <3>2. lastTime \in 0 .. Modulus - 1
        BY <2>1, Zenon DEF TimingOK
    <3>3. Gap(lastTime, absTime) = 0
        BY <2>4, <3>2, NoGap
    <3>4. Left(timeout[t], absTime, lastTime) = r
      <4>1. 0 <= r
          BY <3>1, Sizes
      <4>2. Left(timeout[t], absTime, lastTime) = Gap(absTime, timeout[t])
          BY <2>4, <3>1, <3>2, <3>3, <4>1, Between
      <4> QED BY <2>4, <3>1, <4>2
    <3>5. k <= r /\ port.compare = k * Sub
        BY <2>3, <2>5 DEF PortFor
    <3> HIDE DEF r
    <3>6. r \in Nat /\ k \in 0 .. r
        BY <3>1, <3>5, Sizes
    <3>7. k * Sub \in 0 .. r * Sub
        BY <3>6, Scaled
    <3> QED BY <3>4, <3>5, <3>7
  <2> QED BY <2>4, <2>6
<1> QED BY <1>1, Invariance, PTL

-----------------------------------------------------------------------------
(* No callback is early, when the counter counts milliseconds: without        *)
(* rounding real time is never behind the clock.                              *)

\* Nothing comes apart, and a counter unit is a millisecond.
Exact == ~Split /\ Sub = 1

\* What is left of a running timer in real time is within what is left of it at
\* the time that is read.
LEMMA DueRead ==
    ASSUME Exact, TimersInv, DueInv, NEW t \in RunSet, due[t] > 0
    PROVE  due[t] <= Gap(lastTime, timeout[t]) - Gap(lastTime, Now)
<1>1. TimingOK /\ DeadlinesInv /\ PortInv
    BY Zenon DEF TimersInv
<1>2. port.count \in Nat /\ due[t] \in Int
  <2>1. port \in PortType /\ due \in [Handles -> -MaxLate .. MaxMs * Sub] /\ t \in Handles
      BY <1>1, Zenon DEF TimingOK, RunSet, Marked
  <2>2. port.count \in 0 .. MaxMs * Sub
      BY <2>1 DEF PortType
  <2> QED BY <2>1, <2>2, Sizes
<1>3. due[t] + port.count <= Rest(t) - Elapsed /\ Rest(t) = Gap(lastTime, timeout[t])
    BY <1>1, Deadline DEF DueInv
<1>4. Rest(t) \in Int /\ Elapsed \in Int
  <2>1. absTime \in 0 .. Modulus - 1 /\ lastTime \in 0 .. Modulus - 1
      BY <1>1, Zenon DEF TimingOK
  <2> QED BY <1>1, <2>1, Deadline, GapType DEF Elapsed
<1>5. CASE isr.pc \notin {"loop", "callback"}
  <2>1. Gap(lastTime, Now) = Ms(port.count) /\ absTime = lastTime
      BY <1>1, <1>5, ReadCounter
  <2>2. Ms(port.count) = port.count
      BY <1>2, MsExact DEF Exact
  <2>3. Elapsed = 0
      BY <1>1, <2>1, NoGap DEF Elapsed, TimingOK
  <2> QED BY <1>2, <1>3, <1>4, <2>1, <2>2, <2>3
<1>6. CASE isr.pc \in {"loop", "callback"}
  <2>1. port.count = 0
      BY <1>1, <1>6 DEF PortInv
  <2>2. Gap(lastTime, Now) = Elapsed
      BY <1>1, <2>1, ReadIdle DEF Elapsed
  <2> QED BY <1>2, <1>3, <1>4, <2>1, <2>2
<1> QED BY <1>5, <1>6

\* Starting the counter anew at the time that is read keeps it so.
LEMMA DueKept ==
    ASSUME Exact, TimersInv, DueInv, Kept(Now), isr'.pc # "callback",
           NEW S \in SUBSET RunSet,
           \A s \in S : due'[s] = due[s] /\ timeout'[s] = timeout[s],
           \A s \in RunSet' \ S : due'[s] <= Gap(lastTime, timeout'[s]) - Gap(lastTime, Now),
           \A s \in RunSet' : due'[s] \in Int
    PROVE  DueInv'
<1>1. ~InCallback'
    BY DEF InCallback
<1>2. \A s \in RunSet' : due'[s] > 0 => due'[s] <= Gap(lastTime, timeout'[s]) - Gap(lastTime, Now)
    BY DueRead
<1>3. \A s \in RunSet' : due'[s] > 0 => due'[s] + port'.count <= Rest(s)' - Elapsed'
    BY <1>2 DEF Kept
<1> QED BY <1>1, <1>3 DEF DueInv

LEMMA DueTypes == ASSUME TimingOK PROVE \A s \in RunSet : s \in Handles /\ due[s] \in Int
BY Sizes DEF TimingOK, RunSet, Marked

LEMMA DueStarted ==
    ASSUME Exact, TimersInv, DueInv, NEW t \in Timers, NEW ms \in 0 .. MaxMs, ~run[t],
           StartMasked(t, ms), IF InCallback THEN isr'.pc = "loop" ELSE isr'.pc = "off",
           RunSet \subseteq Timers, runCount = Cardinality(RunSet)
    PROVE  DueInv'
<1>1. TimingOK /\ DeadlinesInv /\ PortInv
    BY Zenon DEF TimersInv
<1>2. /\ TimingOK' /\ RunSet' = RunSet \cup {t} /\ Kept(Now)
      /\ Gap(lastTime, timeout'[t]) = Gap(lastTime, Now) + ms
      /\ \A s \in RunSet : timeout'[s] = timeout[s] /\ due'[s] = due[s]
      /\ due'[t] = ms * Sub
    BY <1>1, Started
<1>3. \A s \in RunSet' : due'[s] \in Int
    BY <1>2, Sizes DEF TimingOK, RunSet, Marked
<1>4. due'[t] <= Gap(lastTime, timeout'[t]) - Gap(lastTime, Now)
  <2>1. Gap(lastTime, Now) \in Int
      BY <1>1, Reading DEF Read
  <2>2. due'[t] = ms
      BY <1>2 DEF Exact
  <2> QED BY <1>2, <2>1, <2>2
<1>5. isr'.pc # "callback"
    BY Zenon
<1> QED BY <1>2, <1>3, <1>4, <1>5, DueKept

LEMMA DueStopped ==
    ASSUME Exact, TimersInv, DueInv, NEW t \in Timers, run[t],
           StopMasked(t), IF InCallback THEN isr'.pc = "loop" ELSE isr'.pc = "off",
           RunSet \subseteq Timers, runCount = Cardinality(RunSet)
    PROVE  DueInv'
<1>1. TimingOK /\ DeadlinesInv /\ PortInv
    BY Zenon DEF TimersInv
<1>2. /\ TimingOK' /\ RunSet' = RunSet \ {t} /\ Kept(Now)
      /\ timeout' = timeout /\ due' = due
    BY <1>1, Stopped
<1>3. \A s \in RunSet' : due'[s] \in Int
    BY <1>1, <1>2, DueTypes
<1>4. isr'.pc # "callback"
    BY Zenon
<1>5. RunSet' \in SUBSET RunSet
    BY <1>2
<1> QED BY <1>2, <1>3, <1>4, <1>5, DueKept

LEMMA DueStart == ASSUME Exact, TimersInv, DueInv, NEW u \in Users, Start(u) PROVE DueInv'
<1> DEFINE t == arg[u].timer
           ms == arg[u].ms
<1>1. Resumes(u, "start") /\ StartMasked(t, ms)
    BY Zenon DEF Start
<1>2. CallsOK /\ CallsInv /\ CountInv
    BY Zenon DEF TimersInv
<1>3. /\ isr.pc = "off" /\ isr' = isr /\ pc[u] = "start"
      /\ \A v \in Users : v # u => pc[v] = "idle"
    BY <1>1, ResumeFacts DEF Exact
<1>4. used[t] /\ ~run[t]
    BY <1>2, <1>3 DEF CallsInv
<1>5. t \in Handles /\ ms \in 0 .. MaxMs
  <2>1. arg[u] \in ArgType
      BY <1>2 DEF CallsOK
  <2> QED BY <2>1, ArgFields, Zenon
<1> HIDE DEF t, ms
<1>6. /\ RunSet \subseteq Used /\ Used \subseteq Timers /\ runCount = Cardinality(RunSet)
    BY <1>2, Zenon DEF CountInv
<1>7. t \in Timers /\ RunSet \subseteq Timers
    BY <1>4, <1>5, <1>6 DEF Used, Marked
<1>8. isr'.pc = "off" /\ ~InCallback
    BY <1>3 DEF InCallback
<1> QED BY <1>1, <1>4, <1>5, <1>6, <1>7, <1>8, DueStarted

LEMMA DueStop == ASSUME Exact, TimersInv, DueInv, NEW u \in Users, Stop(u) PROVE DueInv'
<1> DEFINE t == arg[u].timer
<1>1. Resumes(u, "stop") /\ StopMasked(t)
    BY Zenon DEF Stop
<1>2. CallsOK /\ CallsInv /\ CountInv
    BY Zenon DEF TimersInv
<1>3. isr.pc = "off" /\ isr' = isr /\ pc[u] = "stop"
    BY <1>1, ResumeFacts DEF Exact
<1>4. run[t]
    BY <1>2, <1>3 DEF CallsInv
<1>5. t \in Handles
  <2>1. arg[u] \in ArgType
      BY <1>2 DEF CallsOK
  <2> QED BY <2>1, ArgFields, Zenon
<1> HIDE DEF t
<1>6. /\ RunSet \subseteq Used /\ Used \subseteq Timers /\ runCount = Cardinality(RunSet)
    BY <1>2, Zenon DEF CountInv
<1>7. t \in Timers /\ RunSet \subseteq Timers
    BY <1>4, <1>5, <1>6 DEF RunSet, Marked
<1>8. isr'.pc = "off" /\ ~InCallback
    BY <1>3 DEF InCallback
<1> QED BY <1>1, <1>4, <1>6, <1>7, <1>8, DueStopped

LEMMA DueCallback == ASSUME Exact, TimersInv, DueInv, Callback PROVE DueInv'
<1>1. InCallback /\ CallbackEnds
    BY Zenon DEF Callback, CallbackReturns, CallbackFrees, CallbackStarts, CallbackStops
<1>2. /\ RunSet \subseteq Timers /\ runCount = Cardinality(RunSet)
      /\ isr.at \in Timers /\ isr'.pc = "loop"
    BY <1>1, CallbackFacts
<1>3. CASE CallbackReturns \/ CallbackFrees
  <2>1. UNCHANGED timing
      BY <1>3, Zenon DEF CallbackReturns, CallbackFrees
  <2>2. /\ RunSet' = RunSet /\ due' = due /\ port' = port /\ Elapsed' = Elapsed
        /\ \A t : Rest(t)' = Rest(t)
      BY <2>1, Zenon DEF timing, RunSet, Marked, Elapsed, Rest
  <2> QED BY <1>2, <2>2 DEF DueInv, InCallback
<1>4. ASSUME NEW ms \in Durations, CallbackStarts(ms) PROVE DueInv'
  <2>1. ~run[isr.at] /\ StartMasked(isr.at, ms)
      BY <1>4, Zenon DEF CallbackStarts
  <2>2. ms \in 0 .. MaxMs
      BY Sizes
  <2> QED BY <1>1, <1>2, <2>1, <2>2, DueStarted
<1>5. ASSUME NEW t \in Timers, CallbackStops(t) PROVE DueInv'
  <2>1. run[t] /\ StopMasked(t)
      BY <1>5, Zenon DEF CallbackStops
  <2> QED BY <1>1, <1>2, <2>1, DueStopped
<1> QED BY <1>3, <1>4, <1>5, Zenon DEF Callback

LEMMA DueTick == ASSUME Exact, TimersInv, DueInv, Tick PROVE DueInv'
<1>1. /\ port' = IF ~port.on THEN port
                 ELSE [port EXCEPT !.count = @ + 1, !.on = port.count + 1 < port.compare,
                                   !.irq = port.count + 1 = port.compare]
      /\ due' = [t \in Handles |-> IF run[t] /\ due[t] > -MaxLate THEN due[t] - 1 ELSE due[t]]
      /\ run' = run /\ timeout' = timeout /\ absTime' = absTime /\ lastTime' = lastTime
      /\ isr' = isr
    BY Zenon DEF Tick
<1>2. TimingOK /\ CallsOK
    BY Zenon DEF TimersInv
<1>3. port \in PortType /\ due \in [Handles -> -MaxLate .. MaxMs * Sub]
    BY <1>2, Zenon DEF TimingOK
<1>4. port.count \in Int /\ (port'.count = port.count \/ port'.count = port.count + 1)
    BY <1>1, <1>3, Sizes DEF PortType
<1>5. \A t \in Handles : /\ due[t] \in Int /\ due'[t] \in Int /\ due'[t] <= due[t]
                         /\ run[t] /\ due[t] > 0 => due'[t] = due[t] - 1
    BY <1>1, <1>3, Sizes
<1>6. RunSet' = RunSet /\ Elapsed' = Elapsed /\ \A t : Rest(t)' = Rest(t)
    BY <1>1, Zenon DEF RunSet, Marked, Elapsed, Rest
<1>7. ASSUME NEW t \in RunSet, due'[t] > 0
      PROVE  due'[t] + port'.count <= Rest(t) - Elapsed
  <2>1. t \in Handles /\ run[t]
      BY Zenon DEF RunSet, Marked
  <2>2. due[t] > 0 /\ due'[t] = due[t] - 1 /\ due[t] \in Int
      BY <1>5, <1>7, <2>1
  <2>3. due[t] + port.count <= Rest(t) - Elapsed
      BY <2>2 DEF DueInv
  <2>4. Rest(t) - Elapsed \in Int
    <3>1. absTime \in 0 .. Modulus - 1 /\ lastTime \in 0 .. Modulus - 1
        BY <1>2, Zenon DEF TimingOK
    <3>2. Rest(t) \in Int /\ Elapsed \in Int
        BY <1>2, <3>1, Deadline, GapType DEF Elapsed
    <3> QED BY <3>2
  <2> QED BY <1>4, <2>2, <2>3, <2>4
<1>8. InCallback' => due'[isr'.at] <= 0
  <2>1. isr.at \in Handles
      BY <1>2 DEF CallsOK
  <2>2. InCallback => due[isr.at] <= 0
      BY DEF DueInv
  <2> QED BY <1>1, <1>5, <2>1, <2>2 DEF InCallback
<1> QED BY <1>6, <1>7, <1>8 DEF DueInv

\* A timer the handler finds expired is not ahead of real time either.
LEMMA DueExpire == ASSUME Exact, TimersInv, DueInv, IsrExpire PROVE DueInv'
<1> DEFINE t == isr.at
<1>1. /\ isr.pc = "loop" /\ t \in Timers /\ run[t] /\ Left(timeout[t], absTime, lastTime) = 0
      /\ isr' = [isr EXCEPT !.pc = "callback"] /\ run' = [run EXCEPT ![t] = FALSE]
      /\ timeout' = timeout /\ absTime' = absTime /\ lastTime' = lastTime
      /\ port' = port /\ due' = due
    BY DEF IsrExpire, Expired
<1>2. TimingOK /\ CallsOK /\ DeadlinesInv /\ port.count = 0
    BY <1>1, HandlerFacts
<1>3. isr'.at = t /\ t \in RunSet
    BY <1>1, <1>2, Sizes DEF CallsOK, RunSet, Marked
<1> HIDE DEF t
<1>4. /\ timeout[t] \in 0 .. Modulus - 1 /\ Rest(t) = Gap(lastTime, timeout[t])
      /\ Rest(t) \in 0 .. Modulus - 1
    BY <1>2, <1>3, Deadline
<1>5. absTime \in 0 .. Modulus - 1 /\ lastTime \in 0 .. Modulus - 1
    BY <1>2, Zenon DEF TimingOK
<1>6. Gap(lastTime, absTime) <= Gap(lastTime, timeout[t])
    BY <1>2, <1>3, <1>4 DEF DeadlinesInv, Elapsed
<1>7. Rest(t) - Elapsed = 0
    BY <1>1, <1>4, <1>5, <1>6, Between DEF Elapsed
<1>8. due[t] <= 0
  <2>1. due[t] \in Int
      BY <1>2, <1>3, DueTypes
  <2>2. due[t] > 0 => due[t] + 0 <= 0
      BY <1>2, <1>3, <1>7 DEF DueInv
  <2> QED BY <2>1, <2>2
<1>9. RunSet' \subseteq RunSet
  <2>1. run \in [Handles -> BOOLEAN]
      BY <1>2, Zenon DEF TimingOK
  <2>2. run' = [run EXCEPT ![t] = FALSE] /\ run[t] /\ t \in Handles
      BY <1>1, <1>3 DEF RunSet, Marked
  <2>3. Marked(run') = Marked(run) \ {t}
      BY <2>1, <2>2, MarkedRemoved
  <2>4. RunSet' = Marked(run')
      BY DEF RunSet, Marked
  <2> QED BY <2>3, <2>4 DEF RunSet
<1>10. Elapsed' = Elapsed /\ \A s : Rest(s)' = Rest(s)
    BY <1>1, Zenon DEF Elapsed, Rest
<1> QED BY <1>1, <1>3, <1>8, <1>9, <1>10 DEF DueInv

LEMMA DueEnter == ASSUME Exact, TimersInv, DueInv, IsrEnter PROVE DueInv'
<1>1. /\ absTime' = Now /\ lastTime' = lastTime /\ timeout' = timeout
      /\ RunSet' = RunSet /\ port' = PortOff /\ isr'.pc = "loop"
    BY IsrEnterStep DEF Exact
<1>2. due' = due
    BY Zenon DEF IsrEnter
<1>3. TimingOK
    BY Zenon DEF TimersInv
<1>4. Elapsed' = Gap(lastTime, Now) /\ \A t : Rest(t)' = Gap(lastTime, timeout[t])
    BY <1>1, Zenon DEF Elapsed, Rest
<1>5. port'.count = 0
    BY <1>1 DEF PortOff
<1>6. Kept(Now)
    BY <1>1, <1>4, <1>5 DEF Kept
<1>7. \A s \in RunSet' : due'[s] \in Int
    BY <1>1, <1>2, <1>3, DueTypes
<1>8. RunSet \in SUBSET RunSet /\ isr'.pc # "callback"
    BY <1>1
<1> QED BY <1>1, <1>2, <1>6, <1>7, <1>8, DueKept

LEMMA DueExit == ASSUME Exact, TimersInv, DueInv, IsrExit PROVE DueInv'
<1>1. /\ isr.pc = "loop" /\ isr' = [pc |-> "off", at |-> 0]
      /\ runCount # 0 => Arm(run, timeout, absTime)
      /\ run' = run /\ timeout' = timeout /\ absTime' = absTime /\ due' = due
    BY DEF IsrExit
<1>2. /\ TimingOK /\ DeadlinesInv /\ RunSet \subseteq Timers
      /\ runCount = Cardinality(RunSet) /\ port.count = 0
    BY <1>1, HandlerFacts
<1>3. /\ run \in [Handles -> BOOLEAN] /\ timeout \in [Handles -> 0 .. Modulus - 1]
      /\ absTime \in 0 .. Modulus - 1
    BY <1>2, Zenon DEF TimingOK
<1>4. RunSet' = RunSet
    BY <1>1, Zenon DEF RunSet, Marked
<1>5. isr'.pc = "off" /\ ~InCallback'
    BY <1>1 DEF InCallback
<1>6. CASE RunSet = {}
    BY <1>4, <1>5, <1>6 DEF DueInv
<1>7. CASE RunSet # {}
  <2>1. runCount # 0
      BY <1>2, <1>3, <1>7, MarkedBound DEF RunSet
  <2>2. /\ Marked(run) \subseteq Timers /\ Marked(run) # {}
        /\ \A t \in Marked(run) :
              /\ Gap(lastTime, absTime) <= Gap(lastTime, timeout[t])
              /\ Gap(lastTime, timeout[t]) <= Gap(lastTime, absTime) + MaxMs
      BY <1>2, <1>7, ReadAgain DEF Read, RunSet
  <2>3. Kept(absTime)
      BY <1>1, <1>2, <1>3, <1>5, <2>1, <2>2, Armed
  <2>4. Now = absTime
      BY <1>2, ReadIdle
  <2>5. \A s \in RunSet' : due'[s] \in Int
      BY <1>1, <1>2, <1>4, DueTypes
  <2>6. RunSet \in SUBSET RunSet /\ isr'.pc # "callback"
      BY <1>5
  <2> QED BY <1>1, <1>4, <2>3, <2>4, <2>5, <2>6, DueKept
<1> QED BY <1>6, <1>7

\* A step that leaves the timing alone and is not the handler's.
LEMMA DueSame ==
    ASSUME DueInv, UNCHANGED timing, InCallback' => InCallback /\ isr' = isr
    PROVE  DueInv'
<1>1. /\ RunSet' = RunSet /\ due' = due /\ port' = port /\ Elapsed' = Elapsed
      /\ \A t : Rest(t)' = Rest(t)
    BY Zenon DEF timing, RunSet, Marked, Elapsed, Rest
<1> QED BY <1>1 DEF DueInv

LEMMA DueNext == ASSUME Exact, TimersInv, DueInv, Next PROVE DueInv'
<1>1. CASE Tick
    BY <1>1, DueTick, Zenon
<1>2. CASE IsrEnter
    BY <1>2, DueEnter, Zenon
<1>3. CASE IsrAck
  <2>1. /\ isr' = [isr EXCEPT !.pc = "off"] /\ port' = [port EXCEPT !.irq = FALSE]
        /\ run' = run /\ timeout' = timeout /\ absTime' = absTime /\ lastTime' = lastTime
        /\ due' = due
      BY <1>3, Zenon DEF IsrAck
  <2>2. port \in PortType /\ CallsOK
      BY Zenon DEF TimersInv, TimingOK
  <2>3. port'.count = port.count /\ ~InCallback'
      BY <2>1, <2>2 DEF PortType, CallsOK, InCallback
  <2>4. RunSet' = RunSet /\ Elapsed' = Elapsed /\ \A t : Rest(t)' = Rest(t)
      BY <2>1, Zenon DEF RunSet, Marked, Elapsed, Rest
  <2> QED BY <2>1, <2>3, <2>4 DEF DueInv
<1>4. CASE IsrSkip \/ IsrOther
  <2>1. UNCHANGED timing
      BY <1>4, Zenon DEF IsrSkip, IsrOther
  <2>2. CallsOK
      BY Zenon DEF TimersInv
  <2>3. ~InCallback'
      BY <1>4, <2>2 DEF IsrSkip, IsrOther, InCallback, CallsOK
  <2> QED BY <2>1, <2>3, DueSame
<1>5. CASE IsrExpire
    BY <1>5, DueExpire, Zenon
<1>6. CASE Callback
    BY <1>6, DueCallback, Zenon
<1>7. CASE IsrExit
    BY <1>7, DueExit, Zenon
<1>8. ASSUME NEW u \in Users, Call(u) PROVE DueInv'
  <2>1. isr' = isr /\ UNCHANGED timing
      BY <1>8, Zenon DEF Call, GetCheck, FreeLoad, StopCheck, StartCheck, Checked
  <2> QED BY <2>1, DueSame, Zenon DEF InCallback
<1>9. ASSUME NEW u \in Users, Resume(u) PROVE DueInv'
  <2>1. CASE Get(u) \/ FreeStore(u)
    <3>1. isr' = isr /\ UNCHANGED timing
        BY <2>1, Zenon DEF Get, FreeStore, Resumes
    <3> QED BY <3>1, DueSame, Zenon DEF InCallback
  <2>2. CASE Start(u)
      BY <2>2, DueStart, Zenon
  <2>3. CASE Stop(u)
      BY <2>3, DueStop, Zenon
  <2> QED BY <1>9, <2>1, <2>2, <2>3, Zenon DEF Resume
<1> QED BY <1>1, <1>2, <1>3, <1>4, <1>5, <1>6, <1>7, <1>8, <1>9, Zenon DEF Next, Isr

\* When the counter counts milliseconds no callback runs before the time its user
\* asked for, whatever is started and stopped meanwhile and wherever the clock wraps.
THEOREM NotBefore == Exact /\ Spec => []NeverEarly
<1> SUFFICES ASSUME Exact PROVE Spec => []NeverEarly
    OBVIOUS
<1>1. Init => TimersInv /\ DueInv
  <2> SUFFICES ASSUME Init PROVE TimersInv /\ DueInv
      OBVIOUS
  <2>1. ~InCallback /\ RunSet = {}
      BY DEF Init, InCallback, RunSet, Marked
  <2> QED BY <2>1, InitInv DEF DueInv
<1>2. (TimersInv /\ DueInv) /\ [Next]_vars => (TimersInv /\ DueInv)'
  <2> SUFFICES ASSUME TimersInv, DueInv, [Next]_vars PROVE TimersInv' /\ DueInv'
      OBVIOUS
  <2>1. CASE Next
      BY <2>1, NextInv, DueNext, Zenon DEF Exact
  <2>2. CASE UNCHANGED vars
    <3>1. UNCHANGED timing /\ isr' = isr
        BY <2>2 DEF vars, timing
    <3>2. DueInv'
        BY <3>1, DueSame, Zenon DEF InCallback
    <3> QED BY <2>2, <3>2, SameInv
  <2> QED BY <2>1, <2>2
<1>3. TimersInv /\ DueInv => NeverEarly
  <2> SUFFICES ASSUME DueInv, CallsOK, TimingOK, InCallback PROVE due[isr.at] < Sub
      BY Zenon DEF NeverEarly, TimersInv
  <2>1. isr.at \in Handles
      BY DEF CallsOK
  <2>2. due \in [Handles -> -MaxLate .. MaxMs * Sub]
      BY Zenon DEF TimingOK
  <2>3. due[isr.at] \in Int /\ due[isr.at] <= 0
    <3>1. \A t \in Handles : due[t] \in Int
        BY <2>2, Sizes
    <3>2. due[isr.at] <= 0
        BY Zenon DEF DueInv
    <3> QED BY <2>1, <3>1, <3>2
  <2> QED BY <2>3, Sizes
<1> QED BY <1>1, <1>2, <1>3, PTL DEF Spec
=============================================================================
