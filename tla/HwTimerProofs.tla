---------------------------- MODULE HwTimerProofs ----------------------------
(***************************************************************************)
(* Theorems about HwTimer.tla, for a counter of any width.                 *)
(***************************************************************************)
EXTENDS HwTimer, TLAPS

\* The ticks from time u to time t.
Dist(u, t) == (t + M - u) % M

\* The time a wait began, e ticks before time t.
Began(t, e) == (t + 2 * M - e) % M

\* hwtimer_wait_until: how long a wait for time a is, made at time c.
WaitFrom(c, a) == IF After(c, a) THEN 0 ELSE Dist(c, a)

(***************************************************************************)
(* The inductive invariant                                                 *)
(***************************************************************************)
\* Until a call shares the timer with the callback, only these are made while
\* interrupts are enabled, and an armed timer has the time that was asked for.
Shared == {"idle", "hwtimer_change_trigger_time", "hwtimer_disable_trigger"}
CallbackOK ==
   /\ hpc > 0 => enabled
   /\ ~rash => /\ enabled => fn \in Shared /\ cond = "after"
               /\ fn = "hwtimer_enable_trigger" => cond = "after"
               /\ fn \in Sets => due = arg
               /\ cond = "after" /\ fn \notin Sets \cup Waits => data = due

\* hwtimer_wait_until: the trigger has the time that is waited for, and when it
\* has fired the wait is over; on a prompt core no tick is lost before it, and
\* none after.
UntilOK ==
   fn = "hwtimer_wait_until" /\ ~rash =>
      /\ pc >= 2 => cond = "after"
      /\ pc >= 3 => data = arg
      /\ pc = 4 => elapsed >= WaitFrom(Began(time, elapsed), arg)
      /\ prompt => /\ pc <= 2 => elapsed = 0
                   /\ After(Began(time, elapsed), arg) => elapsed = 0
                   /\ elapsed <= WaitFrom(Began(time, elapsed), arg) + 1

\* hwtimer_delay: the time it waits for is counted from a time after the call.
DelayOK ==
   fn = "hwtimer_delay" /\ ~rash =>
      /\ pc \in {2, 3, 4} => Dist(now, time) <= elapsed
      /\ pc >= 3 => cond = "after"
      /\ pc = 4 => data = (now + arg) % M
      /\ pc = 5 /\ arg < Half => elapsed >= arg
      /\ prompt /\ ~armed => /\ pc = 1 => cond = "none"
                             /\ pc <= 3 => elapsed = 0
                             /\ pc \in {2, 3, 4} => elapsed = Dist(now, time)
                             /\ elapsed <= arg + 1
                             /\ arg > Half => elapsed = 0

IInv == TypeOK /\ CallbackOK /\ UntilOK /\ DelayOK
(***************************************************************************)
(* Arithmetic of the counter                                               *)
(***************************************************************************)
\* A turn is at least four ticks.
LEMMA Turn == M \in Nat /\ M = 2 * Half /\ Half \in Nat /\ Half >= 2 /\ Time = 0 .. M - 1
BY WidthAssumption DEF M, Time

\* The counter cuts off the turns it has made.
LEMMA Modulo ==
   /\ \A x \in 0 .. M - 1 : x % M = x
   /\ \A x \in M .. 2 * M - 1 : x % M = x - M
   /\ \A x \in 2 * M .. 3 * M - 1 : x % M = x - 2 * M
   /\ \A x \in Nat : x % M \in Time
<1>1. \A m \in Nat \ {0} : \A x \in 0 .. m - 1 : x % m = x
  OBVIOUS
<1>2. \A m \in Nat \ {0} : \A x \in m .. 2 * m - 1 : x % m = x - m
  OBVIOUS
<1>3. \A m \in Nat \ {0} : \A x \in 2 * m .. 3 * m - 1 : x % m = x - 2 * m
  OBVIOUS
<1>4. \A m \in Nat \ {0} : \A x \in Nat : x % m \in 0 .. m - 1
  OBVIOUS
<1>5. M \in Nat \ {0}
  BY Turn
<1> HIDE DEF M
<1> QED
  BY <1>1, <1>2, <1>3, <1>4, <1>5 DEF Time

\* The ticks between two times.
LEMMA DistIs ==
   ASSUME NEW u \in Time, NEW t \in Time
   PROVE  /\ Dist(u, t) = IF t >= u THEN t - u ELSE t + M - u
          /\ Dist(u, t) \in Time
<1>1. M \in Nat /\ Time = 0 .. M - 1
  BY Turn
<1>2. CASE t >= u
  <2>1. PICK x \in M .. 2 * M - 1 : x = t + M - u
    BY <1>1, <1>2
  <2>2. x % M = x - M
    BY Modulo
  <2> QED
    BY <1>1, <1>2, <2>1, <2>2 DEF Dist
<1>3. CASE ~(t >= u)
  <2>1. t + M - u \in 0 .. M - 1
    BY <1>1, <1>3
  <2>2. (t + M - u) % M = t + M - u
    BY <1>1, <2>1, Modulo
  <2> QED
    BY <1>1, <1>3, <2>1, <2>2 DEF Dist
<1> QED
  BY <1>2, <1>3

\* One tick more, or back to the time itself.
LEMMA DistTick ==
   ASSUME NEW u \in Time, NEW t \in Time, NEW v, v = (t + 1) % M
   PROVE  /\ v \in Time
          /\ Dist(u, v) = IF Dist(u, t) = M - 1 THEN 0 ELSE Dist(u, t) + 1
<1>1. M \in Nat /\ Time = 0 .. M - 1 /\ M >= 4
  BY Turn
<1>2. v = IF t = M - 1 THEN 0 ELSE t + 1
  <2>1. CASE t = M - 1
    <3>1. t + 1 \in M .. 2 * M - 1 /\ t + 1 - M = 0
      BY <1>1, <2>1
    <3> QED
      BY <1>1, <2>1, <3>1, Modulo
  <2>2. CASE t # M - 1
    <3>1. t + 1 \in 0 .. M - 1
      BY <1>1, <2>2
    <3> QED
      BY <2>2, <3>1, Modulo
  <2> QED
    BY <2>1, <2>2
<1>3. v \in Time
  BY <1>1, <1>2
<1>4. /\ Dist(u, t) = IF t >= u THEN t - u ELSE t + M - u
      /\ Dist(u, v) = IF v >= u THEN v - u ELSE v + M - u
  BY <1>3, DistIs
<1> QED
  BY <1>1, <1>2, <1>3, <1>4

\* The sum of two times is cut to the width of the counter.
LEMMA SumIs ==
   ASSUME NEW n \in Time, NEW a \in Time
   PROVE  /\ (n + a) % M \in Time
          /\ (n + a) % M = IF n + a < M THEN n + a ELSE n + a - M
<1>1. M \in Nat /\ Time = 0 .. M - 1
  BY Turn
<1>2. CASE n + a < M
  <2>1. PICK x \in 0 .. M - 1 : x = n + a
    BY <1>1, <1>2
  <2>2. x % M = x
    BY Modulo
  <2> QED
    BY <1>1, <1>2, <2>1, <2>2
<1>3. CASE ~(n + a < M)
  <2>1. PICK x \in M .. 2 * M - 1 : x = n + a
    BY <1>1, <1>3
  <2>2. x % M = x - M
    BY Modulo
  <2> QED
    BY <1>1, <1>3, <2>1, <2>2
<1> QED
  BY <1>2, <1>3

\* When the comparison of the timer fires.
LEMMA AfterIs == ASSUME NEW t, NEW u PROVE After(t, u) <=> Dist(u, t) \in 1 .. Half - 1
BY DEF After, Dist

\* It is the same until the count of the ticks is at its bound.
LEMMA BeganIs ==
   ASSUME NEW t \in Time, NEW e \in 0 .. Horizon
   PROVE  /\ Began(t, e) \in Time
          /\ e < M => Dist(Began(t, e), t) = e
          /\ e < Horizon => Began((t + 1) % M, e + 1) = Began(t, e)
<1>1. M \in Nat /\ Time = 0 .. M - 1 /\ M >= 4 /\ Horizon = M + 1
  BY Turn DEF Horizon
<1>2. Began(t, e) = IF t >= e THEN t - e
                    ELSE IF t + M >= e THEN t + M - e ELSE t + 2 * M - e
  <2>1. CASE t >= e
    <3>1. PICK x \in 2 * M .. 3 * M - 1 : x = t + 2 * M - e
      BY <1>1, <2>1
    <3>2. x % M = x - 2 * M
      BY Modulo
    <3> QED
      BY <1>1, <2>1, <3>1, <3>2 DEF Began
  <2>2. CASE ~(t >= e) /\ t + M >= e
    <3>1. PICK x \in M .. 2 * M - 1 : x = t + 2 * M - e
      BY <1>1, <2>2
    <3>2. x % M = x - M
      BY Modulo
    <3> QED
      BY <1>1, <2>2, <3>1, <3>2 DEF Began
  <2>3. CASE ~(t >= e) /\ ~(t + M >= e)
    <3>1. t + 2 * M - e \in 0 .. M - 1
      BY <1>1, <2>3
    <3>2. (t + 2 * M - e) % M = t + 2 * M - e
      BY <1>1, <3>1, Modulo
    <3> QED
      BY <2>3, <3>2 DEF Began
  <2> QED
    BY <2>1, <2>2, <2>3
<1>3. Began(t, e) \in Time
  BY <1>1, <1>2
<1>4. ASSUME e < M PROVE Dist(Began(t, e), t) = e
  <2>1. PICK b \in Time : b = Began(t, e)
    BY <1>3
  <2>2. Dist(b, t) = IF t >= b THEN t - b ELSE t + M - b
    BY DistIs
  <2> QED
    BY <1>1, <1>2, <1>4, <2>1, <2>2
<1>5. ASSUME e < Horizon PROVE Began((t + 1) % M, e + 1) = Began(t, e)
  <2>1. CASE t = M - 1
    <3>1. t + 1 \in M .. 2 * M - 1 /\ t + 1 - M = 0
      BY <1>1, <2>1
    <3>2. (t + 1) % M = 0
      BY <1>1, <3>1, Modulo
    <3>3. Began(0, e + 1) = IF e + 1 <= M THEN M - (e + 1) ELSE 2 * M - (e + 1)
      <4>1. CASE e + 1 <= M /\ e + 1 # 0
        <5>1. PICK x \in M .. 2 * M - 1 : x = 0 + 2 * M - (e + 1)
          BY <1>1, <4>1
        <5>2. x % M = x - M
          BY Modulo
        <5> QED
          BY <1>1, <4>1, <5>1, <5>2 DEF Began
      <4>2. CASE e + 1 > M
        <5>1. PICK x \in 0 .. M - 1 : x = 0 + 2 * M - (e + 1)
          BY <1>1, <1>5, <4>2
        <5>2. x % M = x
          BY Modulo
        <5> QED
          BY <1>1, <4>2, <5>1, <5>2 DEF Began
      <4> QED
        BY <1>1, <4>1, <4>2
    <3> QED
      BY <1>1, <1>2, <1>5, <2>1, <3>2, <3>3
  <2>2. CASE t # M - 1
    <3>1. t + 1 \in 0 .. M - 1
      BY <1>1, <2>2
    <3>2. (t + 1) % M = t + 1
      BY <1>1, <3>1, Modulo
    <3>3. t + 1 + 2 * M - (e + 1) = t + 2 * M - e
      BY <1>1
    <3> QED
      BY <3>2, <3>3 DEF Began
  <2> QED
    BY <2>1, <2>2
<1> QED
  BY <1>3, <1>4, <1>5

\* A wait for a time ahead is at most half a turn, and any is less than a turn.
LEMMA WaitIs ==
   ASSUME NEW c \in Time, NEW a \in Time
   PROVE  WaitFrom(c, a) \in 0 .. M - 1 /\ WaitFrom(c, a) <= Half
<1>1. M \in Nat /\ Time = 0 .. M - 1 /\ Half \in Nat /\ M = 2 * Half /\ Half >= 2
  BY Turn
<1>2. /\ Dist(c, a) = IF a >= c THEN a - c ELSE a + M - c
      /\ Dist(a, c) = IF c >= a THEN c - a ELSE c + M - a
  BY DistIs
<1>3. After(c, a) <=> Dist(a, c) \in 1 .. Half - 1
  BY AfterIs
<1> QED
  BY <1>1, <1>2, <1>3 DEF WaitFrom

\* When the comparison fires, the wait that began e ticks ago is over.
LEMMA UntilNotEarly ==
   ASSUME NEW t \in Time, NEW a \in Time, NEW e \in 0 .. Horizon, After(t, a)
   PROVE  e >= WaitFrom(Began(t, e), a)
<1>1. M \in Nat /\ Time = 0 .. M - 1 /\ Half \in Nat /\ M = 2 * Half /\ Half >= 2
  BY Turn
<1>2. PICK c \in Time : c = Began(t, e)
  BY BeganIs
<1>3. e < M => Dist(c, t) = e
  BY <1>2, BeganIs
<1>4. /\ Dist(c, a) = IF a >= c THEN a - c ELSE a + M - c
      /\ Dist(a, c) = IF c >= a THEN c - a ELSE c + M - a
      /\ Dist(a, t) = IF t >= a THEN t - a ELSE t + M - a
      /\ Dist(c, t) = IF t >= c THEN t - c ELSE t + M - c
  BY DistIs
<1>5. /\ Dist(a, t) \in 1 .. Half - 1
      /\ After(c, a) <=> Dist(a, c) \in 1 .. Half - 1
  BY AfterIs
<1>6. e \in Nat /\ WaitFrom(c, a) \in 0 .. M - 1
  <2>1. e \in Nat
    BY <1>1 DEF Horizon
  <2> QED
    BY <2>1, WaitIs
<1>7. e >= WaitFrom(c, a)
  <2>1. CASE e < M
    BY <1>1, <1>3, <1>4, <1>5, <1>6, <2>1 DEF WaitFrom
  <2>2. CASE ~(e < M)
    BY <1>1, <1>6, <2>2
  <2> QED
    BY <2>1, <2>2
<1> QED
  BY <1>2, <1>7

\* Until it fires, no tick more than the wait has passed.
LEMMA UntilNotLate ==
   ASSUME NEW t \in Time, NEW a \in Time, NEW e \in 0 .. Horizon, ~After(t, a),
          After(Began(t, e), a) => e = 0, e <= WaitFrom(Began(t, e), a) + 1
   PROVE  e <= WaitFrom(Began(t, e), a) /\ ~After(Began(t, e), a)
<1>1. M \in Nat /\ Time = 0 .. M - 1 /\ Half \in Nat /\ M = 2 * Half /\ Half >= 2
  BY Turn
<1>2. PICK c \in Time : c = Began(t, e)
  BY BeganIs
<1>3. e < M => Dist(c, t) = e
  BY <1>2, BeganIs
<1>4. /\ Dist(c, a) = IF a >= c THEN a - c ELSE a + M - c
      /\ Dist(a, c) = IF c >= a THEN c - a ELSE c + M - a
      /\ Dist(a, t) = IF t >= a THEN t - a ELSE t + M - a
      /\ Dist(c, t) = IF t >= c THEN t - c ELSE t + M - c
  BY DistIs
<1>5. /\ ~(Dist(a, t) \in 1 .. Half - 1)
      /\ After(c, a) <=> Dist(a, c) \in 1 .. Half - 1
  BY AfterIs
<1>6. e \in Nat /\ WaitFrom(c, a) \in 0 .. M - 1 /\ WaitFrom(c, a) <= Half
  <2>1. e \in Nat
    BY <1>1 DEF Horizon
  <2> QED
    BY <2>1, WaitIs
<1>7. e <= WaitFrom(c, a) + 1 /\ (After(c, a) => e = 0)
  BY <1>2
<1>8. e < M
  BY <1>1, <1>6, <1>7
<1>9. ~After(c, a)
  BY <1>1, <1>3, <1>4, <1>5, <1>7, <1>8
<1>10. e <= WaitFrom(c, a)
  BY <1>1, <1>3, <1>4, <1>5, <1>6, <1>7, <1>8, <1>9 DEF WaitFrom
<1> QED
  BY <1>2, <1>9, <1>10

\* hwtimer_delay: when the comparison with n + a fires, a ticks have passed
\* since time n, if a is below half a turn.
LEMMA DelayNotEarly ==
   ASSUME NEW n \in Time, NEW t \in Time, NEW a \in Time, a < Half, After(t, (n + a) % M)
   PROVE  Dist(n, t) >= a
<1>1. M \in Nat /\ Time = 0 .. M - 1 /\ Half \in Nat /\ M = 2 * Half /\ Half >= 2
  BY Turn
<1>2. PICK d \in Time : d = (n + a) % M /\ d = IF n + a < M THEN n + a ELSE n + a - M
  BY SumIs
<1>3. /\ Dist(d, t) = IF t >= d THEN t - d ELSE t + M - d
      /\ Dist(n, t) = IF t >= n THEN t - n ELSE t + M - n
  BY DistIs
<1>4. Dist(d, t) \in 1 .. Half - 1
  BY <1>2, AfterIs
<1> QED
  BY <1>1, <1>2, <1>3, <1>4

\* Until it fires, no more than a ticks have passed.
LEMMA DelayNotLate ==
   ASSUME NEW n \in Time, NEW t \in Time, NEW a \in Time, ~After(t, (n + a) % M),
          Dist(n, t) <= a + 1, a > Half => Dist(n, t) = 0
   PROVE  Dist(n, t) <= a /\ a <= Half
<1>1. M \in Nat /\ Time = 0 .. M - 1 /\ Half \in Nat /\ M = 2 * Half /\ Half >= 2
  BY Turn
<1>2. PICK d \in Time : d = (n + a) % M /\ d = IF n + a < M THEN n + a ELSE n + a - M
  BY SumIs
<1>3. /\ Dist(d, t) = IF t >= d THEN t - d ELSE t + M - d
      /\ Dist(n, t) = IF t >= n THEN t - n ELSE t + M - n
  BY DistIs
<1>4. ~(Dist(d, t) \in 1 .. Half - 1)
  BY <1>2, AfterIs
<1> QED
  BY <1>1, <1>2, <1>3, <1>4

(***************************************************************************)
(* The instructions of the calls                                           *)
(***************************************************************************)
\* The calls and their lengths.
LEMMA Calls ==
   DOMAIN Code = {"hwtimer_get_time", "hwtimer_set_trigger_time",
                  "hwtimer_change_trigger_time", "hwtimer_clear_trigger_time",
                  "hwtimer_wait_until", "hwtimer_delay", "hwtimer_setup_interrupt_callback",
                  "hwtimer_enable_trigger", "hwtimer_disable_trigger"}
BY DEF Code

\* The calls of one instruction.
LEMMA ShortCode ==
   /\ Len(Code["hwtimer_get_time"]) = 1 /\ Code["hwtimer_get_time"][1] = "in"
   /\ Len(Code["hwtimer_change_trigger_time"]) = 1
   /\ Code["hwtimer_change_trigger_time"][1] = "setd"
   /\ Len(Code["hwtimer_clear_trigger_time"]) = 1
   /\ Code["hwtimer_clear_trigger_time"][1] = "none"
   /\ Len(Code["hwtimer_enable_trigger"]) = 1 /\ Code["hwtimer_enable_trigger"][1] = "eeu"
   /\ Len(Code["hwtimer_disable_trigger"]) = 1 /\ Code["hwtimer_disable_trigger"][1] = "edu"
BY DEF Code

\* The calls that set a trigger time.
LEMMA SetCode ==
   /\ Len(Code["hwtimer_set_trigger_time"]) = 2
   /\ Code["hwtimer_set_trigger_time"][1] = "after"
   /\ Code["hwtimer_set_trigger_time"][2] = "setd"
   /\ Len(Code["hwtimer_setup_interrupt_callback"]) = 3
   /\ Code["hwtimer_setup_interrupt_callback"][1] = "set_up"
   /\ Code["hwtimer_setup_interrupt_callback"][2] = "after"
   /\ Code["hwtimer_setup_interrupt_callback"][3] = "setd"
BY DEF Code

\* hwtimer_wait_until.
LEMMA UntilCode ==
   /\ Len(Code["hwtimer_wait_until"]) = 4
   /\ Code["hwtimer_wait_until"][1] = "after" /\ Code["hwtimer_wait_until"][2] = "setd"
   /\ Code["hwtimer_wait_until"][3] = "in" /\ Code["hwtimer_wait_until"][4] = "none"
BY DEF Code

\* hwtimer_delay.
LEMMA DelayCode ==
   /\ Len(Code["hwtimer_delay"]) = 5
   /\ Code["hwtimer_delay"][1] = "in" /\ Code["hwtimer_delay"][2] = "after"
   /\ Code["hwtimer_delay"][3] = "setd" /\ Code["hwtimer_delay"][4] = "in"
   /\ Code["hwtimer_delay"][5] = "none"
BY DEF Code

\* Every call has a length.
LEMMA Lengths == \A f \in DOMAIN Code : Len(Code[f]) \in Nat
<1> SUFFICES ASSUME NEW f \in DOMAIN Code PROVE Len(Code[f]) \in Nat
  OBVIOUS
<1>1. Len(Code[f]) \in {1, 2, 3, 4, 5}
  BY Calls, ShortCode, SetCode, UntilCode, DelayCode
<1> QED
  BY <1>1

\* The core is before instruction i, the n-th of the l instructions of call f.
Place(f, n, l, i) == fn = f /\ pc = n /\ Len(Code[fn]) = l /\ Code[fn][pc] = i

\* Where the core can be in a call.
LEMMA Places ==
   ASSUME TypeOK
   PROVE  /\ fn = "idle" <=> pc = 0
          /\ pc \in Nat
          /\ fn # "idle" =>
                \/ Place("hwtimer_get_time", 1, 1, "in")
                \/ Place("hwtimer_change_trigger_time", 1, 1, "setd")
                \/ Place("hwtimer_clear_trigger_time", 1, 1, "none")
                \/ Place("hwtimer_enable_trigger", 1, 1, "eeu")
                \/ Place("hwtimer_disable_trigger", 1, 1, "edu")
                \/ Place("hwtimer_set_trigger_time", 1, 2, "after")
                \/ Place("hwtimer_set_trigger_time", 2, 2, "setd")
                \/ Place("hwtimer_setup_interrupt_callback", 1, 3, "set_up")
                \/ Place("hwtimer_setup_interrupt_callback", 2, 3, "after")
                \/ Place("hwtimer_setup_interrupt_callback", 3, 3, "setd")
                \/ Place("hwtimer_wait_until", 1, 4, "after")
                \/ Place("hwtimer_wait_until", 2, 4, "setd")
                \/ Place("hwtimer_wait_until", 3, 4, "in")
                \/ Place("hwtimer_wait_until", 4, 4, "none")
                \/ Place("hwtimer_delay", 1, 5, "in")
                \/ Place("hwtimer_delay", 2, 5, "after")
                \/ Place("hwtimer_delay", 3, 5, "setd")
                \/ Place("hwtimer_delay", 4, 5, "in")
                \/ Place("hwtimer_delay", 5, 5, "none")
<1>1. CASE fn = "idle"
  <2>1. pc = 0
    BY <1>1 DEF TypeOK
  <2> QED
    BY <1>1, <2>1
<1>2. CASE fn # "idle"
  <2>1. fn \in DOMAIN Code /\ pc \in 1 .. Len(Code[fn])
    BY <1>2 DEF TypeOK
  <2>2. CASE fn \in {"hwtimer_get_time", "hwtimer_change_trigger_time",
                     "hwtimer_clear_trigger_time", "hwtimer_enable_trigger",
                     "hwtimer_disable_trigger"}
    <3>1. Len(Code[fn]) = 1
      BY <2>2, ShortCode
    <3>2. pc = 1
      BY <2>1, <3>1
    <3> QED
      BY <1>2, <2>2, <3>1, <3>2, ShortCode DEF Place
  <2>3. CASE fn = "hwtimer_set_trigger_time"
    <3>1. pc \in 1 .. 2
      BY <2>1, <2>3, SetCode
    <3>2. pc = 1 \/ pc = 2
      BY <3>1
    <3>3. \/ Place("hwtimer_set_trigger_time", 1, 2, "after")
          \/ Place("hwtimer_set_trigger_time", 2, 2, "setd")
      BY <2>3, <3>2, SetCode DEF Place
    <3>4. pc \in Nat /\ pc # 0
      BY <3>2
    <3> QED
      BY <1>2, <3>3, <3>4
  <2>4. CASE fn = "hwtimer_setup_interrupt_callback"
    <3>1. pc \in 1 .. 3
      BY <2>1, <2>4, SetCode
    <3>2. pc = 1 \/ pc = 2 \/ pc = 3
      BY <3>1
    <3>3. \/ Place("hwtimer_setup_interrupt_callback", 1, 3, "set_up")
          \/ Place("hwtimer_setup_interrupt_callback", 2, 3, "after")
          \/ Place("hwtimer_setup_interrupt_callback", 3, 3, "setd")
      BY <2>4, <3>2, SetCode DEF Place
    <3>4. pc \in Nat /\ pc # 0
      BY <3>2
    <3> QED
      BY <1>2, <3>3, <3>4
  <2>5. CASE fn = "hwtimer_wait_until"
    <3>1. pc \in 1 .. 4
      BY <2>1, <2>5, UntilCode
    <3>2. pc = 1 \/ pc = 2 \/ pc = 3 \/ pc = 4
      BY <3>1
    <3>3. \/ Place("hwtimer_wait_until", 1, 4, "after")
          \/ Place("hwtimer_wait_until", 2, 4, "setd")
          \/ Place("hwtimer_wait_until", 3, 4, "in")
          \/ Place("hwtimer_wait_until", 4, 4, "none")
      BY <2>5, <3>2, UntilCode DEF Place
    <3>4. pc \in Nat /\ pc # 0
      BY <3>2
    <3> QED
      BY <1>2, <3>3, <3>4
  <2>6. CASE fn = "hwtimer_delay"
    <3>1. pc \in 1 .. 5
      BY <2>1, <2>6, DelayCode
    <3>2. pc = 1 \/ pc = 2 \/ pc = 3 \/ pc = 4 \/ pc = 5
      BY <3>1
    <3>3. \/ Place("hwtimer_delay", 1, 5, "in")
          \/ Place("hwtimer_delay", 2, 5, "after")
          \/ Place("hwtimer_delay", 3, 5, "setd")
          \/ Place("hwtimer_delay", 4, 5, "in")
          \/ Place("hwtimer_delay", 5, 5, "none")
      BY <2>6, <3>2, DelayCode DEF Place
    <3>4. pc \in Nat /\ pc # 0
      BY <3>2
    <3> QED
      BY <1>2, <3>3, <3>4
  <2> QED
    BY <2>1, <2>2, <2>3, <2>4, <2>5, <2>6, Calls
<1> QED
  BY <1>1, <1>2

\* An instruction is followed by the next one, or by the end of the call.
LEMMA StepIs ==
   ASSUME TypeOK, NEW t \in Time, pc > 0, Step(t)
   PROVE  /\ prompt' = prompt /\ time' = time /\ hpc' = hpc /\ hnow' = hnow /\ rash' = rash
          /\ pc = Len(Code[fn]) => /\ fn' = "idle" /\ pc' = 0 /\ arg' = 0 /\ now' = 0
                                   /\ armed' = FALSE /\ elapsed' = 0
          /\ pc # Len(Code[fn]) => /\ fn' = fn /\ pc' = pc + 1 /\ arg' = arg /\ now' = t
                                   /\ armed' = armed /\ elapsed' = elapsed
          /\ now' \in Time /\ armed' \in BOOLEAN /\ prompt' \in BOOLEAN /\ rash' \in BOOLEAN
          /\ fn' \in DOMAIN Code \cup {"idle"}
          /\ pc' \in IF fn' = "idle" THEN {0} ELSE 1 .. Len(Code[fn'])
          /\ arg' \in Time /\ elapsed' \in 0 .. Horizon
          /\ time' \in Time /\ hpc' \in 0 .. 2 /\ hnow' \in Time
<1>1. /\ prompt' = prompt /\ time' = time /\ hpc' = hpc /\ hnow' = hnow /\ rash' = rash
  BY DEF Step, handler
<1>2. /\ fn # "idle" /\ fn \in DOMAIN Code /\ pc \in 1 .. Len(Code[fn])
  BY DEF TypeOK
<1>3. 0 \in Time /\ 0 \in 0 .. Horizon
  BY Turn DEF Horizon
<1>4. CASE pc = Len(Code[fn])
  <2>1. /\ fn' = "idle" /\ pc' = 0 /\ arg' = 0 /\ now' = 0 /\ armed' = FALSE /\ elapsed' = 0
    BY <1>4 DEF Step, Return
  <2> QED
    BY <1>1, <1>3, <1>4, <2>1 DEF TypeOK
<1>5. CASE pc # Len(Code[fn])
  <2>1. /\ fn' = fn /\ pc' = pc + 1 /\ arg' = arg /\ now' = t
        /\ armed' = armed /\ elapsed' = elapsed
    BY <1>5 DEF Step
  <2>2. Len(Code[fn]) \in Nat
    BY <1>2, Lengths
  <2>3. pc' \in 1 .. Len(Code[fn'])
    BY <1>2, <1>5, <2>1, <2>2
  <2> QED
    BY <1>1, <1>2, <1>5, <2>1, <2>3 DEF TypeOK
<1> QED
  BY <1>4, <1>5

(***************************************************************************)
(* The instructions keep the invariant                                     *)
(***************************************************************************)
\* Nothing that the callback is about changes, but for the place in a call.
LEMMA CallbackKept ==
   ASSUME CallbackOK, hpc' = hpc, UNCHANGED <<enabled, cond, data, due, rash>>,
          \/ fn' = fn /\ arg' = arg
          \/ fn' = "idle" /\ fn \notin Sets \cup Waits
   PROVE  CallbackOK'
<1>1. /\ enabled' = enabled /\ cond' = cond /\ data' = data /\ due' = due /\ rash' = rash
  OBVIOUS
<1>2. "idle" \notin Sets \cup Waits /\ "idle" \in Shared
  BY DEF Sets, Waits, Shared
<1>3. "idle" # "hwtimer_enable_trigger"
  OBVIOUS
<1> QED
  BY <1>1, <1>2, <1>3 DEF CallbackOK

\* A step in which no call goes on and no time passes keeps what the waits need.
LEMMA WaitsKept ==
   ASSUME UntilOK, DelayOK, UNCHANGED <<prompt, time, cond, data, rash>>,
          fn' = fn, pc' = pc, arg' = arg, now' = now, armed' = armed, elapsed' = elapsed
   PROVE  UntilOK' /\ DelayOK'
<1>1. prompt' = prompt /\ time' = time /\ cond' = cond /\ data' = data /\ rash' = rash
  OBVIOUS
<1>2. UntilOK'
  BY <1>1 DEF UntilOK
<1>3. DelayOK'
  BY <1>1 DEF DelayOK
<1> QED
  BY <1>2, <1>3

\* A call that is not a wait needs nothing of them.
LEMMA NoWait == fn \notin Waits => UntilOK /\ DelayOK
BY DEF Waits, UntilOK, DelayOK

\* The instructions a call makes at a time: its own interrupts are not enabled,
\* unless it is one that may be made while they are.
LEMMA NotShared ==
   ASSUME CallbackOK, ~rash, fn \notin Shared PROVE ~enabled
BY DEF CallbackOK

\* _hwtimer_get_time: where a wait ends, it has been long enough.
LEMMA GetTimeInv ==
   ASSUME IInv, get_time PROVE IInv'
<1>1. /\ TypeOK /\ CallbackOK /\ UntilOK /\ DelayOK
      /\ hpc = 0 /\ pc > 0 /\ Code[fn][pc] = "in" /\ Ready /\ Step(time)
      /\ cond' = cond /\ data' = data /\ enabled' = enabled /\ due' = due
  BY DEF IInv, get_time, At
<1>2. time \in Time /\ arg \in Time /\ elapsed \in 0 .. Horizon /\ now \in Time
  BY <1>1 DEF TypeOK
<1>3. PICK u \in Time : u = time /\ Step(u)
  BY <1>1, <1>2 DEF Step
<1>4. /\ prompt' = prompt /\ time' = time /\ hpc' = hpc /\ hnow' = hnow /\ rash' = rash
      /\ pc = Len(Code[fn]) => fn' = "idle" /\ pc' = 0
      /\ pc # Len(Code[fn]) => /\ fn' = fn /\ pc' = pc + 1 /\ arg' = arg /\ now' = time
                               /\ armed' = armed /\ elapsed' = elapsed
      /\ now' \in Time /\ armed' \in BOOLEAN /\ prompt' \in BOOLEAN /\ rash' \in BOOLEAN
      /\ fn' \in DOMAIN Code \cup {"idle"}
      /\ pc' \in IF fn' = "idle" THEN {0} ELSE 1 .. Len(Code[fn'])
      /\ arg' \in Time /\ elapsed' \in 0 .. Horizon
      /\ time' \in Time /\ hpc' \in 0 .. 2 /\ hnow' \in Time
  BY <1>1, <1>3, StepIs
<1>5. TypeOK'
  BY <1>1, <1>4 DEF TypeOK
<1>6. \/ Place("hwtimer_get_time", 1, 1, "in")
      \/ Place("hwtimer_wait_until", 3, 4, "in")
      \/ Place("hwtimer_delay", 1, 5, "in")
      \/ Place("hwtimer_delay", 4, 5, "in")
  BY <1>1, Places DEF Place
<1>7. CASE Place("hwtimer_get_time", 1, 1, "in")
  <2>1. fn' = "idle" /\ fn \notin Sets \cup Waits /\ fn' \notin Waits
    BY <1>4, <1>7 DEF Place, Sets, Waits
  <2>2. CallbackOK'
    BY <1>1, <1>4, <2>1, CallbackKept
  <2>3. UntilOK' /\ DelayOK'
    BY <2>1 DEF Waits, UntilOK, DelayOK
  <2> QED
    BY <1>5, <2>2, <2>3 DEF IInv
<1>8. CASE Place("hwtimer_wait_until", 3, 4, "in")
  <2>1. /\ fn = "hwtimer_wait_until" /\ pc = 3 /\ fn' = fn /\ pc' = 4 /\ arg' = arg
        /\ elapsed' = elapsed
    BY <1>4, <1>8 DEF Place
  <2>2. CallbackOK'
    BY <1>1, <1>4, <2>1, CallbackKept
  <2>3. DelayOK'
    BY <2>1 DEF DelayOK
  <2>4. ASSUME ~rash PROVE elapsed >= WaitFrom(Began(time, elapsed), arg)
    <3>1. After(time, arg)
      BY <1>1, <2>1, <2>4 DEF UntilOK, Ready
    <3> QED
      BY <1>2, <3>1, UntilNotEarly
  <2>5. UntilOK'
    BY <1>1, <1>4, <2>1, <2>4 DEF UntilOK
  <2> QED
    BY <1>5, <2>2, <2>3, <2>5 DEF IInv
<1>9. CASE Place("hwtimer_delay", 1, 5, "in")
  <2>1. /\ fn = "hwtimer_delay" /\ pc = 1 /\ fn' = fn /\ pc' = 2 /\ arg' = arg
        /\ elapsed' = elapsed /\ now' = time /\ armed' = armed
    BY <1>4, <1>9 DEF Place
  <2>2. CallbackOK'
    BY <1>1, <1>4, <2>1, CallbackKept
  <2>3. UntilOK'
    BY <2>1 DEF UntilOK
  <2>4. Dist(time, time) = 0
    BY <1>2, DistIs, Turn
  <2>5. elapsed \in Nat
    BY <1>2, Turn DEF Horizon
  <2>6. DelayOK'
    BY <1>1, <1>4, <2>1, <2>4, <2>5 DEF DelayOK
  <2> QED
    BY <1>5, <2>2, <2>3, <2>6 DEF IInv
<1>10. CASE Place("hwtimer_delay", 4, 5, "in")
  <2>1. /\ fn = "hwtimer_delay" /\ pc = 4 /\ fn' = fn /\ pc' = 5 /\ arg' = arg
        /\ elapsed' = elapsed /\ armed' = armed
    BY <1>4, <1>10 DEF Place
  <2>2. CallbackOK'
    BY <1>1, <1>4, <2>1, CallbackKept
  <2>3. UntilOK'
    BY <2>1 DEF UntilOK
  <2>4. ASSUME ~rash, arg < Half PROVE elapsed >= arg
    <3>1. After(time, (now + arg) % M) /\ Dist(now, time) <= elapsed
      BY <1>1, <2>1, <2>4 DEF DelayOK, Ready
    <3>2. Dist(now, time) >= arg
      BY <1>2, <2>4, <3>1, DelayNotEarly
    <3>3. elapsed \in Nat /\ arg \in Nat /\ Dist(now, time) \in Nat
      <4>1. Dist(now, time) \in Time
        BY <1>2, DistIs
      <4> QED
        BY <1>2, <4>1, Turn DEF Horizon
    <3> QED
      BY <3>1, <3>2, <3>3
  <2>5. DelayOK'
    BY <1>1, <1>4, <2>1, <2>4 DEF DelayOK
  <2> QED
    BY <1>5, <2>2, <2>3, <2>5 DEF IInv
<1> QED
  BY <1>6, <1>7, <1>8, <1>9, <1>10

\* An instruction that does not input leaves the time of the last input.
LEMMA StepNow ==
   ASSUME TypeOK, pc > 0, Step(now)
   PROVE  /\ prompt' = prompt /\ time' = time /\ hpc' = hpc /\ hnow' = hnow /\ rash' = rash
          /\ pc = Len(Code[fn]) => fn' = "idle" /\ pc' = 0
          /\ pc # Len(Code[fn]) => /\ fn' = fn /\ pc' = pc + 1 /\ arg' = arg /\ now' = now
                                   /\ armed' = armed /\ elapsed' = elapsed
          /\ now' \in Time /\ armed' \in BOOLEAN /\ prompt' \in BOOLEAN /\ rash' \in BOOLEAN
          /\ fn' \in DOMAIN Code \cup {"idle"}
          /\ pc' \in IF fn' = "idle" THEN {0} ELSE 1 .. Len(Code[fn'])
          /\ arg' \in Time /\ elapsed' \in 0 .. Horizon
          /\ time' \in Time /\ hpc' \in 0 .. 2 /\ hnow' \in Time
<1>1. PICK u \in Time : u = now /\ Step(u)
  BY DEF Step, TypeOK
<1> QED
  BY <1>1, StepIs

\* _hwtimer_change_trigger_time.
LEMMA ChangeInv ==
   ASSUME IInv, change_trigger_time PROVE IInv'
<1>1. /\ TypeOK /\ CallbackOK /\ UntilOK /\ DelayOK
      /\ hpc = 0 /\ pc > 0 /\ Code[fn][pc] = "setd" /\ Step(now)
      /\ data' = (IF fn = "hwtimer_delay" THEN (now + arg) % M ELSE arg)
      /\ due' = (IF fn \in Changes THEN data' ELSE due)
      /\ cond' = cond /\ enabled' = enabled
  BY DEF IInv, change_trigger_time, At
<1>2. time \in Time /\ arg \in Time /\ elapsed \in 0 .. Horizon /\ now \in Time /\ due \in Time
  BY <1>1 DEF TypeOK
<1>3. (now + arg) % M \in Time
  BY <1>2, SumIs
<1>4. /\ prompt' = prompt /\ time' = time /\ hpc' = hpc /\ hnow' = hnow /\ rash' = rash
      /\ pc = Len(Code[fn]) => fn' = "idle" /\ pc' = 0
      /\ pc # Len(Code[fn]) => /\ fn' = fn /\ pc' = pc + 1 /\ arg' = arg /\ now' = now
                               /\ armed' = armed /\ elapsed' = elapsed
      /\ now' \in Time /\ armed' \in BOOLEAN /\ prompt' \in BOOLEAN /\ rash' \in BOOLEAN
      /\ fn' \in DOMAIN Code \cup {"idle"}
      /\ pc' \in IF fn' = "idle" THEN {0} ELSE 1 .. Len(Code[fn'])
      /\ arg' \in Time /\ elapsed' \in 0 .. Horizon
      /\ time' \in Time /\ hpc' \in 0 .. 2 /\ hnow' \in Time
  BY <1>1, StepNow
<1>5. TypeOK'
  <2>1. data' \in Time /\ due' \in Time
    BY <1>1, <1>2, <1>3
  <2> QED
    BY <1>1, <1>4, <2>1 DEF TypeOK
<1>6. \/ Place("hwtimer_change_trigger_time", 1, 1, "setd")
      \/ Place("hwtimer_set_trigger_time", 2, 2, "setd")
      \/ Place("hwtimer_setup_interrupt_callback", 3, 3, "setd")
      \/ Place("hwtimer_wait_until", 2, 4, "setd")
      \/ Place("hwtimer_delay", 3, 5, "setd")
  BY <1>1, Places DEF Place
<1>7. CASE Place("hwtimer_change_trigger_time", 1, 1, "setd")
  <2>1. fn \in Changes /\ fn' = "idle" /\ fn # "hwtimer_delay"
    BY <1>4, <1>7 DEF Place, Changes
  <2>2. data' = arg /\ due' = arg
    BY <1>1, <2>1
  <2>3. CallbackOK'
    BY <1>1, <1>4, <2>1, <2>2 DEF CallbackOK, Shared, Sets
  <2>4. UntilOK' /\ DelayOK'
    BY <2>1 DEF UntilOK, DelayOK
  <2> QED
    BY <1>5, <2>3, <2>4 DEF IInv
<1>8. CASE \/ Place("hwtimer_set_trigger_time", 2, 2, "setd")
           \/ Place("hwtimer_setup_interrupt_callback", 3, 3, "setd")
  <2>1. fn \in Sets /\ fn \notin Changes /\ fn' = "idle" /\ fn # "hwtimer_delay" /\ fn \notin Shared
    BY <1>4, <1>8 DEF Place, Sets, Changes, Shared
  <2>2. data' = arg /\ due' = due
    BY <1>1, <2>1
  <2>3. ~rash => ~enabled /\ due = arg
    BY <1>1, <2>1 DEF CallbackOK
  <2>4. CallbackOK'
    BY <1>1, <1>4, <2>1, <2>2, <2>3 DEF CallbackOK, Sets
  <2>5. UntilOK' /\ DelayOK'
    BY <2>1 DEF UntilOK, DelayOK
  <2> QED
    BY <1>5, <2>4, <2>5 DEF IInv
<1>9. CASE Place("hwtimer_wait_until", 2, 4, "setd")
  <2>1. /\ fn = "hwtimer_wait_until" /\ pc = 2 /\ fn' = fn /\ pc' = 3 /\ arg' = arg
        /\ elapsed' = elapsed /\ fn \in Waits /\ fn \notin Sets /\ fn \notin Shared
    BY <1>4, <1>9 DEF Place, Waits, Sets, Shared
  <2>2. data' = arg
    BY <1>1, <2>1
  <2>3. CallbackOK'
    BY <1>1, <1>4, <2>1 DEF CallbackOK
  <2>4. DelayOK'
    BY <2>1 DEF DelayOK
  <2>5. UntilOK'
    BY <1>1, <1>4, <2>1, <2>2 DEF UntilOK
  <2> QED
    BY <1>5, <2>3, <2>4, <2>5 DEF IInv
<1>10. CASE Place("hwtimer_delay", 3, 5, "setd")
  <2>1. /\ fn = "hwtimer_delay" /\ pc = 3 /\ fn' = fn /\ pc' = 4 /\ arg' = arg
        /\ elapsed' = elapsed /\ now' = now /\ armed' = armed
        /\ fn \in Waits /\ fn \notin Sets /\ fn \notin Shared
    BY <1>4, <1>10 DEF Place, Waits, Sets, Shared
  <2>2. data' = (now + arg) % M
    BY <1>1, <2>1
  <2>3. CallbackOK'
    BY <1>1, <1>4, <2>1 DEF CallbackOK
  <2>4. UntilOK'
    BY <2>1 DEF UntilOK
  <2>5. DelayOK'
    BY <1>1, <1>4, <2>1, <2>2 DEF DelayOK
  <2> QED
    BY <1>5, <2>3, <2>4, <2>5 DEF IInv
<1> QED
  BY <1>6, <1>7, <1>8, <1>9, <1>10

\* The two instructions of set_condition.
SetAfter == At("after") /\ Step(now) /\ cond' = "after" /\ UNCHANGED <<data, enabled, due>>
SetNone == At("none") /\ Step(now) /\ cond' = "none" /\ UNCHANGED <<data, enabled, due>>

\* hwtimer_set_trigger_time and the waits: the condition.
LEMMA SetAfterInv ==
   ASSUME IInv, SetAfter PROVE IInv'
<1>2. /\ TypeOK /\ CallbackOK /\ UntilOK /\ DelayOK
      /\ hpc = 0 /\ pc > 0 /\ Code[fn][pc] = "after" /\ Step(now)
      /\ cond' = "after" /\ data' = data /\ enabled' = enabled /\ due' = due
  BY DEF IInv, At, SetAfter
<1>3. /\ prompt' = prompt /\ time' = time /\ hpc' = hpc /\ hnow' = hnow /\ rash' = rash
      /\ pc = Len(Code[fn]) => fn' = "idle" /\ pc' = 0
      /\ pc # Len(Code[fn]) => /\ fn' = fn /\ pc' = pc + 1 /\ arg' = arg /\ now' = now
                               /\ armed' = armed /\ elapsed' = elapsed
      /\ now' \in Time /\ armed' \in BOOLEAN /\ prompt' \in BOOLEAN /\ rash' \in BOOLEAN
      /\ fn' \in DOMAIN Code \cup {"idle"}
      /\ pc' \in IF fn' = "idle" THEN {0} ELSE 1 .. Len(Code[fn'])
      /\ arg' \in Time /\ elapsed' \in 0 .. Horizon
      /\ time' \in Time /\ hpc' \in 0 .. 2 /\ hnow' \in Time
  BY <1>2, StepNow
<1>4. TypeOK'
  BY <1>2, <1>3 DEF TypeOK
<1>5. \/ Place("hwtimer_set_trigger_time", 1, 2, "after")
      \/ Place("hwtimer_setup_interrupt_callback", 2, 3, "after")
      \/ Place("hwtimer_wait_until", 1, 4, "after")
      \/ Place("hwtimer_delay", 2, 5, "after")
  BY <1>2, Places DEF Place
<1>6. fn \notin Shared /\ fn # "hwtimer_enable_trigger"
  BY <1>5 DEF Place, Shared
<1>7. ~rash => ~enabled
  BY <1>2, <1>6, NotShared
<1>8. fn' = fn /\ arg' = arg /\ fn \in Sets \cup Waits
  <2>1. fn \in Sets \cup Waits
    BY <1>5 DEF Place, Sets, Waits
  <2>2. \/ pc = 1 /\ Len(Code[fn]) = 2
        \/ pc = 2 /\ Len(Code[fn]) = 3
        \/ pc = 1 /\ Len(Code[fn]) = 4
        \/ pc = 2 /\ Len(Code[fn]) = 5
    BY <1>5 DEF Place
  <2>3. pc # Len(Code[fn])
    <3>1. \A p, l : \/ p = 1 /\ l = 2
                    \/ p = 2 /\ l = 3
                    \/ p = 1 /\ l = 4
                    \/ p = 2 /\ l = 5
                    => p # l
      OBVIOUS
    <3> QED
      BY <2>2, <3>1
  <2> QED
    BY <1>3, <2>1, <2>3
<1>9. CallbackOK'
  BY <1>2, <1>3, <1>6, <1>7, <1>8 DEF CallbackOK
<1>10. CASE \/ Place("hwtimer_set_trigger_time", 1, 2, "after")
            \/ Place("hwtimer_setup_interrupt_callback", 2, 3, "after")
  <2>1. fn' \notin Waits
    BY <1>8, <1>10 DEF Place, Waits
  <2>2. UntilOK' /\ DelayOK'
    BY <2>1 DEF Waits, UntilOK, DelayOK
  <2> QED
    BY <1>4, <1>9, <2>2 DEF IInv
<1>11. CASE Place("hwtimer_wait_until", 1, 4, "after")
  <2>1. /\ fn = "hwtimer_wait_until" /\ pc = 1 /\ fn' = fn /\ pc' = 2 /\ arg' = arg
        /\ elapsed' = elapsed
    BY <1>3, <1>11 DEF Place
  <2>2. DelayOK'
    BY <2>1 DEF DelayOK
  <2>3. UntilOK'
    BY <1>2, <1>3, <2>1 DEF UntilOK
  <2> QED
    BY <1>4, <1>9, <2>2, <2>3 DEF IInv
<1>12. CASE Place("hwtimer_delay", 2, 5, "after")
  <2>1. /\ fn = "hwtimer_delay" /\ pc = 2 /\ fn' = fn /\ pc' = 3 /\ arg' = arg /\ now' = now
        /\ elapsed' = elapsed /\ armed' = armed
    BY <1>3, <1>12 DEF Place
  <2>2. UntilOK'
    BY <2>1 DEF UntilOK
  <2>3. DelayOK'
    BY <1>2, <1>3, <2>1 DEF DelayOK
  <2> QED
    BY <1>4, <1>9, <2>2, <2>3 DEF IInv
<1> QED
  BY <1>5, <1>10, <1>11, <1>12

\* hwtimer_clear_trigger_time, and the end of the waits.
LEMMA SetNoneInv ==
   ASSUME IInv, SetNone PROVE IInv'
<1>2. /\ TypeOK /\ CallbackOK /\ UntilOK /\ DelayOK
      /\ hpc = 0 /\ pc > 0 /\ Code[fn][pc] = "none" /\ Step(now)
      /\ cond' = "none" /\ data' = data /\ enabled' = enabled /\ due' = due
  BY DEF IInv, At, SetNone
<1>3. /\ prompt' = prompt /\ time' = time /\ hpc' = hpc /\ hnow' = hnow /\ rash' = rash
      /\ pc = Len(Code[fn]) => fn' = "idle" /\ pc' = 0
      /\ pc # Len(Code[fn]) => /\ fn' = fn /\ pc' = pc + 1 /\ arg' = arg /\ now' = now
                               /\ armed' = armed /\ elapsed' = elapsed
      /\ now' \in Time /\ armed' \in BOOLEAN /\ prompt' \in BOOLEAN /\ rash' \in BOOLEAN
      /\ fn' \in DOMAIN Code \cup {"idle"}
      /\ pc' \in IF fn' = "idle" THEN {0} ELSE 1 .. Len(Code[fn'])
      /\ arg' \in Time /\ elapsed' \in 0 .. Horizon
      /\ time' \in Time /\ hpc' \in 0 .. 2 /\ hnow' \in Time
  BY <1>2, StepNow
<1>4. TypeOK'
  BY <1>2, <1>3 DEF TypeOK
<1>5. \/ Place("hwtimer_clear_trigger_time", 1, 1, "none")
      \/ Place("hwtimer_wait_until", 4, 4, "none")
      \/ Place("hwtimer_delay", 5, 5, "none")
  BY <1>2, Places DEF Place
<1>6. fn \notin Shared /\ fn' = "idle"
  <2>1. fn \notin Shared
    BY <1>5 DEF Place, Shared
  <2>2. \/ pc = 1 /\ Len(Code[fn]) = 1
        \/ pc = 4 /\ Len(Code[fn]) = 4
        \/ pc = 5 /\ Len(Code[fn]) = 5
    BY <1>5 DEF Place
  <2>3. pc = Len(Code[fn])
    <3>1. \A p, l : \/ p = 1 /\ l = 1
                    \/ p = 4 /\ l = 4
                    \/ p = 5 /\ l = 5
                    => p = l
      OBVIOUS
    <3> QED
      BY <2>2, <3>1
  <2> QED
    BY <1>3, <2>1, <2>3
<1>7. ~rash => ~enabled
  BY <1>2, <1>6, NotShared
<1>8. "idle" \notin Sets /\ "idle" # "hwtimer_enable_trigger"
  BY DEF Sets
<1>9. CallbackOK'
  BY <1>2, <1>3, <1>6, <1>7, <1>8 DEF CallbackOK
<1>10. UntilOK' /\ DelayOK'
  BY <1>6 DEF UntilOK, DelayOK
<1> QED
  BY <1>4, <1>9, <1>10 DEF IInv

\* The two instructions on the condition.
LEMMA SetConditionInv ==
   ASSUME IInv, set_condition PROVE IInv'
<1>1. PICK c \in {"after", "none"} :
         At(c) /\ Step(now) /\ cond' = c /\ UNCHANGED <<data, enabled, due>>
  BY DEF set_condition
<1>2. CASE c = "after"
  BY <1>1, <1>2, SetAfterInv DEF SetAfter
<1>3. CASE c = "none"
  BY <1>1, <1>3, SetNoneInv DEF SetNone
<1> QED
  BY <1>2, <1>3

\* hwtimer_enable_trigger and hwtimer_disable_trigger.
LEMMA EnableInv ==
   ASSUME IInv, enable_trigger PROVE IInv'
<1>1. PICK b \in BOOLEAN : /\ At(IF b THEN "eeu" ELSE "edu") /\ Step(now)
                           /\ enabled' = b /\ UNCHANGED <<cond, data, due>>
  BY DEF enable_trigger
<1>2. /\ TypeOK /\ CallbackOK /\ UntilOK /\ DelayOK
      /\ hpc = 0 /\ pc > 0 /\ Step(now)
      /\ Code[fn][pc] = IF b THEN "eeu" ELSE "edu"
      /\ cond' = cond /\ data' = data /\ enabled' = b /\ due' = due
  BY <1>1 DEF IInv, At
<1>3. /\ prompt' = prompt /\ time' = time /\ hpc' = hpc /\ hnow' = hnow /\ rash' = rash
      /\ pc = Len(Code[fn]) => fn' = "idle" /\ pc' = 0
      /\ pc # Len(Code[fn]) => /\ fn' = fn /\ pc' = pc + 1 /\ arg' = arg /\ now' = now
                               /\ armed' = armed /\ elapsed' = elapsed
      /\ now' \in Time /\ armed' \in BOOLEAN /\ prompt' \in BOOLEAN /\ rash' \in BOOLEAN
      /\ fn' \in DOMAIN Code \cup {"idle"}
      /\ pc' \in IF fn' = "idle" THEN {0} ELSE 1 .. Len(Code[fn'])
      /\ arg' \in Time /\ elapsed' \in 0 .. Horizon
      /\ time' \in Time /\ hpc' \in 0 .. 2 /\ hnow' \in Time
  BY <1>2, StepNow
<1>4. TypeOK'
  BY <1>2, <1>3 DEF TypeOK
<1>5. /\ b => Code[fn][pc] = "eeu"
      /\ ~b => Code[fn][pc] = "edu"
  BY <1>2
<1>6. /\ b => Place("hwtimer_enable_trigger", 1, 1, "eeu")
      /\ ~b => Place("hwtimer_disable_trigger", 1, 1, "edu")
  BY <1>2, <1>5, Places DEF Place
<1>7. /\ fn' = "idle" /\ fn \notin Sets \cup Waits
      /\ b => fn = "hwtimer_enable_trigger"
  BY <1>3, <1>6 DEF Place, Sets, Waits
<1>8. "idle" \notin Sets /\ "idle" # "hwtimer_enable_trigger" /\ "idle" \in Shared
  BY DEF Sets, Shared
<1>9. CallbackOK'
  BY <1>2, <1>3, <1>7, <1>8 DEF CallbackOK
<1>10. UntilOK' /\ DelayOK'
  BY <1>7 DEF UntilOK, DelayOK
<1> QED
  BY <1>4, <1>9, <1>10 DEF IInv

\* hwtimer_setup_interrupt_callback: the callback is set up before the trigger.
LEMMA SetUpInv ==
   ASSUME IInv, set_up PROVE IInv'
<1>2. /\ TypeOK /\ CallbackOK /\ UntilOK /\ DelayOK
      /\ hpc = 0 /\ pc > 0 /\ Code[fn][pc] = "set_up" /\ Step(now)
      /\ cond' = cond /\ data' = data /\ enabled' = enabled /\ due' = due
  BY DEF IInv, set_up, At
<1>3. /\ prompt' = prompt /\ time' = time /\ hpc' = hpc /\ hnow' = hnow /\ rash' = rash
      /\ pc = Len(Code[fn]) => fn' = "idle" /\ pc' = 0
      /\ pc # Len(Code[fn]) => /\ fn' = fn /\ pc' = pc + 1 /\ arg' = arg /\ now' = now
                               /\ armed' = armed /\ elapsed' = elapsed
      /\ now' \in Time /\ armed' \in BOOLEAN /\ prompt' \in BOOLEAN /\ rash' \in BOOLEAN
      /\ fn' \in DOMAIN Code \cup {"idle"}
      /\ pc' \in IF fn' = "idle" THEN {0} ELSE 1 .. Len(Code[fn'])
      /\ arg' \in Time /\ elapsed' \in 0 .. Horizon
      /\ time' \in Time /\ hpc' \in 0 .. 2 /\ hnow' \in Time
  BY <1>2, StepNow
<1>4. TypeOK'
  BY <1>2, <1>3 DEF TypeOK
<1>5. Place("hwtimer_setup_interrupt_callback", 1, 3, "set_up")
  BY <1>2, Places DEF Place
<1>6. fn' = fn /\ arg' = arg /\ fn \notin Waits
  <2>1. fn \notin Waits
    BY <1>5 DEF Place, Waits
  <2>2. pc # Len(Code[fn])
    BY <1>5 DEF Place
  <2> QED
    BY <1>3, <2>1, <2>2
<1>7. CallbackOK'
  BY <1>2, <1>3, <1>6, CallbackKept
<1>8. UntilOK' /\ DelayOK'
  BY <1>6 DEF Waits, UntilOK, DelayOK
<1> QED
  BY <1>4, <1>7, <1>8 DEF IInv

(***************************************************************************)
(* The callback, time and the calls keep it                                *)
(***************************************************************************)
\* The interrupt is taken.
LEMMA EnterInv ==
   ASSUME IInv, Enter PROVE IInv'
<1>1. /\ TypeOK /\ CallbackOK /\ UntilOK /\ DelayOK /\ enabled /\ hpc' = 1
      /\ prompt' = prompt /\ time' = time /\ cond' = cond /\ data' = data /\ enabled' = enabled
      /\ fn' = fn /\ pc' = pc /\ arg' = arg /\ now' = now /\ armed' = armed
      /\ elapsed' = elapsed /\ hnow' = hnow /\ due' = due /\ rash' = rash
  BY DEF IInv, Enter, Interrupts, main
<1>2. TypeOK'
  <2>1. hpc' \in 0 .. 2
    BY <1>1
  <2> QED
    BY <1>1, <2>1 DEF TypeOK
<1>3. CallbackOK'
  BY <1>1 DEF CallbackOK
<1>4. UntilOK' /\ DelayOK'
  BY <1>1, WaitsKept
<1> QED
  BY <1>2, <1>3, <1>4 DEF IInv

\* The callback inputs the time.
LEMMA HandlerInputInv ==
   ASSUME IInv, HandlerInput PROVE IInv'
<1>1. /\ TypeOK /\ CallbackOK /\ UntilOK /\ DelayOK /\ hpc = 1 /\ hpc' = 2 /\ hnow' = time
      /\ prompt' = prompt /\ time' = time /\ cond' = cond /\ data' = data /\ enabled' = enabled
      /\ fn' = fn /\ pc' = pc /\ arg' = arg /\ now' = now /\ armed' = armed
      /\ elapsed' = elapsed /\ due' = due /\ rash' = rash
  BY DEF IInv, HandlerInput, main
<1>2. TypeOK'
  <2>1. hpc' \in 0 .. 2
    BY <1>1
  <2> QED
    BY <1>1, <2>1 DEF TypeOK
<1>3. enabled
  <2>1. hpc > 0
    BY <1>1
  <2> QED
    BY <1>1, <2>1 DEF CallbackOK
<1>4. CallbackOK'
  BY <1>1, <1>3 DEF CallbackOK
<1>5. UntilOK' /\ DelayOK'
  BY <1>1, WaitsKept
<1> QED
  BY <1>2, <1>4, <1>5 DEF IInv

\* The callback asks for the next interrupt: the timer is not in a wait.
LEMMA HandlerRearmInv ==
   ASSUME IInv, HandlerRearm PROVE IInv'
<1>1. /\ TypeOK /\ CallbackOK /\ UntilOK /\ DelayOK /\ hpc = 2 /\ hpc' = 0 /\ hnow' = 0
      /\ data' = (hnow + Period) % M /\ due' = data'
      /\ prompt' = prompt /\ time' = time /\ cond' = cond /\ enabled' = enabled
      /\ fn' = fn /\ pc' = pc /\ arg' = arg /\ now' = now /\ armed' = armed
      /\ elapsed' = elapsed /\ rash' = rash
  BY DEF IInv, HandlerRearm, main
<1>2. hnow \in Time /\ Period \in Time /\ 0 \in Time
  BY <1>1, Turn, WidthAssumption DEF TypeOK
<1>3. data' \in Time /\ due' \in Time
  BY <1>1, <1>2, SumIs
<1>4. TypeOK'
  <2>1. hpc' \in 0 .. 2 /\ hnow' \in Time
    BY <1>1, <1>2
  <2> QED
    BY <1>1, <1>3, <2>1 DEF TypeOK
<1>5. enabled
  <2>1. hpc > 0
    BY <1>1
  <2> QED
    BY <1>1, <2>1 DEF CallbackOK
<1>6. ~rash => fn \notin Sets \cup Waits
  BY <1>1, <1>5 DEF CallbackOK, Shared, Sets, Waits
<1>7. CallbackOK'
  BY <1>1, <1>5, <1>6 DEF CallbackOK
<1>8. UntilOK' /\ DelayOK'
  BY <1>1, <1>6 DEF Waits, UntilOK, DelayOK
<1> QED
  BY <1>4, <1>7, <1>8 DEF IInv

\* A tick in hwtimer_wait_until.
LEMMA UntilTick ==
   ASSUME NEW t \in Time, NEW a \in Time, NEW e \in 0 .. Horizon,
          NEW v, v = (t + 1) % M, NEW g, g = IF e < Horizon THEN e + 1 ELSE e
   PROVE  /\ e >= WaitFrom(Began(t, e), a) => g >= WaitFrom(Began(v, g), a)
          /\ /\ ~After(t, a)
             /\ After(Began(t, e), a) => e = 0
             /\ e <= WaitFrom(Began(t, e), a) + 1
             => /\ ~After(Began(v, g), a)
                /\ g <= WaitFrom(Began(v, g), a) + 1
<1>1. M \in Nat /\ M >= 4 /\ Horizon = M + 1
  BY Turn DEF Horizon
<1>2. e \in Nat /\ g \in 0 .. Horizon
  BY <1>1
<1>3. v \in Time
  BY DistTick
<1>4. PICK b \in Time : b = Began(t, e)
  BY BeganIs
<1>5. PICK c \in Time : c = Began(v, g)
  BY <1>2, <1>3, BeganIs
<1>6. e < Horizon => c = b
  BY <1>4, <1>5, BeganIs
<1>7. WaitFrom(c, a) \in 0 .. M - 1 /\ WaitFrom(b, a) \in 0 .. M - 1
  BY WaitIs
<1>8. ASSUME e >= WaitFrom(b, a) PROVE g >= WaitFrom(c, a)
  BY <1>1, <1>2, <1>6, <1>7, <1>8
<1>9. ASSUME ~After(t, a), After(b, a) => e = 0, e <= WaitFrom(b, a) + 1
      PROVE  ~After(c, a) /\ g <= WaitFrom(c, a) + 1
  <2>1. e <= WaitFrom(b, a) /\ ~After(b, a)
    BY <1>4, <1>9, UntilNotLate
  <2>2. e < Horizon
    BY <1>1, <1>2, <1>7, <2>1
  <2> QED
    BY <1>2, <1>6, <1>7, <2>1, <2>2
<1> QED
  BY <1>4, <1>5, <1>8, <1>9

\* A tick in hwtimer_delay.
LEMMA DelayTick ==
   ASSUME NEW n \in Time, NEW t \in Time, NEW a \in Time, NEW e \in 0 .. Horizon,
          NEW v, v = (t + 1) % M, NEW g, g = IF e < Horizon THEN e + 1 ELSE e
   PROVE  /\ Dist(n, t) <= e => Dist(n, v) <= g
          /\ e >= a => g >= a
          /\ /\ ~After(t, (n + a) % M) /\ e = Dist(n, t) /\ e <= a + 1
             /\ a > Half => e = 0
             => g = Dist(n, v) /\ g <= a + 1 /\ ~(a > Half)
<1>1. M \in Nat /\ M >= 4 /\ M = 2 * Half /\ Half \in Nat /\ Horizon = M + 1 /\ Time = 0 .. M - 1
  BY Turn DEF Horizon
<1>2. e \in Nat /\ a \in Nat /\ g \in Nat
  BY <1>1
<1>3. v \in Time
  BY DistTick
<1>4. PICK d \in Time : d = Dist(n, t)
  BY DistIs
<1>5. PICK f \in Time : f = Dist(n, v)
  BY <1>3, DistIs
<1>6. f = IF d = M - 1 THEN 0 ELSE d + 1
  BY <1>4, <1>5, DistTick
<1>7. ASSUME ~After(t, (n + a) % M), e = d, e <= a + 1, a > Half => e = 0
      PROVE  g = f /\ g <= a + 1 /\ ~(a > Half)
  <2>1. d <= a /\ a <= Half
    BY <1>4, <1>7, DelayNotLate
  <2> QED
    BY <1>1, <1>2, <1>6, <1>7, <2>1
<1>8. d <= e => f <= g
  BY <1>1, <1>2, <1>6
<1>9. e >= a => g >= a
  BY <1>1, <1>2
<1> QED
  BY <1>4, <1>5, <1>7, <1>8, <1>9

\* Time passes; on a prompt core, only while the core waits in an input.
LEMMA TickInv ==
   ASSUME IInv, Tick PROVE IInv'
<1>1. /\ TypeOK /\ CallbackOK /\ UntilOK /\ DelayOK
      /\ time' = (time + 1) % M
      /\ elapsed' = IF fn \in Waits /\ ~rash /\ elapsed < Horizon THEN elapsed + 1 ELSE elapsed
      /\ prompt' = prompt /\ cond' = cond /\ data' = data /\ enabled' = enabled
      /\ fn' = fn /\ pc' = pc /\ arg' = arg /\ now' = now /\ armed' = armed
      /\ hpc' = hpc /\ hnow' = hnow /\ due' = due /\ rash' = rash
  BY DEF IInv, Tick, handler
<1>2. prompt => pc = 0 \/ (pc > 0 /\ Code[fn][pc] = "in" /\ ~Ready)
  BY DEF Tick, At
<1>3. time \in Time /\ arg \in Time /\ elapsed \in 0 .. Horizon /\ now \in Time
  BY <1>1 DEF TypeOK
<1>4. time' \in Time
  BY <1>1, <1>3, DistTick
<1>5. elapsed' \in 0 .. Horizon
  BY <1>1, <1>3, Turn DEF Horizon
<1>6. TypeOK'
  BY <1>1, <1>4, <1>5 DEF TypeOK
<1>7. CallbackOK'
  BY <1>1, CallbackKept
<1>8. ASSUME fn \in Waits, ~rash PROVE elapsed' = IF elapsed < Horizon THEN elapsed + 1 ELSE elapsed
  BY <1>1, <1>8
<1>9. UntilOK'
  <2>1. SUFFICES ASSUME fn = "hwtimer_wait_until", ~rash PROVE UntilOK'
    BY <1>1 DEF UntilOK
  <2>2. elapsed' = IF elapsed < Horizon THEN elapsed + 1 ELSE elapsed
    BY <1>8, <2>1 DEF Waits
  <2>3. /\ pc >= 2 => cond = "after"
        /\ pc >= 3 => data = arg
        /\ pc = 4 => elapsed >= WaitFrom(Began(time, elapsed), arg)
        /\ prompt => /\ pc <= 2 => elapsed = 0
                     /\ After(Began(time, elapsed), arg) => elapsed = 0
                     /\ elapsed <= WaitFrom(Began(time, elapsed), arg) + 1
    BY <1>1, <2>1 DEF UntilOK
  <2>4. pc = 4 => elapsed' >= WaitFrom(Began(time', elapsed'), arg)
    BY <1>1, <1>3, <2>2, <2>3, UntilTick
  <2>5. ASSUME prompt
        PROVE  /\ ~(pc <= 2)
               /\ ~After(Began(time', elapsed'), arg)
               /\ elapsed' <= WaitFrom(Began(time', elapsed'), arg) + 1
    <3>1. Place("hwtimer_wait_until", 3, 4, "in")
      BY <1>1, <1>2, <2>1, <2>5, Places DEF Place
    <3>2. pc = 3 /\ ~(pc <= 2) /\ pc >= 3
      BY <3>1 DEF Place
    <3>3. ~After(time, arg)
      BY <1>2, <2>3, <2>5, <3>2 DEF Ready
    <3> QED
      BY <1>1, <1>3, <2>2, <2>3, <2>5, <3>2, <3>3, UntilTick
  <2> QED
    BY <1>1, <2>3, <2>4, <2>5 DEF UntilOK
<1>10. DelayOK'
  <2>1. SUFFICES ASSUME fn = "hwtimer_delay", ~rash PROVE DelayOK'
    BY <1>1 DEF DelayOK
  <2>2. elapsed' = IF elapsed < Horizon THEN elapsed + 1 ELSE elapsed
    BY <1>8, <2>1 DEF Waits
  <2>3. /\ pc \in {2, 3, 4} => Dist(now, time) <= elapsed
        /\ pc >= 3 => cond = "after"
        /\ pc = 4 => data = (now + arg) % M
        /\ pc = 5 /\ arg < Half => elapsed >= arg
        /\ prompt /\ ~armed => /\ pc = 1 => cond = "none"
                               /\ pc \in {2, 3, 4} => elapsed = Dist(now, time)
                               /\ elapsed <= arg + 1
                               /\ arg > Half => elapsed = 0
    BY <1>1, <2>1 DEF DelayOK
  <2>4. /\ Dist(now, time) <= elapsed => Dist(now, time') <= elapsed'
        /\ elapsed >= arg => elapsed' >= arg
    BY <1>1, <1>3, <2>2, DelayTick
  <2>5. ASSUME prompt, ~armed
        PROVE  /\ pc = 4
               /\ elapsed' = Dist(now, time') /\ elapsed' <= arg + 1 /\ ~(arg > Half)
    <3>1. Place("hwtimer_delay", 1, 5, "in") \/ Place("hwtimer_delay", 4, 5, "in")
      BY <1>1, <1>2, <2>1, <2>5, Places DEF Place
    <3>2. ~Ready
      BY <1>1, <1>2, <2>1, <2>5, Places
    <3>3. pc # 1
      BY <2>3, <2>5, <3>2 DEF Ready
    <3>4. pc = 4
      BY <3>1, <3>3 DEF Place
    <3>5. ~After(time, (now + arg) % M)
      BY <2>3, <3>2, <3>4 DEF Ready
    <3>6. elapsed = Dist(now, time) /\ elapsed <= arg + 1 /\ (arg > Half => elapsed = 0)
      BY <2>3, <2>5, <3>4
    <3> QED
      BY <1>1, <1>3, <2>2, <3>4, <3>5, <3>6, DelayTick
  <2> QED
    BY <1>1, <2>3, <2>4, <2>5 DEF DelayOK
<1> QED
  BY <1>6, <1>7, <1>9, <1>10 DEF IInv

\* The arguments of the calls are times.
LEMMA ArgumentsAre == \A f \in DOMAIN Code : Arguments(f) \subseteq Time
<1> SUFFICES ASSUME NEW f \in DOMAIN Code PROVE Arguments(f) \subseteq Time
  OBVIOUS
<1>1. 0 .. MaxPeriod \subseteq Time /\ {0} \subseteq Time
  BY Turn, WidthAssumption
<1>2. \/ Arguments(f) = 0 .. MaxPeriod
      \/ Arguments(f) = Time
      \/ Arguments(f) = {0}
  BY DEF Arguments
<1> QED
  BY <1>1, <1>2

\* A call is made.
LEMMA CallInv ==
   ASSUME IInv, NEW f \in DOMAIN Code, Call(f) PROVE IInv'
<1>1. /\ TypeOK /\ CallbackOK /\ pc = 0 /\ hpc = 0 /\ ~rash
      /\ fn' = f /\ pc' = 1 /\ elapsed' = 0 /\ now' = 0 /\ arg' \in Arguments(f)
      /\ armed' = (cond = "after")
      /\ due' = (IF f \in Sets THEN arg' ELSE due)
      /\ rash' = (\/ enabled /\ f \notin Changes \cup {"hwtimer_disable_trigger"}
                  \/ f = "hwtimer_enable_trigger" /\ cond = "none")
      /\ prompt' = prompt /\ time' = time /\ cond' = cond /\ data' = data
      /\ enabled' = enabled /\ hpc' = hpc /\ hnow' = hnow
  BY DEF IInv, Call, handler
<1>2. 0 \in Time /\ 0 \in 0 .. Horizon
  BY Turn DEF Horizon
<1>3. arg' \in Time
  BY <1>1, ArgumentsAre
<1>4. pc' \in 1 .. Len(Code[f]) /\ f # "idle"
  <2>1. Len(Code[f]) \in {1, 2, 3, 4, 5}
    BY Calls, ShortCode, SetCode, UntilCode, DelayCode
  <2>4. \A k \in {1, 2, 3, 4, 5} : 1 \in 1 .. k
    OBVIOUS
  <2>2. 1 \in 1 .. Len(Code[f])
    BY <2>1, <2>4
  <2>3. f # "idle"
    BY Calls
  <2> QED
    BY <1>1, <2>2, <2>3
<1>5. due' \in Time
  BY <1>1, <1>3 DEF TypeOK
<1>6. armed' \in BOOLEAN /\ rash' \in BOOLEAN
  BY <1>1
<1>7. TypeOK'
  BY <1>1, <1>2, <1>3, <1>4, <1>5, <1>6 DEF TypeOK
<1>8. fn = "idle"
  BY <1>1, Places
<1>9. CallbackOK'
  <2>1. hpc' > 0 => enabled'
    BY <1>1
  <2>2. "idle" \notin Sets \cup Waits
    BY DEF Sets, Waits
  <2>3. /\ enabled => cond = "after"
        /\ cond = "after" => data = due
    BY <1>1, <1>8, <2>2 DEF CallbackOK
  <2>4. ASSUME ~rash', enabled PROVE f \in Shared
    BY <1>1, <2>4 DEF Changes, Shared
  <2>5. ASSUME ~rash', f = "hwtimer_enable_trigger" PROVE cond = "after"
    BY <1>1, <2>5 DEF TypeOK
  <2>6. f \in Sets => due' = arg'
    BY <1>1
  <2>7. cond = "after" /\ f \notin Sets => data = due'
    BY <1>1, <2>3
  <2> QED
    BY <1>1, <2>1, <2>3, <2>4, <2>5, <2>6, <2>7 DEF CallbackOK
<1>10. UntilOK'
  <2>1. PICK b \in Time : b = Began(time', elapsed')
    BY <1>2, <1>7, BeganIs DEF TypeOK
  <2>2. PICK w \in Nat : w = WaitFrom(b, arg')
    BY <1>3, Turn, WaitIs
  <2>3. 0 <= w + 1
    BY <2>2
  <2> QED
    BY <1>1, <2>1, <2>2, <2>3 DEF UntilOK
<1>11. DelayOK'
  <2>1. arg' \in Nat
    BY <1>3, Turn
  <2>2. ~armed' => cond' = "none"
    BY <1>1 DEF TypeOK
  <2>4. \A n \in Nat : 0 <= n + 1
    OBVIOUS
  <2>3. 0 <= arg' + 1
    BY <2>1, <2>4
  <2> QED
    BY <1>1, <2>2, <2>3 DEF DelayOK
<1> QED
  BY <1>7, <1>9, <1>10, <1>11 DEF IInv

\* Every step keeps the invariant.
LEMMA NextInv ==
   ASSUME IInv, [Next]_vars PROVE IInv'
<1>1. CASE UNCHANGED vars
  <2>1. /\ prompt' = prompt /\ time' = time /\ cond' = cond /\ data' = data /\ enabled' = enabled
        /\ fn' = fn /\ pc' = pc /\ arg' = arg /\ now' = now /\ armed' = armed
        /\ elapsed' = elapsed /\ hpc' = hpc /\ hnow' = hnow /\ due' = due /\ rash' = rash
    BY <1>1 DEF vars, main, handler
  <2>2. TypeOK' /\ CallbackOK'
    BY <2>1 DEF IInv, TypeOK, CallbackOK
  <2>3. UntilOK' /\ DelayOK'
    BY <2>1, WaitsKept DEF IInv
  <2> QED
    BY <2>2, <2>3 DEF IInv
<1>2. CASE Tick
  BY <1>2, TickInv
<1>3. CASE Core
  BY <1>3, GetTimeInv, ChangeInv, SetConditionInv, EnableInv, SetUpInv, EnterInv,
     HandlerInputInv, HandlerRearmInv DEF Core
<1>4. CASE \E f \in DOMAIN Code : Call(f)
  BY <1>4, CallInv
<1> QED
  BY <1>1, <1>2, <1>3, <1>4 DEF Next

\* It holds at the start.
LEMMA InitInv == ASSUME Init PROVE IInv
<1>1. 0 \in Time /\ 0 \in 0 .. Horizon /\ 0 \in 0 .. 2
  BY Turn DEF Horizon
<1>2. TypeOK
  BY <1>1 DEF Init, Idle, TypeOK
<1>3. CallbackOK
  BY DEF Init, Idle, CallbackOK, Sets
<1>4. UntilOK /\ DelayOK
  BY DEF Init, Idle, UntilOK, DelayOK
<1> QED
  BY <1>2, <1>3, <1>4 DEF IInv

(***************************************************************************)
(* The theorems                                                            *)
(***************************************************************************)
\* The invariant of the calls and the callback.
THEOREM CallsKnowTheTime == Spec => []IInv
<1>1. Init => IInv
  BY InitInv
<1>2. IInv /\ [Next]_vars => IInv'
  BY NextInv
<1> QED
  BY <1>1, <1>2, PTL DEF Spec

\* The types of the timer.
THEOREM TimerInvariant == Spec => []TypeOK
<1>1. IInv => TypeOK
  BY DEF IInv
<1> QED
  BY <1>1, CallsKnowTheTime, PTL

\* A wait returns by clearing the condition, and nothing else returns from it.
LEMMA ReturnsAre ==
   ASSUME IInv, [Next]_vars, Returns
   PROVE  \/ Place("hwtimer_wait_until", 4, 4, "none")
          \/ Place("hwtimer_delay", 5, 5, "none")
<1>1. /\ pc > 0 /\ pc' = 0 /\ fn \in Waits /\ TypeOK
  BY DEF Returns, IInv
<1>2. pc = Len(Code[fn]) \/ pc' = pc + 1 \/ pc' = pc \/ pc' = 1
  BY DEF Next, Tick, Core, Enter, HandlerInput, HandlerRearm, Call, get_time, change_trigger_time,
         set_condition, enable_trigger, set_up, Step, main, vars
<1>3. pc = Len(Code[fn])
  <2>1. pc \in Nat
    BY <1>1, Places
  <2> QED
    BY <1>1, <1>2, <2>1
<1>5. fn = "hwtimer_wait_until" \/ fn = "hwtimer_delay"
  BY <1>1 DEF Waits
<1>6. CASE fn = "hwtimer_wait_until"
  <2>1. pc = 4
    BY <1>3, <1>6, UntilCode
  <2> QED
    BY <1>6, <2>1, UntilCode DEF Place
<1>7. CASE fn = "hwtimer_delay"
  <2>1. pc = 5
    BY <1>3, <1>7, DelayCode
  <2> QED
    BY <1>7, <2>1, DelayCode DEF Place
<1> QED
  BY <1>5, <1>6, <1>7

\* hwtimer_wait_until and hwtimer_delay never return early.
THEOREM WaitsAreNeverEarly == Spec => NeverEarly
<1>1. ASSUME IInv, [Next]_vars, Returns, fn = "hwtimer_delay" => arg < Half
      PROVE  elapsed >= Wait
  <2>1. ~rash /\ UntilOK /\ DelayOK
    BY <1>1 DEF Returns, IInv
  <2>2. CASE Place("hwtimer_wait_until", 4, 4, "none")
    <3>1. fn = "hwtimer_wait_until" /\ pc = 4
      BY <2>2 DEF Place
    <3>2. elapsed >= WaitFrom(Began(time, elapsed), arg)
      BY <2>1, <3>1 DEF UntilOK
    <3> QED
      BY <3>1, <3>2 DEF Wait, CallTime, WaitFrom, Began, Dist
  <2>3. CASE Place("hwtimer_delay", 5, 5, "none")
    BY <1>1, <2>1, <2>3 DEF Place, DelayOK, Wait
  <2> QED
    BY <1>1, <2>2, <2>3, ReturnsAre
<1>2. IInv /\ [Next]_vars => [Returns /\ (fn = "hwtimer_delay" => arg < Half) => elapsed >= Wait]_vars
  BY <1>1
<1> QED
  BY <1>2, CallsKnowTheTime, PTL DEF Spec, NeverEarly

\* Nor late, on a core that nothing interrupts.
THEOREM WaitsAreOnTime == Spec => OnTime
<1>1. ASSUME IInv, [Next]_vars, Returns, prompt, fn = "hwtimer_delay" => ~armed
      PROVE  elapsed <= Wait + 1
  <2>1. ~rash /\ UntilOK /\ DelayOK
    BY <1>1 DEF Returns, IInv
  <2>2. CASE Place("hwtimer_wait_until", 4, 4, "none")
    <3>1. fn = "hwtimer_wait_until" /\ pc = 4
      BY <2>2 DEF Place
    <3>2. elapsed <= WaitFrom(Began(time, elapsed), arg) + 1
      BY <1>1, <2>1, <3>1 DEF UntilOK
    <3> QED
      BY <3>1, <3>2 DEF Wait, CallTime, WaitFrom, Began, Dist
  <2>3. CASE Place("hwtimer_delay", 5, 5, "none")
    BY <1>1, <2>1, <2>3 DEF Place, DelayOK, Wait
  <2> QED
    BY <1>1, <2>2, <2>3, ReturnsAre
<1>2. IInv /\ [Next]_vars =>
         [Returns /\ prompt /\ (fn = "hwtimer_delay" => ~armed) => elapsed <= Wait + 1]_vars
  BY <1>1
<1> QED
  BY <1>2, CallsKnowTheTime, PTL DEF Spec, OnTime

\* The callback never runs before the time it was asked for.
THEOREM CallbacksAreNeverEarly == Spec => FiresOnTime
<1>1. ASSUME IInv, [Next]_vars, hpc = 0, hpc' > 0, ~rash
      PROVE  After(time, due)
  <2>1. Enter
    <3>1. Enter \/ hpc' = hpc \/ hpc = 1 \/ hpc' = 0
      BY <1>1 DEF Next, Tick, Core, HandlerInput, HandlerRearm, Call, get_time,
             change_trigger_time, set_condition, enable_trigger, set_up, Step, handler, vars
    <3> QED
      BY <1>1, <3>1
  <2>2. enabled /\ Ready /\ CallbackOK
    BY <1>1, <2>1 DEF Enter, Interrupts, IInv
  <2>3. fn \notin Sets \cup Waits /\ cond = "after"
    BY <1>1, <2>2 DEF CallbackOK, Shared, Sets, Waits
  <2>4. data = due
    BY <1>1, <2>2, <2>3 DEF CallbackOK
  <2> QED
    BY <2>2, <2>3, <2>4 DEF Ready
<1>2. IInv /\ [Next]_vars => [hpc = 0 /\ hpc' > 0 /\ ~rash => After(time, due)]_vars
  BY <1>1
<1> QED
  BY <1>2, CallsKnowTheTime, PTL DEF Spec, FiresOnTime

=============================================================================
