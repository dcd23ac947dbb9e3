------------------------------ MODULE HwTimer ------------------------------
(***************************************************************************)
(* A hardware timer and the calls of xcore_c_hwtimer.h on it, one          *)
(* instruction at a time, by the core that owns it, and an interrupt       *)
(* callback on it that, like hwtimer_handler of the tests, sets the next   *)
(* trigger time.  Time is a counter of 32 bits that wraps; what matters is *)
(* how far it goes in half a turn.  Between two instructions any time may  *)
(* pass, or, on a prompt core, none.                                       *)
(***************************************************************************)
EXTENDS Naturals, Sequences

CONSTANTS Half,      \* half a turn of the counter: 2 ^ 31 on the device
          MaxPeriod, \* bound: longest period given to hwtimer_delay
          Period     \* bound: the period of the callback, below half a turn

ASSUME WidthAssumption == /\ Half \in Nat \ {0, 1} /\ MaxPeriod \in 0 .. 2 * Half - 1
                          /\ Period \in 1 .. Half - 1

VARIABLES prompt,   \* time passes only while the core cannot go on
          time,     \* the counter
          cond,     \* the timer's condition, XS1_SETC_COND_NONE or _AFTER
          data,     \* its trigger time
          enabled,  \* its trigger is enabled, and interrupts are unmasked
          fn,       \* the call the core is in
          pc,       \* the next instruction of that call; 0: in no call
          arg,      \* its time argument
          now,      \* the last time it input; 0 before
          armed,    \* a trigger was set when it was made
          elapsed,  \* if it waits, ticks since its start, up to Horizon
          hpc,      \* the callback's next instruction; 0: not running
          hnow,     \* the time the callback input
          due,      \* the time for which an interrupt was asked last
          rash      \* the user did not disable the trigger, or set none

main == <<fn, pc, arg, now, armed, elapsed>>
handler == <<hpc, hnow>>
vars == <<prompt, time, cond, data, enabled, main, handler, due, rash>>

M == 2 * Half
Horizon == M + 1
Time == 0 .. M - 1

\* Mutant: hwtimer_delay does not read the time it starts at.
CodeNoStart == [hwtimer_get_time                 |-> <<"in">>,
                hwtimer_set_trigger_time         |-> <<"after", "setd">>,
                hwtimer_change_trigger_time      |-> <<"setd">>,
                hwtimer_clear_trigger_time       |-> <<"none">>,
                hwtimer_wait_until               |-> <<"after", "setd", "in", "none">>,
                hwtimer_delay                    |-> <<"after", "setd", "in", "none">>,
                hwtimer_setup_interrupt_callback |-> <<"set_up", "after", "setd">>,
                hwtimer_enable_trigger           |-> <<"eeu">>,
                hwtimer_disable_trigger          |-> <<"edu">>]

\* Mutant: _hwtimer_set_trigger_time does not set the time, but in hwtimer_delay.
CodeNoTime == [hwtimer_get_time                 |-> <<"in">>,
               hwtimer_set_trigger_time         |-> <<"after">>,
               hwtimer_change_trigger_time      |-> <<"setd">>,
               hwtimer_clear_trigger_time       |-> <<"none">>,
               hwtimer_wait_until               |-> <<"after", "in", "none">>,
               hwtimer_delay                    |-> <<"in", "after", "setd", "in", "none">>,
               hwtimer_setup_interrupt_callback |-> <<"set_up", "after">>,
               hwtimer_enable_trigger           |-> <<"eeu">>,
               hwtimer_disable_trigger          |-> <<"edu">>]

\* The instructions of each call: "in" is _hwtimer_get_time, "setd" is
\* _hwtimer_change_trigger_time, "eeu" and "edu" enable and disable the trigger,
\* "set_up" are the instructions of _resource_setup_interrupt_callback.
Code == [hwtimer_get_time                 |-> <<"in">>,
         hwtimer_set_trigger_time         |-> <<"after", "setd">>,
         hwtimer_change_trigger_time      |-> <<"setd">>,
         hwtimer_clear_trigger_time       |-> <<"none">>,
         hwtimer_wait_until               |-> <<"after", "setd", "in", "none">>,
         hwtimer_delay                    |-> <<"in", "after", "setd", "in", "none">>,
         hwtimer_setup_interrupt_callback |-> <<"set_up", "after", "setd">>,
         hwtimer_enable_trigger           |-> <<"eeu">>,
         hwtimer_disable_trigger          |-> <<"edu">>]

Waits == {"hwtimer_wait_until", "hwtimer_delay"}
Sets == {"hwtimer_set_trigger_time", "hwtimer_setup_interrupt_callback"}
Changes == {"hwtimer_change_trigger_time"}

TypeOK == /\ time \in Time /\ data \in Time /\ now \in Time
          /\ cond \in {"none", "after"}
          /\ {armed, prompt, enabled, rash} \subseteq BOOLEAN
          /\ fn \in DOMAIN Code \cup {"idle"}
          /\ pc \in IF fn = "idle" THEN {0} ELSE 1 .. Len(Code[fn])
          /\ arg \in Time
          /\ elapsed \in 0 .. Horizon
          /\ hpc \in 0 .. 2 /\ hnow \in Time /\ due \in Time

Idle == fn = "idle" /\ pc = 0 /\ arg = 0 /\ now = 0 /\ armed = FALSE /\ elapsed = 0
Init == /\ prompt \in BOOLEAN /\ time \in Time /\ data = 0 /\ cond = "none"
        /\ enabled = FALSE /\ Idle
        /\ hpc = 0 /\ hnow = 0 /\ due = 0 /\ rash = FALSE

\* Mutant: the two times are compared as unsigned numbers.
AfterUnsigned(t, u) == t > u

\* Time t comes after time u: less than half a turn of the counter.
After(t, u) == (t + M - u) % M \in 1 .. Half - 1

Ready == cond = "after" => After(time, data)
At(i) == hpc = 0 /\ pc > 0 /\ Code[fn][pc] = i
Interrupts == hpc = 0 /\ enabled /\ Ready

Tick == /\ prompt => hpc = 0 /\ ~Interrupts /\ (pc = 0 \/ (At("in") /\ ~Ready))
        /\ time' = (time + 1) % M
        /\ elapsed' = IF fn \in Waits /\ ~rash /\ elapsed < Horizon THEN elapsed + 1 ELSE elapsed
        /\ UNCHANGED <<prompt, cond, data, enabled, fn, pc, arg, now, armed, handler, due, rash>>

Arguments(f) == CASE f = "hwtimer_delay" -> 0 .. MaxPeriod
                  [] f \in Sets \cup Changes \cup {"hwtimer_wait_until"} -> Time
                  [] OTHER -> {0}

\* A user who expects an interrupt may change its time or disable it, and
\* enables a trigger that is set; any other call is rash, and the last modelled.
Call(f) == /\ pc = 0 /\ hpc = 0 /\ ~rash
           /\ fn' = f /\ pc' = 1 /\ elapsed' = 0 /\ now' = 0
           /\ arg' \in Arguments(f)
           /\ armed' = (cond = "after")
           /\ due' = IF f \in Sets THEN arg' ELSE due
           /\ rash' = \/ enabled /\ f \notin Changes \cup {"hwtimer_disable_trigger"}
                      \/ f = "hwtimer_enable_trigger" /\ cond = "none"
           /\ UNCHANGED <<prompt, time, cond, data, enabled, handler>>

Return == fn' = "idle" /\ pc' = 0 /\ arg' = 0 /\ now' = 0 /\ armed' = FALSE /\ elapsed' = 0
Step(t) == /\ IF pc = Len(Code[fn]) THEN Return
              ELSE pc' = pc + 1 /\ now' = t /\ UNCHANGED <<fn, arg, armed, elapsed>>
           /\ UNCHANGED <<prompt, time, handler, rash>>

get_time == At("in") /\ Ready /\ Step(time) /\ UNCHANGED <<cond, data, enabled, due>>

\* Mutant: the sum of hwtimer_delay is not cut to the width of the counter.
change_trigger_timeNoWrap ==
   /\ At("setd") /\ Step(now)
   /\ data' = IF fn = "hwtimer_delay" THEN now + arg ELSE arg
   /\ due' = IF fn \in Changes THEN data' ELSE due
   /\ UNCHANGED <<cond, enabled>>

\* hwtimer_delay computes until = start + period in 32 bits.
change_trigger_time ==
   /\ At("setd") /\ Step(now)
   /\ data' = IF fn = "hwtimer_delay" THEN (now + arg) % M ELSE arg
   /\ due' = IF fn \in Changes THEN data' ELSE due
   /\ UNCHANGED <<cond, enabled>>

set_condition == \E c \in {"after", "none"} :
                    At(c) /\ Step(now) /\ cond' = c /\ UNCHANGED <<data, enabled, due>>

enable_trigger == \E b \in BOOLEAN :
                     /\ At(IF b THEN "eeu" ELSE "edu") /\ Step(now)
                     /\ enabled' = b
                     /\ UNCHANGED <<cond, data, due>>

\* Module Interrupt is about what this does to the vector and data.
set_up == At("set_up") /\ Step(now) /\ UNCHANGED <<cond, data, enabled, due>>

\* The callback runs; hwtimer_get_time(t, &time);
\* hwtimer_change_trigger_time(t, time + period).
Enter == /\ Interrupts /\ hpc' = 1
         /\ UNCHANGED <<prompt, time, cond, data, enabled, main, hnow, due, rash>>

HandlerInput == /\ hpc = 1 /\ Ready
                /\ hnow' = time /\ hpc' = 2
                /\ UNCHANGED <<prompt, time, cond, data, enabled, main, due, rash>>

HandlerRearm == /\ hpc = 2
                /\ data' = (hnow + Period) % M /\ due' = data'
                /\ hpc' = 0 /\ hnow' = 0
                /\ UNCHANGED <<prompt, time, cond, enabled, main, rash>>

Core == \/ get_time \/ change_trigger_time \/ set_condition
        \/ enable_trigger \/ set_up
        \/ Enter \/ HandlerInput \/ HandlerRearm
Next == Tick \/ Core \/ \E f \in DOMAIN Code : Call(f)

Spec == Init /\ [][Next]_vars

\* Time passes and instructions issue.
FairSpec == Spec /\ WF_vars(Tick) /\ WF_vars(Core)

(***************************************************************************)
(* Properties                                                              *)
(***************************************************************************)
Returns == pc > 0 /\ pc' = 0 /\ fn \in Waits /\ ~rash

\* How long the call was to wait, seen from the moment it was made: a time
\* less than half a turn ago has already been reached.
CallTime == (time + 2 * M - elapsed) % M
Wait == IF fn = "hwtimer_delay" THEN arg
        ELSE IF After(CallTime, arg) THEN 0
        ELSE (arg + M - CallTime) % M

\* hwtimer_delay for less than half a turn, and hwtimer_wait_until, never
\* return early, whatever the counter's wrap-around, an older trigger or an
\* interrupted core do.
NeverEarly == [][Returns /\ (fn = "hwtimer_delay" => arg < Half) => elapsed >= Wait]_vars

\* Nor late: on a core that nothing interrupts they return on the tick after,
\* unless hwtimer_delay finds an older trigger on the timer.
OnTime == [][/\ Returns /\ prompt
             /\ fn = "hwtimer_delay" => ~armed
             => elapsed <= Wait + 1]_vars

\* The callback runs at the time it was asked for or later, though the trigger
\* has an older time when hwtimer_set_trigger_time sets its condition, and
\* the user may change the time while an interrupt is due.
FiresOnTime == [][hpc = 0 /\ hpc' > 0 /\ ~rash => After(time, due)]_vars

\* Every call returns on a core that nothing interrupts, and an interrupt that
\* is enabled comes unless the user makes a call: a trigger time is reached
\* within a turn of the counter, also when it is set in the past.
CallsReturn == /\ (prompt /\ pc > 0 /\ ~rash) ~> pc = 0
               /\ (prompt /\ enabled /\ pc = 0) ~> (pc > 0 \/ hpc > 0)
=============================================================================
