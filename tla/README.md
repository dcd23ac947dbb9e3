# A TLA+ development of lib_xcore_c

lib_xcore_c gives C programs the hardware of an XMOS xCORE tile: channels between
cores, ports, clock blocks, timers, locks, events and interrupts. Almost every call
is a few instructions of inline assembly. What is hard is not in any one call: it is
in how the instructions of two cores, or of one core and the event hardware, meet.
That is what these modules model: **one action per instruction** (or per instruction
kind) of each call, on each core, over the state of the hardware the calls touch.

Paths below are relative to `src/lib_xcore_c/`, those of `tests/` to `src/`.

## 1. Inventory

| Component | Files | State | Operations | Hard behaviour | What makes it correct | Module |
|---|---|---|---|---|---|---|
| Token link, exception policy | `src/xcore_c_chan_impl.h`, `src/xcore_c_exception_impl.h` | input buffer of each chan-end, its destination; a core that trapped | out, outt, outct, in, int, chkct; `RETURN_EXCEPTION_OR_ERROR` | outputs pause on a full buffer, inputs on an empty one; a token of the wrong kind traps | bounded buffers, order kept | TokenLink |
| Handshaken channel calls | `api/xcore_c_channel.h` | two cores' progress in their calls, the receiver's buffer | `chan_out_*`, `chan_in_*` | two handshakes per call, interleaved with those of the next; calls that do not match | synchronous transfer; no exception; nothing left between calls; no silent mismatch | Channel, Rendezvous, ChannelProofs |
| Transactions | `api/xcore_c_channel_transaction.h` | `transacting_chanend_t` (`c`, `last_out`) at both ends | init as master / slave, `t_chan_out_*`, `t_chan_in_*`, complete | `last_out` of the two ends must change in step; both orders of the completion | one right to output; data in place; quiescent after; no deadlock; no silent mismatch | Transaction, Dialogue, MCTransaction, TransactionProofs |
| Allocation, streaming channels | `api/xcore_c_channel_streaming.h`, `api/xcore_c_chanend.h`, `chan_alloc` and `chan_free` | pool of chan-ends, handles, destinations, buffers | `s_chan_alloc`, `s_chan_free`, `chan_free`, `s_chan_out_*`, `s_chan_in_*`, control tokens | tasks allocate concurrently; a free fails half way; tokens pending at a free | no leak, no sharing, empty chan-ends recycled | ChanendPool, ChanendPoolProofs |
| Select events | `api/xcore_c_select.h`, `src/xcore_c_select.S`, `src/xcore_c_resource*` | vector, enable bit, readiness of each resource; the core's EEBLE bit; where the core is | setup, enable, disable, `select_wait`, `select_no_wait`, the ordered ones, callbacks | an event jumps away from whatever the core was doing; a callback ends in `waiteu` whoever it interrupted | events only inside a select function; order of the list; honest `no_wait_id`; progress | Select, InterruptProofs |
| Locks | `api/xcore_c_lock.h` | owner, waiting cores | alloc, free, acquire, release | release by a core that is not the owner; free with users | mutual exclusion, round robin, no lost waiter | Lock, LockProofs |
| Hardware timers | `api/xcore_c_hwtimer.h`, `src/xcore_c_hwtimer_impl.h` | counter, condition, trigger time, trigger enabled; progress of a call and of an interrupt callback | get time, set / change / clear trigger, `wait_until`, `delay`, `hwtimer_setup_interrupt_callback`, enable / disable trigger; alloc, free, xC timer | wrap-around; time passing between instructions; a trigger left behind; an interrupt inside a change of the time | never early, on time, returns; a callback never before its time | HwTimer, HwTimerProofs |
| Interrupts | `api/xcore_c_interrupt.h`, `src/xcore_c_interrupt.S`, `src/xcore_c_interrupt_impl.h` | IEBLE bit, saved registers, vector and data of each resource | mask, unmask, set-up, the callback stub | callbacks between any two instructions; the kernel stack is not re-entrant | invisible to the code interrupted; no nesting; none while masked; vector and data together | Interrupt, InterruptProofs |
| Ports, port protocols, clock blocks | `api/xcore_c_port.h`, `api/xcore_c_port_protocol.h`, `api/xcore_c_clock.h` | mode, buffer, shift register, triggers; clock running, source | about 60 one-instruction calls, six configuration sequences | order of configuration, stale buffered data, a running clock | each protocol leaves clock and ready mode as documented, from any state, and an initial value driven, pending or dropped in one known way; nothing stale in the buffer; calls return | Port |
| Client and server channels | `api/xcore_c_chanend.h`, `src/xcore_c_chan_impl.h`, `tests/client_server` | pool, destinations, open routes, buffers; progress of clients and servers | `s_chanend_alloc`, `s_chanend_set_dest`, `s_chanend_free` and the streaming calls on them | several clients on one server; addresses stored in one call and used in a later one; chan-ends freed and reused by others | requests whole, replies to the chan-end that asked, every request answered | ClientServer, MCClientServer, ClientServerProofs |
| Wrappers, tests, docs | `src/*.c`, `api/xcore_c.h`, `tests` | none | none | | | not modelled |

Interactions: transactions and channel calls run over the token link and hand the
chan-end back and forth (`*c` is 0 while a transaction is open); both rely on
`chan_alloc` for a joined pair and promise `chan_free` an empty one; select events
are raised by chan-ends, ports and timers, whose calls set the triggers; every call
goes through the exception policy. An interrupt may be taken between any two instructions
of all of them.

## 2. Modules

* **TokenLink** is the hardware under one channel: `q[e]` is the buffer of end `e`,
  at most `Cap` tokens; `trap[e]` says that the core on `e` took an exception. Its
  actions are the inline functions of `xcore_c_chan_impl.h:65-107`. A data token
  carries the number of its call and its place in it, so that data from the wrong
  place can never pass for the right one.
* **Channel** extends it with two cores that each make `NumCalls` calls, given by
  `prog`. The four output calls run the same instructions and differ in the number of
  data tokens only; likewise the four inputs. `pc` 0..3 and `cnt` are the place in the
  call (the table at the head of the module); `buf` is the memory the inputs write.
  `Spec` has any two programs; `Matched` says that every output meets an input of its
  length, and the properties that the API promises for such use are stated under it.
* **Rendezvous** is the abstract specification: items go straight from sender to
  receiver in order, and a call returns only after all of them. Of programs that do not
  match it says nothing (`Unspecified`). `Channel!R` is the instance; the mapping is by
  name, the queues, `pc` and `cnt` are hidden.
* **MCChannel** chooses the programs TLC starts from: all matching ones, and those whose
  first two calls are any and whose third ones match.
* **ChannelProofs** holds the theorems about Channel; **TransactionProofs**,
  **ChanendPoolProofs**, **LockProofs**, **HwTimerProofs**, **PortProofs** and
  **ClientServerProofs** those about the module they name, **InterruptProofs** those about
  Select and Interrupt (section 4).
* **Transaction** extends TokenLink with the transacting calls. A conversation is given
  as runs of calls in one direction, because only the first call of a run can change
  the direction; `run` and `cnt` are the place in it, `last_out` is the field of the
  code and `half` separates the two instructions of `chan_complete_transaction`.
  `Matched` says of a conversation that every output run meets an input run of its
  length. `Inv` is `TypeOK`, `OneOutputRight` (with one of the ends, or on its way with
  the only END in flight) and `QuiescentBetween`. Two properties say what the ENDs
  promise of conversations that do not match. `MismatchNeverSilent`, for those that are
  `Regular` (each transaction has a master and a slave, every run moves data and turns the
  direction): the transactions both ends completed mirror each other. It asks for data in
  every run because a run of empty buffers moves none and its ENDs count all the same:
  two ends that disagree on empty runs can take the END of a change of direction
  for that of a completion and go on a whole transaction out of step. `NothingLost` is
  what is left then, of any conversations: if both programs end and leave no data behind
  (the ENDs of two masters, say, may be left over), every run of data one end output was
  input by the other as one run, in order.
* **Dialogue** is the abstract specification of matching transactions: a half-duplex
  conversation on data wires, without control tokens, capacity or `last_out`. The
  refinement `D` maps the wire to the data tokens of the queue before its first END
  (`Payload`) and the rest by name.
  Who speaks follows from the calls; a new speaker waits until its partner is in the run
  that listens (`TakesTurn`), and no end leaves before both have moved all the data.
* **MCTransaction** chooses the conversations: two matching transactions, the second
  of at most one token a run (`MatchedConv`); any first one of that size followed by one of
  at most one run on each side (`AnyConv`); regular ones that need not match (`MovingConv`);
  and one in which the ends are a transaction out of step (`ShiftedConv`).
* **ChanendPool** has tasks (`Tasks`) that allocate from `pool` and free, one
  instruction at a time (`pc[t]` names the next one), and token traffic between.
  `careful`, chosen at the start, says whether they complete their traffic first, as
  the documentation asks. A trap ends the call, which returns `ET_ILLEGAL_RESOURCE`
  (`XCORE_C_NO_EXCEPTION`), and keeps what the call had done. `res[t]` is the result of
  the last allocation or free. A usage assumption: after a free that failed half way the end
  that is left is not used (`Joined`), though the code does not check that; only
  `s_chan_free` itself outputs to an end that another call may have freed.
* **Select** is one core, its resources and the event hardware: `Arrive` makes a
  resource ready, and an event that can be taken (`Takeable`) is taken before the next
  instruction issues (`Issue`). `mode` is the vector (`_select_non_callback` or a
  callback). `due` is a history variable: what a select function could have returned
  when it was called.
* **Interrupt** extends Select with resources set up for interrupts and the kernel mode
  they are handled in. `TakeInterrupt` may come between any two instructions of Select
  and of the set-up of another interrupt (`setev`, `setc`); it saves the pc, the enable bits and
  ED. `Stacked` are the registers the stub of `INTERRUPT_CALLBACK` saves; a register it
  does not save may hold anything after `kret` (`Restored`), so what the select functions
  keep in r0, r1, r2 and r11 is at stake. `Transparent` maps a core in kernel mode to the
  core it saved and says that the rest behaves as Select allows. `masked` and `rash` are
  history variables: the user's last mask call, and a resource set up while it could
  interrupt.
* **ClientServer** is `tests/client_server/src/code.c` as it uses `s_chanend_*`: two tiles
  with a server each, clients that allocate a chan-end for each command, and servers
  that set the destination of their own chan-end to the one each request names.
  `ClientCode` and `ServerCode` list the instructions; `holder[e]` is the chan-end with an
  open route to `e`, which keeps the packets of two clients apart. A client that is not
  given a chan-end goes on with the value 0 and traps.
* **MCClientServer** chooses the commands.
* **Lock** is one lock and `N` cores. `bypass` is a history variable that counts how
  often a waiting core was passed over, `abused` one that says a core released the
  lock without having acquired it.
* **HwTimer** is one timer and its core: `Code` lists the instructions of each call. An
  interrupt callback on the timer reads the time and sets its next one, as
  `hwtimer_handler` in `tests/interrupt_handler_functions` does; it may run between any two instructions of
  the user's calls. `prompt`, chosen at the start, says whether anything else can interrupt
  the core; `armed`, `elapsed` and `due` (the time last asked for) are history variables.
  A user who expects an interrupt may change its time or disable it; any other call
  (`rash`) shares the timer with the callback, and is the last one followed.
* **Port** is one data port, its clock block and its ready-out port, and one core. `Code`
  lists the instructions of every call; `port` is the mode the calls set, `held` what the
  buffer holds and where it came from (a sample of the present mode, a stale one, an
  initial value, data). Between two instructions the port's clock may tick
  (`Drive`, `Turn`, `Sample`, `TimeReached`), and `initial` is a history variable: whether
  the initial value of an output protocol was driven or dropped. `Illegal(i)` collects what the comments of
  `xcore_c_port.h` and `xcore_c_clock.h` say an instruction requires. One condition is
  left out on purpose: `port_set_clock` on a running clock. The documentation of the
  protocols names it as an error, but `tests/port_test_ready/src/test.c:24-26` starts
  the clock before the protocol and expects no exception, so the model lets it through.

Where a module has several state invariants about one design, `Inv` is their conjunction
with `TypeOK`, each named: `QuiescentBetweenCalls` (Channel), `OneOutputRight`,
`QuiescentBetween` (Transaction), `NamedOnce`, `RecycledClean`, `FreeSucceeds`
(ChanendPool), `EventsOnlyInSelect` (Select), `OneFrame` (Interrupt, `IInv`, with
the types of the variables that Interrupt adds),
`RequestWhole` (ClientServer), `MutualExclusion`, `FreedUnused`, `NoLostWaiter` (Lock),
`OrderAccepted` (Port).

Definitions whose comment begins with "Mutant" are not part of any specification. Each
is a plausible mistake in one definition, and PROJECT.json names the property that
finds it.

What is external, that is hardware rather than code: buffers that pause, routes that an
END closes, `freer` that refuses a chan-end in use, the event and interrupt logic, the
lock's choice of the next owner, the comparison behind `XS1_SETC_COND_AFTER`, what a
port does on an edge of its clock and which `setc` it refuses. They are modelled as the
code and its documentation use them.

## 3. Runs

`tlc -config <cfg> <module>`; PROJECT.json lists the properties of each.

| Run | Configuration | What it shows | Bounds |
|---|---|---|---|
| channel | MCChannel | Matching programs never trap, leave nothing in the buffers, finish, and implement Rendezvous; however the programs mismatch, a call that returned moved its data, but for an output that met an output without data | 3 calls of 0..3 tokens: zero, one and several turns of the loop, and every pair and triple of directions; mismatches in the first two calls, so that the second call of each end meets what the first left behind; a buffer of 2 is shorter than the longest transfer with its END, so senders pause |
| transaction | MCTransaction | Matching transactions: one right to output, quiescent, no trap, all complete, and they implement Dialogue. Others: if regular, none is completed by both ends without a match; in any case no data is lost, split or joined without a trace, ENDs left over or not | 2 transactions; matching ones of up to 2 runs of 0..2 tokens, then of 0..1; any of up to 2 runs of 0..1; regular ones of up to 2 runs of 1..2; one shifted conversation of 5 runs: every change of direction, empty runs, one transaction after another, ends out of step; a buffer of 2, which a run of 2 with its END exceeds |
| pool | MCChanendPool | No leak or sharing, clean recycling, half channels reported; with complete traffic nothing fails or hangs | 2 tasks and 3 chan-ends, so that both can be one short; buffers of 1 |
| pool_free_pending | MCChanendPoolPending | *violation*: see finding 2 | same |
| client_server | MCClientServer | Requests arrive whole, replies go to the chan-end that asked, only a client without a chan-end traps, every request to a server that stays up is answered | 3 clients, 2 on one tile and 1 on the other, so that local and remote clients compete for a server; the program of the test on both tiles; any two commands after one another; with a chan-end for each client, and with one too few; buffers of 2, shorter than a request |
| select | MCSelect | Events only inside select functions, honest `no_wait_id`, order of the list, `select_wait` returns | 3 resources, 2 that may have callbacks: lists of up to 3 with a callback before, between and after select resources |
| select_no_wait | MCSelectNoWait | *violation*: see finding 1 | 2 resources |
| interrupt | MCInterrupt | No nesting, no interrupt while masked, vector and data of one set-up, and the interrupted code behaves as Select allows and still returns | 1 resource for select events, with or without a callback, and 2 for interrupts with 2 functions: an interrupt during the set-up of the other, during a callback, in each instruction of the select functions. (2 select resources and 1 for interrupts: the same, in 383,600 states) |
| lock | MCLock | Mutual exclusion, safe free, round robin, no lost waiter, no starvation | 5 cores |
| timer | MCHwTimer | No wait, and no delay below half a turn, is early, or late on an undisturbed core with no older trigger; a callback never runs before its time unless the user sets up the timer while it can interrupt; every call returns on an undisturbed core | half a turn of 4 ticks (`Half`): 8 times, wrapped any number of times; every time argument and every period; a callback that asks for 2 ticks later |
| port | MCPort | Protocols are accepted in their order and leave the clock and the ready mode they document, and the direction and initial value as finding 4 says; nothing stale in the buffer; no trigger left behind; calls return | one port and one clock block; the mode has no counter, so the run visits every reachable mode and every call from each |
| port_reconfigure | MCPortReconfigure | *violation*: see finding 3 | same |

`CHECK_DEADLOCK FALSE` is used where the real system can stop: mismatched programs and
conversations, a free that pauses, clients whose server was shut down and servers without clients, a core that
waits for events nobody sends, and an input on a port whose clock is stopped.

**Fairness.** A core of a tile is issued instructions in a fixed rotation with the
others, so each core that can take its next instruction does: `WF` on the steps of each
core, and nothing stronger. In Select the event hardware, the select functions and
callbacks are fair; arrivals, reads and the user's calls are not. Interrupt adds that an
interrupt that can be taken is and that its callback runs; `StillReturns` asks, besides,
that the core is not in kernel mode for ever. In ClientServer each client and each server
is fair, and which of two paused senders the server's chan-end takes next is not: `Answered` holds all the
same, because the others have a bounded number of commands. In Lock a core that
holds the lock releases it eventually; acquiring is not fair. In HwTimer
time passes and the core runs. In Port a running
clock keeps ticking and instructions issue; a ready-in that another device drives, and a
value awaited on the pins, need never come.
No fairness is assumed of the token traffic in ChanendPool.

### Findings

1. `src/xcore_c_select.S:29`: a select callback ends in `waiteu` whatever function its
   event interrupted. A `select_no_wait` that takes a callback event therefore pauses
   until a select event comes; `api/xcore_c_select.h:57,60` say that it returns
   `no_wait_id`. By the same cause
   `select_wait_ordered` pauses with the rest of its list disabled when a callback was
   ready, though line 74 says that each resource of the list is enabled. (The advice to
   put callbacks at the front of the list, line 77, makes this more likely.)
2. `api/xcore_c_channel_streaming.h:76`: `s_chan_free` outputs two ENDs before it checks
   anything. With a full buffer it pauses for ever, where line 68 documents
   `ET_ILLEGAL_RESOURCE` for pending input.
3. `api/xcore_c_port_protocol.h:47,95`: the two handshake protocols do not make the port a
   master, and `_port_set_ready_handshake` requires one (`api/xcore_c_port.h:440`). On a
   port that was a strobed slave they raise an exception half way, for a reason that the
   exceptions they document (line 32) do not name. `OrderAccepted` shows that
   it is the only one.
4. `api/xcore_c_port_protocol.h:57,145,222`: "the port drives the initial value on its
   pins until an output statement changes the value driven". `port_protocol_out_handshake`
   and `port_protocol_out_strobed_master` output the value under the port's earlier clock
   and mode and then clear the buffer (lines 97, 177), which discards a pending output and
   its change of direction (`api/xcore_c_port.h:900-904`). If no edge of the earlier clock
   comes between the two (it is stopped, say, or waits for a ready-in), the call returns `error_none`,
   the value is never driven, and the port stays in the direction it had: a port that was an
   input is an input still. `Established` states what the code does ensure: the value is on
   the pins of an output port, or pending, or was dropped in this way; and
   `port_protocol_out_strobed_slave` never drops it. The three findings above
   each have a run that is expected to fail; for this one drop the last disjunct of
   `Established` in run `port`.

Observations that contradict no text:

* `api/xcore_c_hwtimer.h:214`: a period of 2^31 ticks or more is taken for a time in the
  past, and `hwtimer_delay` returns at once. `NeverEarly` says nothing of such periods.
* A server shut down by a client of its own tile stops before it serves the clients of
  the other: they wait for ever. In `tests/client_server` nothing orders the shut-down
  after the other tile's requests, which is why `Answered` excepts servers that are down.
* Masking inside an interrupt callback is undone when `kret` restores the status.
* `_resource_setup_callback` (`src/xcore_c_resource.c:17`) sets the vector and the data in two
  instructions: on a resource that can interrupt meanwhile the new function runs with
  the old data. `PairedData` excepts this (`rash`).
* `hwtimer_wait_until`, `hwtimer_delay` and `hwtimer_clear_trigger_time` leave the condition
  "none", with which a timer is always ready: if its trigger is enabled it interrupts at once.

## 4. Proofs

`tlapm <module>` checks them. The theorems hold for every value of the constants, which are
restricted by the named assumptions only; TLC checks the properties they state in a run of
section 3, on a small instance. A theorem listed here whose statement is no property
of a run is an inductive invariant the others of its block follow from, or a part of its
module's `Inv` (`TypeCorrect` and `Quiescence` of Channel).

| Module, for every | Theorem | Statement |
|---|---|---|
| ChannelProofs: number of calls, length, capacity (`CapAssumption`: at least one token; `SizeAssumption`) | `MatchedInvariant` | `Spec => [](Matched => IInv)` |
| | `TypeCorrect` | `Spec => []TypeOK`, for any two programs |
| | `MatchedNeverTraps` | `Spec => []NoTrap` |
| | `Quiescence` | `Spec => []QuiescentBetweenCalls` |
| | `ChannelInvariant` | `Spec => []Inv`, the two together |
| | `AnyProgramsInvariant` | `Spec => []AnyInv`, for any two programs |
| | `MismatchesAreNeverSilent` | `Spec => []MismatchNeverSilent`, for any two programs |
| | `SynchronousTransfer` | `Spec => Synchronous`: Channel implements Rendezvous |
| TransactionProofs: number of transactions, runs and tokens, capacity | `MatchingTransactionsFlow` | `Spec => [](TypeOK /\ (Matched => IInv))` |
| | `NothingTraps` | `Spec => []NoTrap` |
| | `TransactionsInvariant` | `Spec => []Inv` |
| | `TransactionsAreConversations` | `Spec => TakesTurns`: Transaction implements Dialogue |
| | `MismatchesAreNotSilent` | `Spec => []MismatchNeverSilent`, for any two conversations |
| ChanendPoolProofs: set of tasks and of chan-ends, capacity | `CallsKeepTheirChannels` | `Spec => []IInv` |
| | `PoolInvariant` | `Spec => []Inv` |
| | `ChannelsAreWhole` | `Spec => []WholeOrReported` |
| InterruptProofs: finite set of resources, callbacks, interrupt resources, functions | `EventsInvariant` | `Spec => []Inv` (of Select) |
| | `NoWaitIdIsHonest` | `Spec => []NoWaitIdHonest` |
| | `OrderIsRespected` | `Spec => []OrderRespected` |
| | `OneFrameOnTheKernelStack` | `ISpec => []IInv` |
| | `MaskIsHonoured` | `ISpec => []MaskHonoured` |
| | `VectorAndDataArePaired` | `ISpec => []PairedData` |
| | `InterruptsAreTransparent` | `ISpec => Transparent`: Interrupt implements Select |
| LockProofs: number of cores | `LockInvariant` | `Spec => []Inv` |
| | `RoundRobinHolds` | `Spec => []RoundRobin` |
| HwTimerProofs: width of the counter, period | `CallsKnowTheTime` | `Spec => []IInv` |
| | `TimerInvariant` | `Spec => []TypeOK` |
| | `WaitsAreNeverEarly` | `Spec => NeverEarly` |
| | `WaitsAreOnTime` | `Spec => OnTime` |
| | `CallbacksAreNeverEarly` | `Spec => FiresOnTime` |
| PortProofs: sequence of calls and clock edges (no constants) | `ProtocolsAccepted` | `Spec => []Inv` |
| | `ProtocolsEstablish` | `Spec => Established` |
| | `BuffersAreFresh` | `Spec => NothingStale` |
| | `NoTriggerLeft` | `Spec => TriggersConsumed` |
| ClientServerProofs: set of clients and of chan-ends, programs, capacity | `RequestsAndReplies` | `Spec => []IInv` |
| | `ServersInvariant` | `Spec => []Inv` |
| | `NobodyTraps` | `Spec => []NoTrap` |
| | `RepliesAreRight` | `Spec => []RightReply` |

In Channel and Transaction `Matched` is a state predicate of the programs, which no step
changes; the invariant of matching programs is therefore proved under it as
`Matched => IInv`.

**Channel.** `TypeOK` is inductive by itself. `NoTrap` is not: that no check meets data
depends on what is in the queue, hence on where the partner is. `IInv`
(Channel.tla) therefore says what each queue holds for each pair of positions of the two
cores. They are `Together` in the same call, in one of seven positions, during the data
with exactly the tokens output and not yet input in flight (`InFlight`); or the receiver
is `Ahead` by one call, the sender's last END still unread, possibly with the opening END
of the receiver's next output behind it; or both are done. `CountInv` ties the counts
to the positions, and `BufferInv` says which slots of the receiver's buffer are
written. `OutFlow` and `InFlow` prove that each instruction preserves the positions,
`CountStep` and `BufferStep` the other two parts, and `InvInductive` puts them together.
Quiescence is read off: with both cores between calls only two positions are left. For the
refinement, a return of the abstract call needs the whole transfer (`ReturnDelivered`,
from `BufferInv`), an input of a token is an abstract transfer (`ItemTransferred`), and
every other instruction is a stutter; a program that does not match takes the step
`Unspecified`.

`MismatchNeverSilent` is about programs that do not match, in which data may be checked
and an END read as data. Its invariant, `AnyInv`, looks at the stream instead of the positions:
the tokens of a call are an END, its data and an END one way and two ENDs the other, so the
program counter says how many a core has `Sent` and `Used`, and the difference is in
its partner's buffer (`Carried`). Two cores in the same call (`SameCall`) keep that
whether their calls match or not. To return, a core has to use the partner's last END: then the
lengths are equal, or both calls are outputs and the partner's has no data, whose
two ENDs look like an answer. The one that returns is `OneAhead`, at most one instruction into its
next call; the one behind finds the END and has met it (`Met`), or finds
data where it checks for an END and stays behind for ever. So no program is ever two calls ahead.

**Transaction.** Here the two ends need not be in the same run: an end whose next runs are
inputs of no tokens walks through them alone. `FlowInv` says that they are in one of six
situations, up to their names: `Idle` between transactions; `Opening`, the END of the
master unread; `Holding`, one end has the right to output and every run that only one of
them is past is an output of that end; `Passing`, its data is followed by the END that
hands the right over in run `k`; `Completing`, the same with the END of the completion;
and `Leaving`, one end has left and may have opened the next transaction behind its own
last END. In each, the data in the buffer is exactly the tokens moved by the one and owed
to the other, in order (`Carries`). `Situation` says which of the six each instruction can
meet, and one lemma per instruction which it leads to. The invariant gives the right to
output one place, and the tokens before the first END are the wire of Dialogue: a change
of direction that waits for an END is `TakesTurn` of the abstract conversation.

`MismatchNeverSilent` needs a second invariant, `RInv`, of `Regular` conversations that need
not match. `Phase(e)` is the run of data an end has got to: one that has not yet changed to
the direction of its next run is still in the one before. `SituatedInv` says where the
two ends can be: `Idle`; `AtStart`, the END of the master unread; `Speaking`, one end has the
right to output, is in run `k`, and what it has output and the other not input is in
flight; `Handing`, that run is all output and followed by an END; or `LeftFirst`, one end
has left, the other has only the last END to check. In each the runs before `k` are
`Agreed`: they are runs of both ends, in opposite directions and of the same length. That
one more run is agreed can be said when the listener checks the END behind it: if it
wants fewer tokens than there are it checks a data token, and if it wants more it
inputs the END as data, and both trap. Here data in every run is needed: in an empty run the
listener could be ahead or behind without a token to tell. `LeftFirst` has all runs of the
end that left agreed, and the one that follows has no other, which is `Mirrors` (`MetInv`).

**ChanendPool.** `Inv` says who owns each chan-end; that a failing call leaves a whole
channel or reports a half needs the instruction each task has come to. `HandleOK` gives the
handle's two ends and destinations at each of them, `CarefulOK`, for tasks that complete
their traffic, the tokens as well: only the two ENDs of `s_chan_free` itself. `Owners`
(every chan-end that is not in the pool is named by one field of one task) makes these
independent of the other tasks.

**Select and Interrupt.** `DueInv`, `PollInv`, `LoopInv` and `EventInv` tie `enabled`, `due`
and `pos`: the enabling loop has enabled exactly the triggers before `pos`, and no resource
before the last of them was due, because the instruction that enabled it was followed
by another. That is why an ordered select respects its list although its loop is
interrupted by callbacks. `ResourcesAssumption` (Select.tla) asks for finitely many
resources. Interrupt adds what the saved frame holds (`KernelInv`), that user code takes
no events whether it is interrupted or not (`EebleInv`), and how far a set-up has come
(`PairInv`, `ArgumentInv`). The refinement maps a core in kernel mode to its saved
state, so that taking an interrupt, the stub and `kret` are stutters; it needs that
the stub saves each register that the code interrupted there keeps something in.

**Lock.** `RoundRobin` bounds a history count. It is inductive with the distance in rotation
from the last owner: `bypass[c] + Distance(last, c) <= N - 2` for every waiting core
(`BypassInv`); each hand-over to another core shortens the distance by as many cores as can be
counted.

**HwTimer.** `M == 2 * Half`, and `After` is a comparison modulo `M`. `CallbackOK` says that,
while only the calls that may be are made with interrupts enabled, the trigger has the
time that was asked for; `UntilOK` and `DelayOK` what the call knows of the time elapsed at
each instruction. The arithmetic is in lemmas about `Dist`, the ticks from one time to
another, which the solver does case by case (no turn or one); the actions cite those.

**Port.** The run is exhaustive, since the module has no constants; the proof says why.
`Configuring` and `Flushing` list what each instruction a protocol has made brought about
and no later one, nor an edge of the clock, undoes (`Effects`, `EdgeKeeps`). `Ordered` is all
that this uses of the order of the instructions in the six protocols, and `Complete` that
each has those that bring about what it promises. That nothing is stale rests on two
facts: nothing but setting the ready-out port follows the clearing of the buffer, and
in the one protocol that does not clear it the initial value is pending or the port is an
output, so that nothing is sampled. The same two cases, followed through the clearing,
say what became of the initial value.

**ClientServer.** Everything arriving at a server is a stream in which each word may follow the one
before (`StreamOK`): addresses, commands and ENDs of the same client, whole packets
whatever part of the current one was input already. `RouteOK` says that the packet still
being sent is that of the holder of the route, which is why nobody else's word comes
between; `OnceOK` that no chan-end has two requests at a server; `ServingOK` that the
chan-end stored in `sender` belongs to a client that still waits on it, so that it was not
freed and given to another before the reply. `ReplyOK` and `GotOK` follow the reply.

*Only model-checked.* Liveness (`Terminates`, `CarefulCallsReturn`, `WaitReturns`,
`StillReturns`, `AcquireReturns`, `CallsReturn`, `Answered`), because the prover has no
rules for fairness and `ENABLED`. `NothingLost` of Transaction: it compares the sequences
of runs of data of two whole conversations, which `DataRuns` computes by recursion over
the transactions and a `SelectSeq` in each, and a proof would be by induction over them.
Every other property of a passing run is a theorem.

## 5. What is not modelled

* Control tokens other than END, and data values: a token is its place.
* Running on after a trap with `XCORE_C_NO_EXCEPTION` in the channel calls: the core stops.
  (ChanendPool does model calls after a failed one.)
* `ET_RESOURCE_DEP`, `ET_LOAD_STORE`, `ET_LINK_ERROR`: two cores using the same end, bad
  pointers and unset destinations are excluded by construction.
* Traffic on a channel of which one end was freed (`s_chan_free` failed half way).
* Progress with a buffer of one token: `Terminates` and `Answered` are checked with two. (The
  theorems hold for every capacity from one, and the pool has buffers of one.)
* Calls on a lock that is not allocated, or an owner that acquires again.
* Of ports: data, transfer widths, timestamps, inversion, sampling edge, `port_peek`, and
  their events (Select has those of any resource). Of clock blocks: the source and the
  divider, whose calls appear only as ones that trap while the clock runs.
* Of timers: allocation and the xC timer (`hwtimer_realloc_xc_timer`), a single call of the
  hardware each.
* Of interrupts: the kernel stack's size and its set-up by `INTERRUPT_PERMITTED` functions,
  which the model assumes done; a resource that changes between select events and
  interrupts; a callback that unmasks interrupts or uses a resource of the interrupted code, which
  `api/xcore_c_interrupt.h` and the modules exclude.
* Of client and server channels: a client that goes on after a failed `s_chanend_alloc` is
  followed to its trap, no further.
* Stack layout and assembler directives of the callback macros.

## 6. Plan

Done: TokenLink, Channel, Rendezvous, ChannelProofs, Transaction, ChanendPool, Select,
Lock, HwTimer, Port, then Dialogue, Interrupt and ClientServer: first what two cores do to
each other, then what the hardware does to one core, then the single resources, then the
components composed.

Proved since: the invariants, action properties and refinements of all of them
(section 4); what a proof cannot reach here is named at its end.

What would add most from here:

1. Running on after a trap (`XCORE_C_NO_EXCEPTION`) in the channel calls and transactions: what
   a partner inside the handshake meets then.
2. Events of a port (Select has those of any resource), composed with Port as Interrupt is
   composed with Select.
