-------------------------------- MODULE Port --------------------------------
(***************************************************************************)
(* A port, the clock block and the ready-out port it is configured with,   *)
(* and the calls of xcore_c_port.h, xcore_c_port_protocol.h and            *)
(* xcore_c_clock.h on them, one instruction at a time, by one core.        *)
(* Between two instructions the port's clock may tick.  A call that traps  *)
(* returns and keeps what it had done (XCORE_C_NO_EXCEPTION).              *)
(*                                                                         *)
(* What an instruction requires of the port is what the comment of the     *)
(* call that consists of it says ("Note", "exception").                    *)
(***************************************************************************)
EXTENDS Naturals, Sequences, Functions

VARIABLES port,      \* mode of the data port: see Ports
          clock,     \* the clock block: off, stopped or running; rdyin: has a
                     \* ready-in source
          readyout,  \* what the ready-out port drives
          held,      \* what the data port's buffer holds: see Contents
          fn, pc,    \* the call being made and its next instruction; or "idle", 0
          arg,       \* the ready ports it is given are 1-bit ports
          initial    \* history: what became of the initial value that the call
                     \* output; no guard reads it

vars == <<port, clock, readyout, held, fn, pc, arg, initial>>

Ports == [use : BOOLEAN, dir : {"in", "out"}, drive : {"data", "clock"},
          buffered : BOOLEAN, clk : {"ref", "clk"},
          ready : {"none", "strobed", "handshake"}, ms : {"master", "slave"},
          in_trigger : BOOLEAN, time_trigger : BOOLEAN]

\* A sample that was taken under another clock or ready mode is "stale"; an
\* output that the pins do not drive yet is "initial" (of a protocol) or "data".
Contents == {"nothing", "sample", "stale", "initial", "data"}

\* The state port_alloc documents.
Reset == [use |-> TRUE, dir |-> "in", drive |-> "data", buffered |-> FALSE,
          clk |-> "ref", ready |-> "none", ms |-> "master",
          in_trigger |-> FALSE, time_trigger |-> FALSE]

(***************************************************************************)
(* The calls, as sequences of instructions                                 *)
(***************************************************************************)
InMode == <<"inout", "buffers", "in">>
OutMode == <<"inout", "buffers", "out_initial">>

port_protocol_in_handshake == InMode \o
   <<"readysrc", "setclk", "handshake", "clrbuf", "outready">>
port_protocol_out_handshake == OutMode \o
   <<"readysrc", "setclk", "handshake", "clrbuf", "outready">>
\* Mutant: the port is put into input mode after its clock is set.
InMasterLateInput == <<"inout", "buffers", "setclk", "in",
                       "strobed", "master", "clrbuf", "outready">>

port_protocol_in_strobed_master == InMode \o
   <<"setclk", "strobed", "master", "clrbuf", "outready">>
port_protocol_out_strobed_master == OutMode \o
   <<"setclk", "strobed", "master", "clrbuf", "outready">>

\* Mutants: without _port_clear_buffer; with _port_set_slave before
\* _port_set_ready_strobed; with _port_clear_buffer, as the other protocols.
InSlaveUncleared == InMode \o <<"readysrc", "setclk", "strobed", "slave">>
InSlaveTooSoon == InMode \o <<"readysrc", "setclk", "slave", "strobed", "clrbuf">>
OutSlaveCleared == OutMode \o <<"readysrc", "setclk", "strobed", "slave", "clrbuf">>

port_protocol_in_strobed_slave == InMode \o
   <<"readysrc", "setclk", "strobed", "slave", "clrbuf">>
port_protocol_out_strobed_slave == OutMode \o
   <<"readysrc", "setclk", "strobed", "slave">>

Protocol ==
  [in_handshake       |-> port_protocol_in_handshake,
   out_handshake      |-> port_protocol_out_handshake,
   in_strobed_master  |-> port_protocol_in_strobed_master,
   out_strobed_master |-> port_protocol_out_strobed_master,
   in_strobed_slave   |-> port_protocol_in_strobed_slave,
   out_strobed_slave  |-> port_protocol_out_strobed_slave]

\* Mutant: the trigger is cleared when the port is buffered, not otherwise.
InWhenSwapped(buffered) == IF buffered THEN <<"cond", "in", "condnone">> ELSE <<"cond", "in">>

\* port_in_when_pins* and their shift-right variants, by port_type_t.
port_in_when_pins(buffered) == IF buffered THEN <<"cond", "in">> ELSE <<"cond", "in", "condnone">>

\* The shift-right variants are these with another data operand, and a
\* trigger on inequality is one on equality with another value.
Transfer ==
  [port_in                 |-> <<"in">>,
   port_out                |-> <<"out">>,
   port_in_at_time         |-> <<"setpt", "in">>,
   port_out_at_time        |-> <<"setpt", "out">>,
   port_in_when_unbuffered |-> port_in_when_pins(FALSE),
   port_in_when_buffered   |-> port_in_when_pins(TRUE),
   port_force_input        |-> <<"endin", "in">>,
   port_endin              |-> <<"endin">>,
   port_clear_buffer       |-> <<"clrbuf">>]

\* port_alloc is also port_reset: "on" is the setc INUSE_ON of both.  "cond" is
\* the setc and setd of _port_set_trigger_in_equal, "outready" the setc and
\* setrdy of _port_set_out_ready.  clock_configure stands for the calls that set
\* the clock's source and divider.  port_setup_* end like port_clear_trigger_in.
Configuration ==
  [port_alloc               |-> <<"on">>,
   port_alloc_buffered      |-> <<"on", "buffers", "settw">>,
   port_free                |-> <<"off">>,
   port_set_transfer_width  |-> <<"settw">>,
   port_set_buffered        |-> <<"buffers">>,
   port_set_unbuffered      |-> <<"nobuffers">>,
   port_set_clock           |-> <<"setclk">>,
   port_set_clock_ref       |-> <<"setref">>,
   port_set_inout_data      |-> <<"inout">>,
   port_set_out_clock       |-> <<"outclock">>,
   port_set_out_ready       |-> <<"outready">>,
   readyout_set_inout_data  |-> <<"readyout_data">>,
   port_set_master          |-> <<"master">>,
   port_set_slave           |-> <<"slave">>,
   port_set_no_ready        |-> <<"noready">>,
   port_set_ready_strobed   |-> <<"strobed">>,
   port_set_ready_handshake |-> <<"handshake">>,
   port_set_trigger_time    |-> <<"setpt">>,
   port_clear_trigger_time  |-> <<"clrpt">>,
   port_set_trigger_in      |-> <<"cond">>,
   port_clear_trigger_in    |-> <<"condnone">>,
   clock_alloc              |-> <<"clk_on">>,
   clock_free               |-> <<"clk_off">>,
   clock_start              |-> <<"clk_start">>,
   clock_stop               |-> <<"clk_stop">>,
   clock_configure          |-> <<"clk_configure">>,
   clock_set_ready_src      |-> <<"readysrc">>]

Code == [f \in DOMAIN Protocol \cup DOMAIN Transfer \cup DOMAIN Configuration |->
            IF f \in DOMAIN Protocol THEN Protocol[f]
            ELSE IF f \in DOMAIN Transfer THEN Transfer[f] ELSE Configuration[f]]

TypeOK == /\ port \in Ports
          /\ clock \in [state : {"off", "stopped", "running"}, rdyin : BOOLEAN]
          /\ readyout \in {"data", "ready"}
          /\ held \in Contents
          /\ \/ fn = "idle" /\ pc = 0
             \/ fn \in DOMAIN Code /\ pc \in 1 .. Len(Code[fn])
          /\ arg \in BOOLEAN
          /\ initial \in {"none", "driven", "dropped"}

Init == /\ port = [Reset EXCEPT !.use = FALSE]
        /\ clock = [state |-> "off", rdyin |-> FALSE]
        /\ readyout = "data" /\ held = "nothing"
        /\ fn = "idle" /\ pc = 0 /\ arg = FALSE /\ initial = "none"

(***************************************************************************)
(* The port on an edge of its clock                                        *)
(***************************************************************************)
Pending == held \in {"initial", "data"}
At(i) == pc > 0 /\ Code[fn][pc] = i
Clocked == port.use /\ (port.clk = "clk" => clock.state = "running")

\* A pending output is driven; an input turns an output port round; the pins
\* are sampled into an empty buffer (without a buffer, when a trigger fires);
\* the time comes that an output without a buffer waits for.
Drive == /\ Pending /\ held' = "nothing" /\ port' = [port EXCEPT !.dir = "out"]
         /\ initial' = IF held = "initial" THEN "driven" ELSE initial
Turn == /\ At("in") /\ port.dir = "out" /\ ~Pending
        /\ port' = [port EXCEPT !.dir = "in"] /\ UNCHANGED <<held, initial>>
Sample == /\ port.dir = "in" /\ held = "nothing"
          /\ port.buffered \/ port.in_trigger \/ port.time_trigger
          /\ held' = "sample" /\ UNCHANGED <<port, initial>>
TimeReached == /\ At("out") /\ port.time_trigger /\ ~port.buffered
               /\ port' = [port EXCEPT !.time_trigger = FALSE] /\ UNCHANGED <<held, initial>>

Edge(A) == Clocked /\ A /\ UNCHANGED <<clock, readyout, fn, pc, arg>>

\* Edges that do not wait for the ready-in port, nor for a value on the pins.
FreeRunning == port.ready = "none" \/ (port.ready = "strobed" /\ port.ms = "master")
FreeEdge == FreeRunning /\ Edge(Drive \/ Turn \/ (~port.in_trigger /\ Sample) \/ TimeReached)

(***************************************************************************)
(* The instructions                                                        *)
(***************************************************************************)
Illegal(i) ==
   \/ i \notin {"on", "off", "outready", "readysrc", "readyout_data",
                "clk_on", "clk_off", "clk_start", "clk_stop", "clk_configure"} /\ ~port.use
   \/ i \in {"setclk", "readysrc", "clk_start", "clk_stop", "clk_configure"} /\ clock.state = "off"
   \/ i \in {"outready", "readysrc"} /\ ~arg
   \/ i = "clk_configure" /\ clock.state = "running"
   \/ i = "settw" /\ ~port.buffered
   \/ i = "nobuffers" /\ port.ms = "slave"
   \/ i = "noready" /\ port.ms = "slave"
   \/ i = "strobed" /\ ~port.buffered
   \/ i = "handshake" /\ (~port.buffered \/ port.ms = "slave")
   \/ i = "slave" /\ port.ready # "strobed"

\* Instruction i is issued and does not trap.
Return == fn' = "idle" /\ pc' = 0 /\ arg' = FALSE
Does(i) == /\ At(i) /\ ~Illegal(i)
           /\ IF pc = Len(Code[fn]) THEN Return
              ELSE pc' = pc + 1 /\ UNCHANGED <<fn, arg>>
           /\ initial' = IF i = "clrbuf" /\ held = "initial" THEN "dropped" ELSE initial

Traps == pc > 0 /\ Illegal(Code[fn][pc])
Trap == Traps /\ Return /\ UNCHANGED <<port, clock, readyout, held, initial>>

Readied(i) == [port EXCEPT !.ready = i]

\* The mode the port is in after a configuration instruction.
Configured(i) == CASE i = "inout"     -> [port EXCEPT !.drive = "data"]
                   [] i = "outclock"  -> [port EXCEPT !.drive = "clock"]
                   [] i = "buffers"   -> [port EXCEPT !.buffered = TRUE]
                   [] i = "nobuffers" -> [port EXCEPT !.buffered = FALSE]
                   [] i = "setclk"    -> [port EXCEPT !.clk = "clk"]
                   [] i = "setref"    -> [port EXCEPT !.clk = "ref"]
                   [] i = "master"    -> [port EXCEPT !.ms = "master"]
                   [] i = "slave"     -> [port EXCEPT !.ms = "slave"]
                   [] i = "noready"   -> [port EXCEPT !.ready = "none"]
                   [] i \in {"strobed", "handshake"} -> Readied(i)
                   [] i = "condnone"  -> [port EXCEPT !.in_trigger = FALSE]
                   [] i = "clrpt"     -> [port EXCEPT !.time_trigger = FALSE]

SampledIn(p) == <<p.clk, p.ready, p.ms>>

Configure == \E i \in {"inout", "outclock", "buffers", "nobuffers", "setclk", "setref", "master",
                       "slave", "noready", "strobed", "handshake", "condnone", "clrpt"} :
                /\ Does(i) /\ port' = Configured(i)
                /\ held' = IF held = "sample" /\ SampledIn(port') # SampledIn(port)
                           THEN "stale" ELSE held
                /\ UNCHANGED <<clock, readyout>>

\* What was sampled before a trigger is set does not fire it.
SetTrigger == /\ \/ Does("cond") /\ port' = [port EXCEPT !.in_trigger = TRUE]
                 \/ Does("setpt") /\ port' = [port EXCEPT !.time_trigger = TRUE]
              /\ held' = IF Pending THEN held ELSE "nothing"
              /\ UNCHANGED <<clock, readyout>>

InUse == /\ \/ Does("on") /\ port' = Reset
            \/ Does("off") /\ port' = [Reset EXCEPT !.use = FALSE]
         /\ held' = "nothing"
         /\ UNCHANGED <<clock, readyout>>

\* An input pauses until there is a sample.  It clears a trigger on the value
\* of the pins only if the port is buffered.
In == /\ Does("in") /\ port.dir = "in"
      /\ \/ held \in {"sample", "stale"}
         \/ held = "nothing" /\ ~port.buffered /\ ~port.in_trigger /\ ~port.time_trigger
      /\ held' = "nothing"
      /\ port' = [port EXCEPT !.time_trigger = FALSE,
                              !.in_trigger = port.in_trigger /\ ~port.buffered]
      /\ UNCHANGED <<clock, readyout>>

\* An output pauses while another one is pending and, without a buffer, until
\* the time of a trigger.
Out == /\ ~Pending
       /\ port.buffered \/ ~port.time_trigger
       /\ \/ Does("out") /\ held' = "data"
          \/ Does("out_initial") /\ held' = "initial"
       /\ port' = [port EXCEPT !.time_trigger = FALSE]
       /\ UNCHANGED <<clock, readyout>>

\* The transfer width (settw) changes no part of the mode that is modelled.
Buffer == /\ \/ Does("clrbuf") /\ held' = "nothing"
             \/ Does("settw") /\ UNCHANGED held
             \/ Does("endin") /\ held' = IF port.dir = "in" /\ held = "nothing"
                                         THEN "sample" ELSE held
          /\ UNCHANGED <<port, clock, readyout>>

ReadyOut == /\ \/ Does("outready") /\ readyout' = "ready"
               \/ Does("readyout_data") /\ readyout' = "data"
            /\ UNCHANGED <<port, clock, held>>

Clock == /\ \/ Does("clk_on") /\ clock' = [state |-> "stopped", rdyin |-> FALSE]
            \/ Does("clk_off") /\ clock' = [state |-> "off", rdyin |-> FALSE]
            \/ Does("clk_start") /\ clock' = [clock EXCEPT !.state = "running"]
            \/ Does("clk_stop") /\ clock' = [clock EXCEPT !.state = "stopped"]
            \/ Does("clk_configure") /\ UNCHANGED clock
            \/ Does("readysrc") /\ clock' = [clock EXCEPT !.rdyin = TRUE]
         /\ UNCHANGED <<port, readyout, held>>

Core == \/ Configure \/ SetTrigger \/ InUse \/ In \/ Out \/ Buffer \/ ReadyOut \/ Clock \/ Trap

Call(f) == /\ pc = 0
           /\ fn' = f /\ pc' = 1 /\ initial' = "none"
           /\ arg' \in IF Range(Code[f]) \cap {"outready", "readysrc"} = {}
                      THEN {FALSE} ELSE BOOLEAN
           /\ UNCHANGED <<port, clock, readyout, held>>

Next == \/ Edge(Drive) \/ Edge(Turn) \/ Edge(Sample) \/ Edge(TimeReached)
        \/ Core
        \/ \E f \in DOMAIN Code : Call(f)

Spec == Init /\ [][Next]_vars

\* Instructions issue, and a clock that runs keeps ticking.
FairSpec == Spec /\ WF_vars(Core) /\ WF_vars(FreeEdge)

(***************************************************************************)
(* Properties                                                              *)
(***************************************************************************)
InProtocol(f) == f \in {"in_handshake", "in_strobed_master", "in_strobed_slave"}
Returns(fs) == fn \in fs /\ pc > 0 /\ pc' = 0 /\ ~Traps

\* The ready mode that each protocol documents, in the fields of the port.
Promised(f) ==
   [ready |-> IF f \in {"in_handshake", "out_handshake"} THEN "handshake" ELSE "strobed",
    ms    |-> IF f \in {"in_strobed_slave", "out_strobed_slave"} THEN "slave" ELSE "master"]

\* A protocol call that returns error_none leaves the clock, the ready ports and
\* the ready mode as documented, and an input port if it is an input protocol,
\* whatever mode they were in before (port_protocol_*).  Of an output protocol
\* xcore_c_port_protocol.h:57, :145 and :222 say "the port drives the
\* initial value on its pins until an output statement changes the value
\* driven".  The code ensures less: the value is on the pins of an output port or
\* still to come, or, if no edge of the port's earlier clock came in time, was
\* dropped by _port_clear_buffer (:97, :177) with its change of direction.  Only
\* port_protocol_out_strobed_slave, which does not clear the buffer, keeps it.
Established ==
   [][Returns(DOMAIN Protocol) =>
         /\ port'.buffered /\ port'.drive = "data" /\ port'.clk = "clk"
         /\ port'.ready = Promised(fn).ready /\ port'.ms = Promised(fn).ms
         /\ port'.ready = "handshake" \/ port'.ms = "slave" => clock'.rdyin
         /\ port'.ms = "master" => readyout' = "ready"
         /\ InProtocol(fn) => port'.dir = "in"
         /\ ~InProtocol(fn) => \/ held' = "initial"
                               \/ initial' = "driven" /\ port'.dir = "out"
                               \/ initial' = "dropped" /\ fn # "out_strobed_slave"]_vars

\* Nothing from before a protocol call is left in the buffer when it returns:
\* the next input gets no sample of another clock or ready mode, and the pins
\* no output but the initial value, also on a clock that already runs.
NothingStale == [][Returns(DOMAIN Protocol) => held' \notin {"stale", "data"}]_vars

\* The next instruction traps though the call was given a port and a clock in
\* use and 1-bit ready ports.
ProtocolTraps == /\ fn \in DOMAIN Protocol /\ Traps
                 /\ port.use /\ clock.state # "off" /\ arg

\* The instructions of each protocol are in an order that a valid port accepts
\* whatever its mode was, so that none is configured half way.  The exception
\* are the handshake protocols, on a port that was a strobed slave.
OrderAccepted == ProtocolTraps => At("handshake") /\ port.ms = "slave"

\* Every variable has its type, and a valid port accepts every protocol.
Inv == TypeOK /\ OrderAccepted

\* "ET_ILLEGAL_RESOURCE: not a valid port/clock or clock is running, or
\* readyin/readyout not a one bit port": there is no other reason.
TrapsOnlyAsDocumented == ProtocolTraps => clock.state = "running"

\* The combined calls leave no trigger behind that would hold up the next
\* input or output, when port_in_when_pins* is told how the port is buffered.
TriggersConsumed ==
   [][/\ Returns({"port_in_at_time", "port_out_at_time"}) => ~port'.time_trigger
      /\ Returns({"port_in_when_unbuffered", "port_in_when_buffered"})
            /\ (fn = "port_in_when_buffered" => port.buffered) => ~port'.in_trigger]_vars

\* On a port whose clock runs, that waits for no ready-in and for no value on
\* its pins, every call returns.
CallsReturn ==
   /\ pc = 1 /\ Clocked /\ FreeRunning /\ ~port.in_trigger
   /\ fn \notin {"port_in_when_unbuffered", "port_in_when_buffered"}
   ~> pc = 0
=============================================================================
