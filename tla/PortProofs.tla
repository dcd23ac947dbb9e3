----------------------------- MODULE PortProofs -----------------------------
(***************************************************************************)
(* Theorems about Port.tla: from any mode the protocols bring the port to  *)
(* the ready mode they document, with nothing stale in its buffer.         *)
(***************************************************************************)
EXTENDS Port, TLAPS

(***************************************************************************)
(* The inductive invariant                                                 *)
(***************************************************************************)
\* The call has made instruction i.
Passed(i) == \E j \in 1 .. pc - 1 : Code[fn][j] = i

\* The instructions of the protocols, and those that the call has made.
Instructions == {"inout", "buffers", "in", "out_initial", "readysrc", "setclk", "handshake",
                 "strobed", "master", "slave", "clrbuf", "outready"}
Done == {i \in Instructions : Passed(i)}

\* What the instructions D of a protocol have configured is still so, though the
\* clock ticks: no later instruction undoes an earlier one.
Configuring(D) ==
   /\ "inout" \in D => port.drive = "data"
   /\ "buffers" \in D => port.buffered
   /\ "setclk" \in D => port.clk = "clk"
   /\ "strobed" \in D => port.ready = "strobed"
   /\ "handshake" \in D => port.ready = "handshake" /\ port.ms = "master"
   /\ "master" \in D => port.ms = "master"
   /\ "slave" \in D => port.ms = "slave"
   /\ "readysrc" \in D => clock.rdyin
   /\ "outready" \in D => readyout = "ready"

\* An input protocol leaves no output behind; in an output protocol the initial
\* value is pending or on the pins, so that nothing is sampled, until the buffer
\* is cleared, which may drop it; and when the buffer has been cleared only a
\* sample of the new mode can be in it.
Flushing(D) ==
   /\ "in" \in D => port.dir = "in" /\ ~Pending
   /\ "out_initial" \in D /\ "clrbuf" \notin D =>
         held = "initial" \/ (held = "nothing" /\ port.dir = "out" /\ initial = "driven")
   /\ "out_initial" \in D /\ "clrbuf" \in D =>
         (port.dir = "out" /\ initial = "driven") \/ initial = "dropped"
   /\ "clrbuf" \in D => held \in {"nothing", "sample"}

Progress == fn \in DOMAIN Protocol => Configuring(Done) /\ Flushing(Done)

IInv == TypeOK /\ Progress

(***************************************************************************)
(* The calls                                                               *)
(***************************************************************************)
\* The names of the calls.
LEMMA ProtocolNames ==
   DOMAIN Protocol = {"in_handshake", "out_handshake", "in_strobed_master",
                      "out_strobed_master", "in_strobed_slave", "out_strobed_slave"}
BY DEF Protocol

LEMMA TransferNames ==
   DOMAIN Transfer = {"port_in", "port_out", "port_in_at_time", "port_out_at_time",
                      "port_in_when_unbuffered", "port_in_when_buffered",
                      "port_force_input", "port_endin", "port_clear_buffer"}
BY DEF Transfer

LEMMA CallNames ==
   DOMAIN Code = DOMAIN Protocol \cup DOMAIN Transfer \cup DOMAIN Configuration
BY DEF Code

\* The instructions of each protocol.
LEMMA InHandshake ==
   /\ Len(port_protocol_in_handshake) = 8
   /\ port_protocol_in_handshake[1] = "inout" /\ port_protocol_in_handshake[2] = "buffers"
   /\ port_protocol_in_handshake[3] = "in" /\ port_protocol_in_handshake[4] = "readysrc"
   /\ port_protocol_in_handshake[5] = "setclk" /\ port_protocol_in_handshake[6] = "handshake"
   /\ port_protocol_in_handshake[7] = "clrbuf" /\ port_protocol_in_handshake[8] = "outready"
BY DEF port_protocol_in_handshake, InMode

LEMMA OutHandshake ==
   /\ Len(port_protocol_out_handshake) = 8
   /\ port_protocol_out_handshake[1] = "inout" /\ port_protocol_out_handshake[2] = "buffers"
   /\ port_protocol_out_handshake[3] = "out_initial" /\ port_protocol_out_handshake[4] = "readysrc"
   /\ port_protocol_out_handshake[5] = "setclk" /\ port_protocol_out_handshake[6] = "handshake"
   /\ port_protocol_out_handshake[7] = "clrbuf" /\ port_protocol_out_handshake[8] = "outready"
BY DEF port_protocol_out_handshake, OutMode

LEMMA InMaster ==
   /\ Len(port_protocol_in_strobed_master) = 8
   /\ port_protocol_in_strobed_master[1] = "inout" /\ port_protocol_in_strobed_master[2] = "buffers"
   /\ port_protocol_in_strobed_master[3] = "in" /\ port_protocol_in_strobed_master[4] = "setclk"
   /\ port_protocol_in_strobed_master[5] = "strobed" /\ port_protocol_in_strobed_master[6] = "master"
   /\ port_protocol_in_strobed_master[7] = "clrbuf" /\ port_protocol_in_strobed_master[8] = "outready"
BY DEF port_protocol_in_strobed_master, InMode

LEMMA OutMaster ==
   /\ Len(port_protocol_out_strobed_master) = 8
   /\ port_protocol_out_strobed_master[1] = "inout" /\ port_protocol_out_strobed_master[2] = "buffers"
   /\ port_protocol_out_strobed_master[3] = "out_initial"
   /\ port_protocol_out_strobed_master[4] = "setclk"
   /\ port_protocol_out_strobed_master[5] = "strobed" /\ port_protocol_out_strobed_master[6] = "master"
   /\ port_protocol_out_strobed_master[7] = "clrbuf" /\ port_protocol_out_strobed_master[8] = "outready"
BY DEF port_protocol_out_strobed_master, OutMode

LEMMA InSlave ==
   /\ Len(port_protocol_in_strobed_slave) = 8
   /\ port_protocol_in_strobed_slave[1] = "inout" /\ port_protocol_in_strobed_slave[2] = "buffers"
   /\ port_protocol_in_strobed_slave[3] = "in" /\ port_protocol_in_strobed_slave[4] = "readysrc"
   /\ port_protocol_in_strobed_slave[5] = "setclk" /\ port_protocol_in_strobed_slave[6] = "strobed"
   /\ port_protocol_in_strobed_slave[7] = "slave" /\ port_protocol_in_strobed_slave[8] = "clrbuf"
BY DEF port_protocol_in_strobed_slave, InMode

LEMMA OutSlave ==
   /\ Len(port_protocol_out_strobed_slave) = 7
   /\ port_protocol_out_strobed_slave[1] = "inout" /\ port_protocol_out_strobed_slave[2] = "buffers"
   /\ port_protocol_out_strobed_slave[3] = "out_initial" /\ port_protocol_out_strobed_slave[4] = "readysrc"
   /\ port_protocol_out_strobed_slave[5] = "setclk" /\ port_protocol_out_strobed_slave[6] = "strobed"
   /\ port_protocol_out_strobed_slave[7] = "slave"
BY DEF port_protocol_out_strobed_slave, OutMode

\* What the proofs use of the order of instructions of a protocol.
Ordered(f, c) ==
   /\ c[1] = "inout" /\ c[2] = "buffers"
   /\ c[3] = (IF InProtocol(f) THEN "in" ELSE "out_initial")
   /\ \A j \in 1 .. Len(c) :
         /\ c[j] \in Instructions
         /\ c[j] \in {"in", "out_initial"} => j = 3
         /\ c[j] \in {"handshake", "strobed"} => j > 3 /\ c[j] = Promised(f).ready
         /\ c[j] \in {"master", "slave"} =>
               j > 4 /\ c[j] = Promised(f).ms /\ Promised(f).ready = "strobed" /\ c[j - 1] = "strobed"
   /\ \A j, k \in 1 .. Len(c) : c[j] = "clrbuf" /\ j < k => c[k] = "outready"

\* Every protocol has the instructions that bring about what it promises.
Has(c, i) == \E j \in 1 .. Len(c) : c[j] = i
Complete(f, c) ==
   /\ Has(c, "setclk") /\ Has(c, Promised(f).ready)
   /\ Promised(f).ready = "strobed" => Has(c, Promised(f).ms)
   /\ Promised(f).ready = "handshake" \/ Promised(f).ms = "slave" => Has(c, "readysrc")
   /\ Promised(f).ms = "master" => Has(c, "outready")
   /\ IF f = "out_strobed_slave" THEN ~Has(c, "clrbuf") ELSE Has(c, "clrbuf")

LEMMA ProtocolOrder ==
   ASSUME NEW f \in DOMAIN Protocol
   PROVE  /\ Len(Code[f]) \in Nat /\ Len(Code[f]) >= 7
          /\ Ordered(f, Code[f]) /\ Complete(f, Code[f])
<1> DEFINE P(g) == /\ Len(Code[g]) \in Nat /\ Len(Code[g]) >= 7
                   /\ Ordered(g, Code[g]) /\ Complete(g, Code[g])
<1>0. \A j \in 1 .. 8 : j \in {1, 2, 3, 4, 5, 6, 7, 8}
  OBVIOUS
<1>1. P("in_handshake")
  <2>1. Code["in_handshake"] = port_protocol_in_handshake
    BY ProtocolNames DEF Code, Protocol
  <2>2. Ordered("in_handshake", port_protocol_in_handshake)
    BY <1>0, InHandshake DEF Ordered, Instructions, InProtocol, Promised
  <2>3. Complete("in_handshake", port_protocol_in_handshake)
    BY InHandshake DEF Complete, Has, Promised
  <2> QED
    BY <2>1, <2>2, <2>3, InHandshake
<1>2. P("out_handshake")
  <2>1. Code["out_handshake"] = port_protocol_out_handshake
    BY ProtocolNames DEF Code, Protocol
  <2>2. Ordered("out_handshake", port_protocol_out_handshake)
    BY <1>0, OutHandshake DEF Ordered, Instructions, InProtocol, Promised
  <2>3. Complete("out_handshake", port_protocol_out_handshake)
    BY OutHandshake DEF Complete, Has, Promised
  <2> QED
    BY <2>1, <2>2, <2>3, OutHandshake
<1>3. P("in_strobed_master")
  <2>1. Code["in_strobed_master"] = port_protocol_in_strobed_master
    BY ProtocolNames DEF Code, Protocol
  <2>2. Ordered("in_strobed_master", port_protocol_in_strobed_master)
    BY <1>0, InMaster DEF Ordered, Instructions, InProtocol, Promised
  <2>3. Complete("in_strobed_master", port_protocol_in_strobed_master)
    BY InMaster DEF Complete, Has, Promised
  <2> QED
    BY <2>1, <2>2, <2>3, InMaster
<1>4. P("out_strobed_master")
  <2>1. Code["out_strobed_master"] = port_protocol_out_strobed_master
    BY ProtocolNames DEF Code, Protocol
  <2>2. Ordered("out_strobed_master", port_protocol_out_strobed_master)
    BY <1>0, OutMaster DEF Ordered, Instructions, InProtocol, Promised
  <2>3. Complete("out_strobed_master", port_protocol_out_strobed_master)
    BY OutMaster DEF Complete, Has, Promised
  <2> QED
    BY <2>1, <2>2, <2>3, OutMaster
<1>5. P("in_strobed_slave")
  <2>1. Code["in_strobed_slave"] = port_protocol_in_strobed_slave
    BY ProtocolNames DEF Code, Protocol
  <2>2. Ordered("in_strobed_slave", port_protocol_in_strobed_slave)
    BY <1>0, InSlave DEF Ordered, Instructions, InProtocol, Promised
  <2>3. Complete("in_strobed_slave", port_protocol_in_strobed_slave)
    BY InSlave DEF Complete, Has, Promised
  <2> QED
    BY <2>1, <2>2, <2>3, InSlave
<1>6. P("out_strobed_slave")
  <2>1. Code["out_strobed_slave"] = port_protocol_out_strobed_slave
    BY ProtocolNames DEF Code, Protocol
  <2>2. Ordered("out_strobed_slave", port_protocol_out_strobed_slave)
    BY <1>0, OutSlave DEF Ordered, Instructions, InProtocol, Promised
  <2>3. Complete("out_strobed_slave", port_protocol_out_strobed_slave)
    BY OutSlave DEF Complete, Has, Promised
  <2> QED
    BY <2>1, <2>2, <2>3, OutSlave
<1> QED
  BY <1>1, <1>2, <1>3, <1>4, <1>5, <1>6, ProtocolNames

\* The instructions of the calls that combine a transfer with a trigger.
LEMMA TransferCode ==
   /\ Len(Code["port_in_at_time"]) = 2 /\ Code["port_in_at_time"][2] = "in"
   /\ Len(Code["port_out_at_time"]) = 2 /\ Code["port_out_at_time"][2] = "out"
   /\ Len(Code["port_in_when_unbuffered"]) = 3 /\ Code["port_in_when_unbuffered"][3] = "condnone"
   /\ Len(Code["port_in_when_buffered"]) = 2 /\ Code["port_in_when_buffered"][2] = "in"
<1>1. \A f \in DOMAIN Transfer : Code[f] = Transfer[f]
  BY ProtocolNames, TransferNames DEF Code
<1>2. Len(Transfer["port_in_at_time"]) = 2 /\ Transfer["port_in_at_time"][2] = "in"
  BY DEF Transfer
<1>3. Len(Transfer["port_out_at_time"]) = 2 /\ Transfer["port_out_at_time"][2] = "out"
  BY DEF Transfer
<1>4. /\ Len(Transfer["port_in_when_unbuffered"]) = 3
      /\ Transfer["port_in_when_unbuffered"][3] = "condnone"
  BY DEF Transfer, port_in_when_pins
<1>5. /\ Len(Transfer["port_in_when_buffered"]) = 2
      /\ Transfer["port_in_when_buffered"][2] = "in"
  BY DEF Transfer, port_in_when_pins
<1> QED
  BY <1>1, <1>2, <1>3, <1>4, <1>5, TransferNames

\* Every call has an instruction.
LEMMA Lengths == \A f \in DOMAIN Code : Len(Code[f]) \in Nat \ {0}
<1>1. \A f \in DOMAIN Transfer : Len(Transfer[f]) \in Nat \ {0}
  <2>1. Len(Transfer["port_in"]) = 1
    BY DEF Transfer
  <2>2. Len(Transfer["port_out"]) = 1
    BY DEF Transfer
  <2>3. Len(Transfer["port_in_at_time"]) = 2 /\ Len(Transfer["port_out_at_time"]) = 2
    BY DEF Transfer
  <2>4. /\ Len(Transfer["port_in_when_unbuffered"]) = 3
        /\ Len(Transfer["port_in_when_buffered"]) = 2
    BY DEF Transfer, port_in_when_pins
  <2>5. /\ Len(Transfer["port_force_input"]) = 2 /\ Len(Transfer["port_endin"]) = 1
        /\ Len(Transfer["port_clear_buffer"]) = 1
    BY DEF Transfer
  <2> QED
    BY <2>1, <2>2, <2>3, <2>4, <2>5, TransferNames
<1>2. \A f \in DOMAIN Configuration : Len(Configuration[f]) \in Nat \ {0}
  BY DEF Configuration
<1>3. \A f \in DOMAIN Protocol : Len(Code[f]) \in Nat \ {0}
  BY ProtocolOrder
<1> QED
  BY <1>1, <1>2, <1>3, CallNames DEF Code

(***************************************************************************)
(* Steps of a call                                                         *)
(***************************************************************************)
\* A call that makes an instruction goes on with the next one or returns.
LEMMA InCall ==
   ASSUME TypeOK, NEW i, Does(i)
   PROVE  /\ fn \in DOMAIN Code /\ pc \in 1 .. Len(Code[fn]) /\ Len(Code[fn]) \in Nat
          /\ Code[fn][pc] = i /\ ~Illegal(i) /\ ~Traps
          /\ initial' = IF i = "clrbuf" /\ held = "initial" THEN "dropped" ELSE initial
          /\ \/ pc = Len(Code[fn]) /\ fn' = "idle" /\ pc' = 0 /\ arg' = FALSE
             \/ pc # Len(Code[fn]) /\ pc' = pc + 1 /\ pc' > 0 /\ fn' = fn /\ arg' = arg
<1>1. fn \in DOMAIN Code /\ pc \in 1 .. Len(Code[fn])
  BY DEF TypeOK, Does, At
<1>2. Len(Code[fn]) \in Nat
  BY <1>1, Lengths
<1>3. Code[fn][pc] = i /\ ~Illegal(i)
  BY DEF Does, At
<1>4. ~Traps
  BY <1>3 DEF Traps
<1> QED
  BY <1>1, <1>2, <1>3, <1>4 DEF Does, Return

\* The types of the place in the call.
LEMMA PlaceTyped ==
   ASSUME TypeOK, NEW i, Does(i)
   PROVE  /\ \/ fn' = "idle" /\ pc' = 0
             \/ fn' \in DOMAIN Code /\ pc' \in 1 .. Len(Code[fn'])
          /\ arg' \in BOOLEAN /\ initial' \in {"none", "driven", "dropped"}
<1>3. initial' \in {"none", "driven", "dropped"}
  BY InCall DEF TypeOK
<1>1. CASE pc = Len(Code[fn])
  BY <1>1, <1>3, InCall
<1>2. CASE pc # Len(Code[fn])
  <2>1. fn' = fn /\ pc' = pc + 1 /\ arg' = arg /\ arg \in BOOLEAN
    BY <1>2, InCall DEF TypeOK
  <2>2. pc + 1 \in 1 .. Len(Code[fn])
    <3>1. ASSUME NEW n \in Nat, NEW k \in 1 .. n, k # n
          PROVE  k + 1 \in 1 .. n
      BY <3>1
    <3>2. pc \in 1 .. Len(Code[fn])
      BY InCall
    <3>3. Len(Code[fn]) \in Nat
      BY InCall
    <3> QED
      BY <1>2, <3>1, <3>2, <3>3
  <2> QED
    BY <1>3, <2>1, <2>2, InCall
<1> QED
  BY <1>1, <1>2

\* The state port_alloc documents, and that of a port that is off.
LEMMA ResetTyped == Reset \in Ports /\ [Reset EXCEPT !.use = FALSE] \in Ports
<1>1. Reset \in Ports
  BY DEF Reset, Ports
<1>2. ASSUME NEW p \in Ports
      PROVE  [p EXCEPT !.use = FALSE] \in Ports
  BY DEF Ports
<1> QED
  BY <1>1, <1>2

LEMMA TypeInit == Init => TypeOK
<1>1. [state |-> "off", rdyin |-> FALSE] \in [state : {"off", "stopped", "running"}, rdyin : BOOLEAN]
  OBVIOUS
<1> QED
  BY ResetTyped, <1>1 DEF Init, TypeOK, Contents

\* Every step keeps the types.
LEMMA TypeStep ==
   ASSUME TypeOK, [Next]_vars
   PROVE  TypeOK'
<1>0. /\ port \in Ports /\ clock \in [state : {"off", "stopped", "running"}, rdyin : BOOLEAN]
      /\ readyout \in {"data", "ready"} /\ held \in Contents
      /\ initial \in {"none", "driven", "dropped"}
  BY DEF TypeOK
<1>1. ASSUME NEW i, Does(i), port' \in Ports, held' \in Contents, readyout' \in {"data", "ready"},
             clock' \in [state : {"off", "stopped", "running"}, rdyin : BOOLEAN]
      PROVE  TypeOK'
  BY <1>1, PlaceTyped DEF TypeOK
<1>2. ASSUME Edge(Drive) \/ Edge(Turn) \/ Edge(Sample) \/ Edge(TimeReached)
      PROVE  TypeOK'
  <2>1. port' \in Ports
    BY <1>0, <1>2 DEF Edge, Drive, Turn, Sample, TimeReached, Ports
  <2>2. held' \in Contents /\ initial' \in {"none", "driven", "dropped"}
    BY <1>0, <1>2 DEF Edge, Drive, Turn, Sample, TimeReached, Contents
  <2> QED
    BY <1>2, <2>1, <2>2 DEF TypeOK, Edge
<1>3. CASE Configure
  <2>1. PICK i : /\ i \in {"inout", "outclock", "buffers", "nobuffers", "setclk", "setref",
                           "master", "slave", "noready", "strobed", "handshake", "condnone",
                           "clrpt"}
                 /\ Does(i) /\ port' = Configured(i)
                 /\ held' = IF held = "sample" /\ SampledIn(port') # SampledIn(port)
                            THEN "stale" ELSE held
                 /\ UNCHANGED <<clock, readyout>>
    BY <1>3 DEF Configure
  <2>2. port' \in Ports
    BY <1>0, <2>1 DEF Configured, Readied, Ports
  <2>3. held' \in Contents
    BY <1>0, <2>1 DEF Contents
  <2> QED
    BY <1>0, <1>1, <2>1, <2>2, <2>3
<1>4. CASE SetTrigger
  <2>1. port' \in Ports /\ held' \in Contents /\ UNCHANGED <<clock, readyout>>
    BY <1>0, <1>4 DEF SetTrigger, Ports, Contents
  <2> QED
    BY <1>0, <1>1, <1>4, <2>1 DEF SetTrigger
<1>5. CASE InUse
  <2>1. port' \in Ports /\ held' \in Contents /\ UNCHANGED <<clock, readyout>>
    BY <1>5, ResetTyped DEF InUse, Contents
  <2> QED
    BY <1>0, <1>1, <1>5, <2>1 DEF InUse
<1>6. CASE In
  <2>1. port' \in Ports /\ held' \in Contents /\ UNCHANGED <<clock, readyout>>
    BY <1>0, <1>6 DEF In, Ports, Contents
  <2> QED
    BY <1>0, <1>1, <1>6, <2>1 DEF In
<1>7. CASE Out
  <2>1. port' \in Ports /\ held' \in Contents /\ UNCHANGED <<clock, readyout>>
    BY <1>0, <1>7 DEF Out, Ports, Contents
  <2> QED
    BY <1>0, <1>1, <1>7, <2>1 DEF Out
<1>8. CASE Buffer
  <2>1. port' \in Ports /\ held' \in Contents /\ UNCHANGED <<clock, readyout>>
    BY <1>0, <1>8 DEF Buffer, Contents
  <2> QED
    BY <1>0, <1>1, <1>8, <2>1 DEF Buffer
<1>9. CASE ReadyOut
  BY <1>0, <1>1, <1>9 DEF ReadyOut
<1>10. CASE Clock
  <2>1. clock' \in [state : {"off", "stopped", "running"}, rdyin : BOOLEAN]
    <3> DEFINE Clocks == [state : {"off", "stopped", "running"}, rdyin : BOOLEAN]
    <3>1. clock \in Clocks
      BY <1>0
    <3>2. /\ [state |-> "stopped", rdyin |-> FALSE] \in Clocks
          /\ [state |-> "off", rdyin |-> FALSE] \in Clocks
      OBVIOUS
    <3>3. /\ [clock EXCEPT !.state = "running"] \in Clocks
          /\ [clock EXCEPT !.state = "stopped"] \in Clocks
          /\ [clock EXCEPT !.rdyin = TRUE] \in Clocks
      BY <3>1
    <3> HIDE DEF Clocks
    <3>4. clock' \in Clocks
      BY <1>10, <3>1, <3>2, <3>3 DEF Clock
    <3> QED
      BY <3>4 DEF Clocks
  <2> QED
    BY <1>0, <1>1, <1>10, <2>1 DEF Clock
<1>11. CASE Trap
  BY <1>11 DEF Trap, Return, TypeOK
<1>12. ASSUME NEW f \in DOMAIN Code, Call(f)
       PROVE  TypeOK'
  <2>1. fn' \in DOMAIN Code /\ pc' \in 1 .. Len(Code[fn'])
    BY <1>12, Lengths DEF Call
  <2>2. arg' \in BOOLEAN
    BY <1>12 DEF Call
  <2> QED
    BY <1>12, <2>1, <2>2 DEF TypeOK, Call
<1>13. CASE UNCHANGED vars
  BY <1>13 DEF TypeOK, vars
<1> QED
  BY <1>2, <1>3, <1>4, <1>5, <1>6, <1>7, <1>8, <1>9, <1>10, <1>11, <1>12, <1>13
     DEF Next, Core

(***************************************************************************)
(* Steps of a protocol                                                     *)
(***************************************************************************)
\* In a protocol a step makes one instruction of it, and these facts of its
\* place in the protocol are all that the effect of the step depends on.
LEMMA ProtocolStep ==
   ASSUME TypeOK, NEW i, Does(i), fn \in DOMAIN Protocol, fn' \in DOMAIN Protocol
   PROVE  /\ fn' = fn /\ i \in Instructions
          /\ \A k : Passed(k)' <=> Passed(k) \/ k = i
<1>1. /\ fn' = fn /\ pc' = pc + 1 /\ pc \in 1 .. Len(Code[fn]) /\ Len(Code[fn]) \in Nat
      /\ Code[fn][pc] = i
  BY InCall, ProtocolNames
<1>2. i \in Instructions
  BY <1>1, ProtocolOrder DEF Ordered
<1>3. PICK n \in Nat : n = pc
  BY <1>1
<1>4. n >= 1
  BY <1>1, <1>3
<1>5. \A k : Passed(k) <=> \E j \in 1 .. n - 1 : Code[fn][j] = k
  BY <1>3 DEF Passed
<1>6. \A k : Passed(k)' <=> \E j \in 1 .. n : Code[fn][j] = k
  <2>1. pc' - 1 = n
    BY <1>1, <1>3
  <2> QED
    BY <1>1, <2>1 DEF Passed
<1>7. \A j : j \in 1 .. n <=> j \in 1 .. n - 1 \/ j = n
  BY <1>4
<1> QED
  BY <1>1, <1>2, <1>3, <1>5, <1>6, <1>7

\* When a protocol is at its instruction i: what it is not past yet, and what
\* it is past already.
LEMMA Place ==
   ASSUME TypeOK, fn \in DOMAIN Protocol, NEW i, At(i)
   PROVE  /\ i \in Instructions
          /\ Passed("clrbuf") => i = "outready"
          /\ i \in {"handshake", "strobed"} => i = Promised(fn).ready /\ Passed("buffers")
          /\ i \in {"master", "slave"} => i = Promised(fn).ms /\ Promised(fn).ready = "strobed"
                                          /\ Passed("strobed")
          /\ i = "in" => InProtocol(fn) /\ ~Passed("out_initial")
          /\ i = "out_initial" => ~InProtocol(fn) /\ ~Passed("in")
<1>1. PICK n \in Nat : n = Len(Code[fn])
  BY ProtocolOrder
<1>2. PICK p \in 1 .. n : p = pc /\ Code[fn][p] = i
  BY <1>1 DEF TypeOK, At
<1>3. Ordered(fn, Code[fn])
  BY ProtocolOrder
<1>4. \A k : Passed(k) => \E j \in 1 .. n : j < p /\ Code[fn][j] = k
  BY <1>2 DEF Passed
<1>5. \A j \in 1 .. n : j < p => Passed(Code[fn][j])
  BY <1>2 DEF Passed
<1>6. i \in Instructions
  BY <1>1, <1>2, <1>3 DEF Ordered
<1>7. Passed("clrbuf") => i = "outready"
  BY <1>1, <1>2, <1>3, <1>4 DEF Ordered
<1>8. i \in {"handshake", "strobed"} => i = Promised(fn).ready /\ Passed("buffers")
  <2>1. i \in {"handshake", "strobed"} => i = Promised(fn).ready /\ p > 3
    BY <1>1, <1>2, <1>3 DEF Ordered
  <2>2. p > 3 => Passed("buffers")
    BY <1>3, <1>5 DEF Ordered
  <2> QED
    BY <2>1, <2>2
<1>9. ASSUME i \in {"master", "slave"}
      PROVE  i = Promised(fn).ms /\ Promised(fn).ready = "strobed" /\ Passed("strobed")
  <2>1. /\ i = Promised(fn).ms /\ Promised(fn).ready = "strobed" /\ p > 4
        /\ Code[fn][p - 1] = "strobed"
    BY <1>1, <1>2, <1>3, <1>9 DEF Ordered
  <2>2. p - 1 \in 1 .. n /\ p - 1 < p
    BY <2>1
  <2> QED
    BY <1>5, <2>1, <2>2
<1>10. i \in {"in", "out_initial"} => p = 3
  BY <1>1, <1>2, <1>3 DEF Ordered
<1>11. Code[fn][3] = IF InProtocol(fn) THEN "in" ELSE "out_initial"
  BY <1>3 DEF Ordered
<1>12. \A k \in {"in", "out_initial"} : Passed(k) => p > 3
  BY <1>1, <1>3, <1>4 DEF Ordered
<1>13. i = "in" => InProtocol(fn) /\ ~Passed("out_initial")
  BY <1>2, <1>10, <1>11, <1>12
<1>14. i = "out_initial" => ~InProtocol(fn) /\ ~Passed("in")
  BY <1>2, <1>10, <1>11, <1>12
<1> QED
  BY <1>6, <1>7, <1>8, <1>9, <1>13, <1>14

\* What a protocol has passed agrees with what it promises.
LEMMA Past ==
   ASSUME TypeOK, fn \in DOMAIN Protocol
   PROVE  /\ \A k \in {"handshake", "strobed"} : Passed(k) => k = Promised(fn).ready
          /\ \A k \in {"master", "slave"} :
                Passed(k) => k = Promised(fn).ms /\ Promised(fn).ready = "strobed"
          /\ ~(Passed("in") /\ Passed("out_initial"))
<1>1. PICK n \in Nat : n = Len(Code[fn])
  BY ProtocolOrder
<1>2. Ordered(fn, Code[fn])
  BY ProtocolOrder
<1>3. pc \in 0 .. n
  BY <1>1, Lengths, CallNames DEF TypeOK
<1>4. \A k : Passed(k) => \E j \in 1 .. n : Code[fn][j] = k
  BY <1>3 DEF Passed
<1>5. ~(Passed("in") /\ Passed("out_initial"))
  BY <1>1, <1>2, <1>4 DEF Ordered
<1> QED
  BY <1>1, <1>2, <1>4, <1>5 DEF Ordered

\* No edge of the clock undoes what a protocol has done.
LEMMA EdgeKeeps ==
   ASSUME IInv, Edge(Drive) \/ Edge(Turn) \/ Edge(Sample) \/ Edge(TimeReached)
   PROVE  Progress'
<1>1. /\ fn' = fn /\ pc' = pc /\ clock' = clock /\ readyout' = readyout
      /\ Done' = Done
  BY DEF Edge, Done, Passed
<1>2. SUFFICES ASSUME fn \in DOMAIN Protocol, NEW D, D = Done
               PROVE  Configuring(D)' /\ Flushing(D)'
  BY <1>1 DEF Progress, Configuring, Flushing
<1>3. Configuring(D) /\ Flushing(D) /\ TypeOK /\ port \in Ports
  BY <1>2 DEF IInv, Progress, TypeOK
<1>4. CASE Edge(Drive)
  <2>1. /\ Pending /\ held' = "nothing" /\ port' = [port EXCEPT !.dir = "out"]
        /\ initial' = IF held = "initial" THEN "driven" ELSE initial
    BY <1>4 DEF Edge, Drive
  <2>2. Configuring(D)'
    BY <1>1, <1>3, <2>1 DEF Configuring, Ports
  <2>3. Flushing(D)'
    BY <1>1, <1>3, <2>1 DEF Flushing, Pending, Ports
  <2> QED
    BY <2>2, <2>3
<1>5. CASE Edge(Turn)
  <2>1. /\ At("in") /\ port.dir = "out" /\ ~Pending /\ port' = [port EXCEPT !.dir = "in"]
        /\ held' = held /\ initial' = initial
    BY <1>5 DEF Edge, Turn
  <2>2. "out_initial" \notin D
    BY <1>2, <1>3, <2>1, Place DEF Done
  <2>3. Configuring(D)'
    BY <1>1, <1>3, <2>1 DEF Configuring, Ports
  <2>4. Flushing(D)'
    BY <1>1, <1>3, <2>1, <2>2 DEF Flushing, Pending, Ports
  <2> QED
    BY <2>3, <2>4
<1>6. CASE Edge(Sample)
  <2>1. /\ port.dir = "in" /\ held = "nothing" /\ held' = "sample" /\ port' = port
        /\ initial' = initial
    BY <1>6 DEF Edge, Sample
  <2>2. Configuring(D)'
    BY <1>1, <1>3, <2>1 DEF Configuring
  <2>3. Flushing(D)'
    BY <1>1, <1>3, <2>1 DEF Flushing, Pending
  <2> QED
    BY <2>2, <2>3
<1>7. ~TimeReached
  BY <1>2, <1>3, Place DEF TimeReached, Instructions
<1> QED
  BY <1>4, <1>5, <1>6, <1>7 DEF Edge

\* The facts of Place and Past, in terms of the instructions that were made.
LEMMA Before ==
   ASSUME TypeOK, fn \in DOMAIN Protocol, NEW i, At(i)
   PROVE  /\ i \in Instructions
          /\ "clrbuf" \in Done => i = "outready"
          /\ i = "handshake" => "strobed" \notin Done
          /\ i = "strobed" => "handshake" \notin Done
          /\ i \in {"master", "slave"} => "handshake" \notin Done
          /\ i = "master" => "slave" \notin Done
          /\ i = "slave" => "master" \notin Done
          /\ i = "in" => "out_initial" \notin Done
          /\ i = "out_initial" => "in" \notin Done
BY Place, Past DEF Done, Instructions

\* An instruction has its effect and undoes that of no earlier one.
LEMMA Effects ==
   ASSUME IInv, fn \in DOMAIN Protocol, Core, NEW i, At(i), ~Traps,
          NEW D, D = Done \cup {i}
   PROVE  Configuring(D)' /\ Flushing(D)'
<1>1. PICK E : E = Done
  OBVIOUS
<1>2. Configuring(E) /\ Flushing(E) /\ port \in Ports /\ TypeOK
  BY <1>1 DEF IInv, Progress, TypeOK
<1>3. /\ i \in Instructions
      /\ "clrbuf" \in E => i = "outready"
      /\ i = "handshake" => "strobed" \notin E
      /\ i = "strobed" => "handshake" \notin E
      /\ i \in {"master", "slave"} => "handshake" \notin E
      /\ i = "master" => "slave" \notin E
      /\ i = "slave" => "master" \notin E
      /\ i = "in" => "out_initial" \notin E
      /\ i = "out_initial" => "in" \notin E
  BY <1>1, <1>2, Before
<1>4. D = E \cup {i}
  BY <1>1
<1>5. \A k : Does(k) => k = i /\ ~Illegal(i) /\ (i # "clrbuf" => initial' = initial)
  BY DEF Does, At
<1>6. clock \in [state : {"off", "stopped", "running"}, rdyin : BOOLEAN]
  BY <1>2 DEF TypeOK
<1>7. CASE Configure
  <2>1. PICK k : /\ Does(k) /\ port' = Configured(k)
                 /\ held' = IF held = "sample" /\ SampledIn(port') # SampledIn(port)
                            THEN "stale" ELSE held
                 /\ UNCHANGED <<clock, readyout>>
                 /\ k \in {"inout", "outclock", "buffers", "nobuffers", "setclk", "setref", "master",
                           "slave", "noready", "strobed", "handshake", "condnone", "clrpt"}
    BY <1>7 DEF Configure
  <2>2. k = i /\ ~Illegal(i) /\ (i # "clrbuf" => initial' = initial)
    BY <1>5, <2>1
  <2>3. i \in {"inout", "buffers", "setclk", "master", "slave", "strobed", "handshake"}
    BY <1>3, <2>1, <2>2 DEF Instructions
  <2>4. i = "handshake" => port.ms = "master"
    BY <1>2, <2>2 DEF Illegal, Ports
  <2>5. Configuring(D)'
    <3>1. CASE i \in {"inout", "buffers", "setclk"}
      BY <1>2, <1>4, <2>1, <2>2, <3>1 DEF Configuring, Configured, Ports
    <3>2. CASE i \in {"master", "slave"}
      BY <1>2, <1>3, <1>4, <2>1, <2>2, <3>2 DEF Configuring, Configured, Ports
    <3>3. CASE i \in {"strobed", "handshake"}
      BY <1>2, <1>3, <1>4, <2>1, <2>2, <2>4, <3>3 DEF Configuring, Configured, Readied, Ports
    <3> QED
      BY <2>3, <3>1, <3>2, <3>3
  <2>6. /\ "in" \in D => "in" \in E
        /\ "out_initial" \in D => "out_initial" \in E
        /\ "clrbuf" \notin D /\ "clrbuf" \notin E
    BY <1>3, <1>4, <2>3
  <2>7. port'.dir = port.dir
    BY <1>2, <2>1, <2>2, <2>3 DEF Configured, Readied, Ports
  <2>8. Flushing(D)'
    BY <1>2, <2>1, <2>2, <2>3, <2>6, <2>7 DEF Flushing, Pending
  <2> QED
    BY <2>5, <2>8
<1>8. ~SetTrigger /\ ~InUse
  BY <1>3, <1>5 DEF SetTrigger, InUse, Instructions
<1>9. CASE In
  <2>1. /\ i = "in" /\ port.dir = "in" /\ held' = "nothing" /\ clock' = clock /\ readyout' = readyout
        /\ port' = [port EXCEPT !.time_trigger = FALSE,
                                !.in_trigger = port.in_trigger /\ ~port.buffered]
    BY <1>5, <1>9 DEF In
  <2>2. Configuring(D)'
    BY <1>2, <1>4, <2>1 DEF Configuring, Ports
  <2>3. Flushing(D)'
    BY <1>2, <1>3, <1>4, <2>1 DEF Flushing, Pending, Ports
  <2> QED
    BY <2>2, <2>3
<1>10. CASE Out
  <2>1. /\ i = "out_initial" /\ held' = "initial" /\ clock' = clock /\ readyout' = readyout
        /\ port' = [port EXCEPT !.time_trigger = FALSE]
    BY <1>3, <1>5, <1>10 DEF Out, Instructions
  <2>2. Configuring(D)'
    BY <1>2, <1>4, <2>1 DEF Configuring, Ports
  <2>3. Flushing(D)'
    BY <1>2, <1>3, <1>4, <2>1 DEF Flushing, Pending, Ports
  <2> QED
    BY <2>2, <2>3
<1>11. CASE Buffer
  <2>1. i = "clrbuf" /\ held' = "nothing" /\ port' = port /\ clock' = clock /\ readyout' = readyout
    BY <1>3, <1>5, <1>11 DEF Buffer, Instructions
  <2>4. initial' = IF held = "initial" THEN "dropped" ELSE initial
    BY <1>11, <2>1 DEF Buffer, Does, At
  <2>5. "clrbuf" \notin E
    BY <1>3, <2>1
  <2>2. Configuring(D)'
    BY <1>2, <1>4, <2>1 DEF Configuring
  <2>3. Flushing(D)'
    BY <1>2, <1>4, <2>1, <2>4, <2>5 DEF Flushing, Pending
  <2> QED
    BY <2>2, <2>3
<1>12. CASE ReadyOut
  <2>1. /\ i = "outready" /\ readyout' = "ready" /\ port' = port /\ clock' = clock
        /\ held' = held /\ initial' = initial
    BY <1>3, <1>5, <1>12 DEF ReadyOut, Instructions
  <2>2. Configuring(D)'
    BY <1>2, <1>4, <2>1 DEF Configuring
  <2>3. Flushing(D)'
    BY <1>2, <1>4, <2>1 DEF Flushing, Pending
  <2> QED
    BY <2>2, <2>3
<1>13. CASE Clock
  <2>1. /\ i = "readysrc" /\ clock' = [clock EXCEPT !.rdyin = TRUE]
        /\ port' = port /\ readyout' = readyout /\ held' = held /\ initial' = initial
    BY <1>3, <1>5, <1>13 DEF Clock, Instructions
  <2>2. Configuring(D)'
    BY <1>2, <1>4, <1>6, <2>1 DEF Configuring
  <2>3. Flushing(D)'
    BY <1>2, <1>4, <2>1 DEF Flushing, Pending
  <2> QED
    BY <2>2, <2>3
<1>14. ~Trap
  BY DEF Trap
<1> QED
  BY <1>7, <1>8, <1>9, <1>10, <1>11, <1>12, <1>13, <1>14 DEF Core

(***************************************************************************)
(* The theorems                                                            *)
(***************************************************************************)
\* A step of the core is an instruction, or a trap.
LEMMA CoreSteps ==
   ASSUME Core, ~Trap
   PROVE  \E i : Does(i)
BY DEF Core, Configure, SetTrigger, InUse, In, Out, Buffer, ReadyOut, Clock

LEMMA InvInit == Init => IInv
BY TypeInit, ProtocolNames DEF Init, IInv, Progress

LEMMA InvStep ==
   ASSUME IInv, [Next]_vars
   PROVE  IInv'
<1>1. TypeOK'
  BY TypeStep DEF IInv
<1>2. CASE Edge(Drive) \/ Edge(Turn) \/ Edge(Sample) \/ Edge(TimeReached)
  BY <1>1, <1>2, EdgeKeeps DEF IInv
<1>3. CASE Core
  <2>1. SUFFICES ASSUME fn' \in DOMAIN Protocol
                 PROVE  Configuring(Done)' /\ Flushing(Done)'
    BY <1>1 DEF IInv, Progress
  <2>2. ~Trap
    BY <2>1, ProtocolNames DEF Trap, Return
  <2>3. PICK i : Does(i)
    BY <1>3, <2>2, CoreSteps
  <2>4. fn \in DOMAIN Protocol
    BY <2>1, <2>3, InCall, ProtocolNames DEF IInv
  <2>5. PICK D : D = Done \cup {i}
    OBVIOUS
  <2>6. Done' = D
    <3>1. i \in Instructions /\ \A k : Passed(k)' <=> Passed(k) \/ k = i
      BY <2>1, <2>3, <2>4, ProtocolStep DEF IInv
    <3>2. Done' = {k \in Instructions : Passed(k)'}
      BY DEF Done
    <3>3. D = {k \in Instructions : Passed(k) \/ k = i}
      BY <2>5, <3>1 DEF Done
    <3> QED
      BY <3>1, <3>2, <3>3
  <2>7. Configuring(D)' /\ Flushing(D)'
    BY <1>3, <2>3, <2>4, <2>5, Effects, InCall DEF Does, IInv
  <2> QED
    BY <2>6, <2>7 DEF Configuring, Flushing
<1>4. ASSUME NEW f \in DOMAIN Code, Call(f)
      PROVE  Progress'
  <2>1. pc' = 1
    BY <1>4 DEF Call
  <2>2. Done' = {}
    BY <2>1 DEF Done, Passed
  <2> QED
    BY <2>2 DEF Progress, Configuring, Flushing
<1>5. CASE UNCHANGED vars
  BY <1>5 DEF vars, IInv, Progress, Configuring, Flushing, Done, Passed, Pending, TypeOK
<1> QED
  BY <1>1, <1>2, <1>3, <1>4, <1>5 DEF Next, IInv

LEMMA Invariance == Spec => []IInv
BY InvInit, InvStep, PTL DEF Spec

\* Every variable has its type, and the instructions of each protocol are in an
\* order that a valid port accepts whatever its mode was; only a handshake
\* protocol on a strobed slave traps (port_protocol_*).
THEOREM ProtocolsAccepted == Spec => []Inv
<1>1. IInv => Inv
  <2>1. SUFFICES ASSUME IInv, ProtocolTraps
                 PROVE  At("handshake") /\ port.ms = "slave"
    BY DEF IInv, Inv, OrderAccepted
  <2>2. /\ fn \in DOMAIN Protocol /\ port.use /\ clock.state # "off" /\ arg
        /\ pc > 0 /\ TypeOK /\ port \in Ports
    BY <2>1 DEF ProtocolTraps, Traps, IInv, TypeOK
  <2>3. PICK i : i = Code[fn][pc]
    OBVIOUS
  <2>4. At(i) /\ Illegal(i)
    BY <2>1, <2>3 DEF At, ProtocolTraps, Traps
  <2>5. /\ i \in Instructions
        /\ i \in {"handshake", "strobed"} => "buffers" \in Done
        /\ i = "slave" => "strobed" \in Done
    BY <2>2, <2>4, Place DEF Done, Instructions
  <2>6. Configuring(Done)
    BY <2>1, <2>2 DEF IInv, Progress
  <2>7. /\ i \in {"handshake", "strobed"} => port.buffered
        /\ i = "slave" => port.ready = "strobed"
    BY <2>5, <2>6 DEF Configuring
  <2>8. i = "handshake" /\ port.ms = "slave"
    BY <2>2, <2>4, <2>5, <2>7 DEF Illegal, Instructions
  <2> QED
    BY <2>4, <2>8
<1> QED
  BY <1>1, Invariance, PTL

\* A call that returns error_none makes its last instruction.
LEMMA LastInstruction ==
   ASSUME TypeOK, [Next]_vars, pc > 0, pc' = 0, ~Traps
   PROVE  Core /\ \E i : Does(i) /\ pc = Len(Code[fn]) /\ i = Code[fn][pc]
<1>1. Core
  BY DEF Next, Edge, Call, vars, TypeOK
<1>2. ~Trap
  BY DEF Trap
<1>3. PICK i : Does(i)
  BY <1>1, <1>2, CoreSteps
<1>4. i = Code[fn][pc]
  BY <1>3, InCall
<1>5. pc = Len(Code[fn]) \/ pc' > 0
  BY <1>3, InCall
<1>6. pc = Len(Code[fn])
  BY <1>5
<1> QED
  BY <1>1, <1>3, <1>4, <1>6

\* When a protocol returns all of its instructions have had their effect.
LEMMA ProtocolReturns ==
   ASSUME IInv, [Next]_vars, Returns(DOMAIN Protocol),
          NEW D, D = {Code[fn][j] : j \in 1 .. Len(Code[fn])}
   PROVE  Configuring(D)' /\ Flushing(D)'
<1>1. TypeOK /\ fn \in DOMAIN Protocol /\ pc > 0 /\ pc' = 0 /\ ~Traps
  BY DEF IInv, Returns
<1>2. PICK i : Does(i) /\ pc = Len(Code[fn]) /\ i = Code[fn][pc]
  BY <1>1, LastInstruction
<1>3. Core
  BY <1>1, LastInstruction
<1>4. PICK n \in Nat : n = Len(Code[fn]) /\ n = pc /\ n >= 7
  BY <1>1, <1>2, ProtocolOrder
<1>5. \A k : Passed(k) <=> \E j \in 1 .. n - 1 : Code[fn][j] = k
  BY <1>4 DEF Passed
<1>6. \A j : j \in 1 .. n <=> j \in 1 .. n - 1 \/ j = n
  BY <1>4
<1>7. \A j \in 1 .. n : Code[fn][j] \in Instructions
  BY <1>1, <1>4, ProtocolOrder DEF Ordered
<1>8. D = Done \cup {i}
  BY <1>2, <1>4, <1>5, <1>6, <1>7 DEF Done
<1> QED
  BY <1>1, <1>2, <1>3, <1>8, Effects DEF Does

\* A protocol call that returns error_none leaves the clock, the ready ports and
\* the ready mode as documented, and an input port if it is an input protocol,
\* whatever mode they were in before (port_protocol_*).  After an output protocol
\* the initial value is on the pins of an output port or still to come, or, in
\* the protocols that clear the buffer, was dropped there before any edge of the
\* clock drove it; the documentation does not mention this last case.
THEOREM ProtocolsEstablish == Spec => Established
<1>1. ASSUME IInv, [Next]_vars, Returns(DOMAIN Protocol)
      PROVE  /\ port'.buffered /\ port'.drive = "data" /\ port'.clk = "clk"
             /\ port'.ready = Promised(fn).ready /\ port'.ms = Promised(fn).ms
             /\ port'.ready = "handshake" \/ port'.ms = "slave" => clock'.rdyin
             /\ port'.ms = "master" => readyout' = "ready"
             /\ InProtocol(fn) => port'.dir = "in"
             /\ ~InProtocol(fn) => \/ held' = "initial"
                                   \/ initial' = "driven" /\ port'.dir = "out"
                                   \/ initial' = "dropped" /\ fn # "out_strobed_slave"
  <2>1. PICK D : D = {Code[fn][j] : j \in 1 .. Len(Code[fn])}
    OBVIOUS
  <2>2. Configuring(D)' /\ Flushing(D)'
    BY <1>1, <2>1, ProtocolReturns
  <2>3. fn \in DOMAIN Protocol
    BY <1>1 DEF Returns
  <2>4. PICK n \in Nat : n = Len(Code[fn]) /\ n >= 7
    BY <2>3, ProtocolOrder
  <2>5. /\ "inout" \in D /\ "buffers" \in D
        /\ IF InProtocol(fn) THEN "in" \in D ELSE "out_initial" \in D
    BY <2>1, <2>3, <2>4, ProtocolOrder DEF Ordered
  <2>6. /\ "setclk" \in D /\ Promised(fn).ready \in D
        /\ Promised(fn).ready = "strobed" => Promised(fn).ms \in D
        /\ Promised(fn).ready = "handshake" \/ Promised(fn).ms = "slave" => "readysrc" \in D
        /\ Promised(fn).ms = "master" => "outready" \in D
        /\ fn = "out_strobed_slave" => "clrbuf" \notin D
    BY <2>1, <2>3, ProtocolOrder DEF Complete, Has
  <2>7. /\ Promised(fn).ready \in {"handshake", "strobed"} /\ Promised(fn).ms \in {"master", "slave"}
        /\ Promised(fn).ready = "handshake" => Promised(fn).ms = "master"
    BY DEF Promised
  <2>8. port'.ready = Promised(fn).ready /\ port'.ms = Promised(fn).ms
    BY <2>2, <2>6, <2>7 DEF Configuring
  <2>9. ~InProtocol(fn) => \/ held' = "initial"
                           \/ initial' = "driven" /\ port'.dir = "out"
                           \/ initial' = "dropped" /\ fn # "out_strobed_slave"
    BY <2>2, <2>5, <2>6 DEF Flushing
  <2> QED
    BY <2>2, <2>5, <2>6, <2>7, <2>8, <2>9 DEF Configuring, Flushing
<1> QED
  BY <1>1, Invariance, PTL DEF Spec, Established

\* Nothing from before a protocol call is left in the buffer when it returns,
\* also on a clock that already runs (_port_clear_buffer in port_protocol_*).
THEOREM BuffersAreFresh == Spec => NothingStale
<1>1. ASSUME IInv, [Next]_vars, Returns(DOMAIN Protocol)
      PROVE  held' \notin {"stale", "data"}
  <2>1. PICK D : D = {Code[fn][j] : j \in 1 .. Len(Code[fn])}
    OBVIOUS
  <2>2. Flushing(D)'
    BY <1>1, <2>1, ProtocolReturns
  <2>3. fn \in DOMAIN Protocol
    BY <1>1 DEF Returns
  <2>4. PICK n \in Nat : n = Len(Code[fn]) /\ n >= 7
    BY <2>3, ProtocolOrder
  <2>5. fn = "out_strobed_slave" => "out_initial" \in D
    BY <2>1, <2>3, <2>4, ProtocolOrder DEF Ordered, InProtocol
  <2>6. fn # "out_strobed_slave" => "clrbuf" \in D
    BY <2>1, <2>3, ProtocolOrder DEF Complete, Has
  <2> QED
    BY <2>2, <2>5, <2>6 DEF Flushing
<1> QED
  BY <1>1, Invariance, PTL DEF Spec, NothingStale

\* The combined calls leave no trigger behind that would hold up the next input
\* or output, when port_in_when_pins* is told how the port is buffered.
THEOREM NoTriggerLeft == Spec => TriggersConsumed
<1> DEFINE Consumed ==
      /\ Returns({"port_in_at_time", "port_out_at_time"}) => ~port'.time_trigger
      /\ Returns({"port_in_when_unbuffered", "port_in_when_buffered"})
            /\ (fn = "port_in_when_buffered" => port.buffered) => ~port'.in_trigger
<1>1. ASSUME IInv, [Next]_vars
      PROVE  Consumed
  <2>1. SUFFICES ASSUME Returns({"port_in_at_time", "port_out_at_time", "port_in_when_unbuffered",
                                 "port_in_when_buffered"})
                 PROVE  Consumed
    BY DEF Returns
  <2>2. TypeOK /\ pc > 0 /\ pc' = 0 /\ ~Traps /\ port \in Ports
    BY <1>1, <2>1 DEF IInv, TypeOK, Returns
  <2>3. PICK i : Does(i) /\ pc = Len(Code[fn]) /\ i = Code[fn][pc]
    BY <1>1, <2>2, LastInstruction
  <2>4. Core /\ ~Trap
    BY <1>1, <2>2, LastInstruction DEF Trap
  <2>5. /\ fn \in {"port_in_at_time", "port_in_when_buffered"} => i = "in"
        /\ fn = "port_out_at_time" => i = "out"
        /\ fn = "port_in_when_unbuffered" => i = "condnone"
    BY <2>3, TransferCode
  <2>6. \A k : Does(k) => k = i
    BY <2>3 DEF Does, At
  <2>7. i \in {"in", "out", "condnone"}
    BY <2>1, <2>5 DEF Returns
  <2>8. /\ i = "in" => In
        /\ i = "out" => Out
        /\ i = "condnone" => Configure
    BY <2>4, <2>6, <2>7 DEF Core, Configure, SetTrigger, InUse, In, Out, Buffer, ReadyOut, Clock
  <2>9. i \in {"in", "out"} => ~port'.time_trigger
    BY <2>2, <2>8 DEF In, Out, Ports
  <2>10. i = "in" /\ port.buffered => ~port'.in_trigger
    BY <2>2, <2>8 DEF In, Ports
  <2>11. i = "condnone" => ~port'.in_trigger
    BY <2>2, <2>6, <2>8 DEF Configure, Configured, Ports
  <2> QED
    BY <2>5, <2>9, <2>10, <2>11 DEF Returns
<1> QED
  BY <1>1, Invariance, PTL DEF Spec, TriggersConsumed
=============================================================================
