---------------------------- MODULE ClientServer ----------------------------
(***************************************************************************)
(* Client and server channels: the s_chanend_* calls of xcore_c_chanend.h  *)
(* as tests/client_server uses them, one instruction at a time.  A client  *)
(* allocates a chan-end for each command, sets its destination to the      *)
(* chan-end of a server and names it in the request; the server sets the   *)
(* destination of its own chan-end to the one it was given, and replies.   *)
(*                                                                         *)
(* There are two tiles, 0 and 1.  Client c is on tile c % 2, chan-end e on *)
(* tile e % 2; the server of tile s has chan-end s, and the clients of a   *)
(* tile allocate its other chan-ends.                                      *)
(***************************************************************************)
EXTENDS Naturals, Sequences

CONSTANTS NumClients,   \* clients, numbered from 0
          NumSpare,     \* chan-ends they allocate, numbered from 2
          Cap,          \* words a chan-end buffers
          MaxCommands   \* bound: commands of one client

ASSUME ClientAssumption == /\ NumClients \in Nat /\ NumSpare \in Nat
                           /\ Cap \in Nat \ {0} /\ MaxCommands \in Nat

VARIABLES prog,     \* prog[c]: the commands client c sends, in order
          pool,     \* the chan-ends that are not allocated
          dest,     \* dest[e]: destination of chan-end e
          q,        \* q[e]: words and END tokens in the input buffer of e
          holder,   \* holder[e]: the chan-end whose packet e is receiving
          cpc,      \* cpc[c]: client c's place in ClientCode; 0: not started
          cmd,      \* cmd[c]: index of its command
          sc,       \* sc[c]: its chan-end
          got,      \* got[c][i]: the response to its i-th command
          spc,      \* spc[s]: the place in ServerCode of the server of tile s
          remote,   \* remote[s]: the address of the other server it has got
          sender,   \* sender[s]: the return address it input last
          command,  \* command[s]: the command it input last
          trapped   \* the cores that took an exception

network == <<pool, dest, q, holder>>
client == <<cpc, cmd, sc, got>>
server == <<spc, remote, sender, command>>
vars == <<prog, network, client, server, trapped>>

Clients == 0 .. NumClients - 1
Servers == {0, 1}
Spare == 2 .. NumSpare + 1
Chanends == Servers \cup Spare
Zero == NumSpare + 2         \* the handle value 0
Tile(x) == x % 2

\* A word is the address of a chan-end, a command or the inverse of a command;
\* no two commands are equal.  SHUT_DOWN is the command whose stop holds.
Address(e) == <<"address", e, 0>>
Command(c, i) == <<"command", c, i>>
Invert(w) == <<"inverse", w[2], w[3]>>
END == <<"END", 0, 0>>
Word == {"address", "command", "inverse", "END"} \X Nat \X Nat
Cmd == [remote : BOOLEAN, stop : BOOLEAN]

\* Mutants: the client frees its chan-end before the END of the reply, or
\* without waiting for the reply.
ClientCodeNoCheck == <<"alloc", "setd", "out_address", "out_command", "out_END",
                       "in_response", "free">>
ClientCodeNoReply == <<"alloc", "setd", "out_address", "out_command", "out_END", "free">>

\* chanend_client does for each command what send_command does.
ClientCode == <<"alloc", "setd", "out_address", "out_command", "out_END",
                "in_response", "check_END", "free">>

\* Mutants: the destination is set after the reply; the reply has no END.
ServerCodeLateSetd == <<"out_own", "out_END", "in_remote", "check_END",
                        "in_sender", "in_command", "check_END",
                        "out_response", "out_END", "setd">>
ServerCodeNoEnd == <<"out_own", "out_END", "in_remote", "check_END",
                     "in_sender", "in_command", "check_END", "setd",
                     "out_response">>

\* get_addresses, then the loop of chanend_server.
ServerCode == <<"out_own", "out_END", "in_remote", "check_END",
                "in_sender", "in_command", "check_END", "setd",
                "out_response", "out_END">>
Loop == 5
Down == Len(ServerCode) + 1

TypeOK == /\ pool \subseteq Spare
          /\ dest \in [Chanends -> Chanends \cup {Zero}]
          /\ q \in [Chanends -> Seq(Word)] /\ \A e \in Chanends : Len(q[e]) <= Cap
          /\ holder \in [Chanends -> Chanends \cup {Zero}]
          /\ cpc \in [Clients -> 0 .. Len(ClientCode)]
          /\ cmd \in [Clients -> 1 .. MaxCommands + 1]
          /\ sc \in [Clients -> Spare \cup {Zero}]
          /\ got \in [Clients -> [1 .. MaxCommands -> Word]]
          /\ spc \in [Servers -> 1 .. Down]
          /\ remote \in [Servers -> Word] /\ sender \in [Servers -> Word]
          /\ command \in [Servers -> Word]

Start == /\ pool \in SUBSET Spare
         /\ dest = [e \in Chanends |-> IF e \in Servers THEN 1 - e ELSE Zero]
         /\ q = [e \in Chanends |-> << >>]
         /\ holder = [e \in Chanends |-> Zero]
         /\ cpc = [c \in Clients |-> 0] /\ cmd = [c \in Clients |-> 1]
         /\ sc = [c \in Clients |-> Zero]
         /\ got = [c \in Clients |-> [i \in 1 .. MaxCommands |-> END]]
         /\ spc = [s \in Servers |-> 1]
         /\ remote = [s \in Servers |-> END] /\ sender = remote /\ command = remote
         /\ trapped = {}
Init == prog \in [Clients -> UNION {[1 .. n -> Cmd] : n \in 0 .. MaxCommands}] /\ Start

(***************************************************************************)
(* Instructions on chan-end e                                              *)
(***************************************************************************)
\* The first word of a packet opens a route to the destination, which no other
\* chan-end can use until END closes it.
Out(e, w) == /\ e # Zero /\ holder[dest[e]] \in {Zero, e} /\ Len(q[dest[e]]) < Cap
             /\ q' = [q EXCEPT ![dest[e]] = Append(@, w)]
             /\ holder' = [holder EXCEPT ![dest[e]] = IF w = END THEN Zero ELSE e]
             /\ UNCHANGED <<pool, dest>>

Take(e) == /\ q' = [q EXCEPT ![e] = Tail(@)]
           /\ UNCHANGED <<pool, dest, holder>>
In(e) == e # Zero /\ q[e] # << >> /\ Head(q[e]) # END /\ Take(e)
CheckEnd(e) == e # Zero /\ q[e] # << >> /\ Head(q[e]) = END /\ Take(e)

SetDest(e, d) == /\ e # Zero
                 /\ dest' = [dest EXCEPT ![e] = d]
                 /\ UNCHANGED <<pool, q, holder>>

\* A chan-end with input pending, or with an open route to or from it, cannot
\* be freed.
Clean(e) == q[e] = << >> /\ holder[e] = Zero /\ \A d \in Chanends : holder[d] # e
FreeR(e) == /\ e # Zero /\ Clean(e)
            /\ pool' = pool \cup {e} /\ dest' = [dest EXCEPT ![e] = Zero]
            /\ UNCHANGED <<q, holder>>

\* The exceptions: an unallocated chan-end, data where an END is checked or an
\* END where a word is input, input or output pending when it is freed.
Traps(e, i) == \/ e = Zero
               \/ i = "free" /\ ~Clean(e)
               \/ i = "check_END" /\ q[e] # << >> /\ Head(q[e]) # END
               \/ /\ i \in {"in_remote", "in_sender", "in_command", "in_response"}
                  /\ q[e] # << >> /\ Head(q[e]) = END

(***************************************************************************)
(* send_command                                                            *)
(***************************************************************************)
Running(c) == <<"client", c>> \notin trapped /\ cmd[c] <= Len(prog[c])
At(c, i) == Running(c) /\ cpc[c] > 0 /\ ClientCode[cpc[c]] = i
Advance(c) == cpc' = [cpc EXCEPT ![c] = (@ % Len(ClientCode)) + 1]
Call(c, i) == At(c, i) /\ Advance(c) /\ UNCHANGED <<cmd, sc, got>>
Server(c) == IF prog[c][cmd[c]].remote THEN remote[Tile(c)][2] ELSE Tile(c)

\* chanend_client starts when get_addresses has returned on its tile.
ClientStart(c) == /\ cpc[c] = 0 /\ spc[Tile(c)] >= Loop
                  /\ Advance(c)
                  /\ UNCHANGED <<network, cmd, sc, got>>

\* s_chanend_alloc returns 0 if there is no chan-end left on the tile.
Alloc(c) == LET free == {e \in pool : Tile(e) = Tile(c)}
            IN  /\ At(c, "alloc") /\ Advance(c)
                /\ \E e \in IF free = {} THEN {Zero} ELSE free :
                      sc' = [sc EXCEPT ![c] = e] /\ pool' = pool \ {e}
                /\ UNCHANGED <<dest, q, holder, cmd, got>>

Receive(c) == /\ At(c, "in_response") /\ In(sc[c]) /\ Advance(c)
              /\ got' = [got EXCEPT ![c][cmd[c]] = Head(q[sc[c]])]
              /\ UNCHANGED <<cmd, sc>>

Free(c) == /\ At(c, "free") /\ FreeR(sc[c]) /\ Advance(c)
           /\ sc' = [sc EXCEPT ![c] = Zero] /\ cmd' = [cmd EXCEPT ![c] = @ + 1]
           /\ UNCHANGED got

send_command(c) == \/ Alloc(c)
                   \/ Call(c, "setd") /\ SetDest(sc[c], Server(c))
                   \/ Call(c, "out_address") /\ Out(sc[c], Address(sc[c]))
                   \/ Call(c, "out_command") /\ Out(sc[c], Command(c, cmd[c]))
                   \/ Call(c, "out_END") /\ Out(sc[c], END)
                   \/ Receive(c)
                   \/ Call(c, "check_END") /\ CheckEnd(sc[c])
                   \/ Free(c)

ClientStep(c) == /\ ClientStart(c) \/ send_command(c)
                 /\ UNCHANGED <<prog, server, trapped>>

(***************************************************************************)
(* get_addresses and chanend_server                                        *)
(***************************************************************************)
Stops(w) == prog[w[2]][w[3]].stop
AtServer(s, i) == spc[s] < Down /\ ServerCode[spc[s]] = i /\ <<"server", s>> \notin trapped
Serve(s, i) == /\ AtServer(s, i)
               /\ spc' = [spc EXCEPT ![s] = IF @ + 1 < Down THEN @ + 1
                                            ELSE IF Stops(command[s]) THEN Down ELSE Loop]

InAddress(s) == \/ /\ Serve(s, "in_remote") /\ In(s)
                   /\ remote' = [remote EXCEPT ![s] = Head(q[s])]
                   /\ UNCHANGED <<sender, command>>
                \/ /\ Serve(s, "in_sender") /\ In(s)
                   /\ sender' = [sender EXCEPT ![s] = Head(q[s])]
                   /\ UNCHANGED <<remote, command>>

InCommand(s) == /\ Serve(s, "in_command") /\ In(s)
                /\ command' = [command EXCEPT ![s] = Head(q[s])]
                /\ UNCHANGED <<remote, sender>>

Exchange(s) == /\ \/ Serve(s, "out_own") /\ Out(s, Address(s))
                  \/ Serve(s, "out_END") /\ Out(s, END)
                  \/ Serve(s, "check_END") /\ CheckEnd(s)
                  \/ Serve(s, "setd") /\ SetDest(s, sender[s][2])
                  \/ Serve(s, "out_response") /\ Out(s, Invert(command[s]))
               /\ UNCHANGED <<remote, sender, command>>

ServerStep(s) == /\ InAddress(s) \/ InCommand(s) \/ Exchange(s)
                 /\ UNCHANGED <<prog, client, trapped>>

Trap == /\ \/ \E c \in Clients : /\ Running(c) /\ cpc[c] > 1
                                  /\ Traps(sc[c], ClientCode[cpc[c]])
                                  /\ trapped' = trapped \cup {<<"client", c>>}
           \/ \E s \in Servers : /\ spc[s] < Down /\ <<"server", s>> \notin trapped
                                  /\ Traps(s, ServerCode[spc[s]])
                                  /\ trapped' = trapped \cup {<<"server", s>>}
        /\ UNCHANGED <<prog, network, client, server>>

Next == \/ \E c \in Clients : ClientStep(c)
        \/ \E s \in Servers : ServerStep(s)
        \/ Trap

Spec == Init /\ [][Next]_vars

\* Every core is issued instructions in rotation with the others of its tile.
Fairness == /\ \A c \in Clients : WF_vars(ClientStep(c))
            /\ \A s \in Servers : WF_vars(ServerStep(s))

(***************************************************************************)
(* Properties                                                              *)
(***************************************************************************)
\* Only a client for which s_chanend_alloc found no chan-end traps: no request
\* is cut into by another, no chan-end is freed while the server still sends
\* to it, and no server takes the address of the other server for a request.
NoTrap == \A k \in trapped : k[1] = "client" /\ sc[k[2]] = Zero

\* A server that has input a request has the return address and the command of
\* the same client, and that client is waiting for its reply on the chan-end
\* it named.
RequestWhole ==
   \A s \in Servers : spc[s] \in Loop + 2 .. Down - 1 =>
      LET c == command[s][2]
      IN  /\ cmd[c] = command[s][3] /\ sender[s] = Address(sc[c])
          /\ ClientCode[cpc[c]] \in {"out_END", "in_response", "check_END"}

\* Requests reach the servers whole, and every variable has its type.
Inv == TypeOK /\ RequestWhole

\* Every response is the inverse of the command it was received for, though
\* clients share the servers and reuse each other's chan-ends.
RightReply == \A c \in Clients : \A i \in 1 .. cmd[c] - 1 :
                 got[c][i] = Invert(Command(c, i))

\* A client whose request is with a server that stays up gets its reply,
\* however many clients compete for that server.
Asking(c) == Running(c) /\ cpc[c] > 2 /\ sc[c] # Zero
Answered == \A c \in Clients : Asking(c) ~> ~Asking(c) \/ spc[dest[sc[c]]] = Down
=============================================================================
