------------------------- MODULE ClientServerProofs -------------------------
(***************************************************************************)
(* Theorems about ClientServer.tla, for any number of clients, chan-ends   *)
(* and commands, and buffers of any length.                                *)
(***************************************************************************)
EXTENDS ClientServer, TLAPS

(***************************************************************************)
(* What arrives at a server                                                *)
(***************************************************************************)
\* Nothing has been input yet.
First == <<"first", 0, 0>>

\* The word before the k-th of queue Q, when p was input last.
Preceding(p, Q, k) == IF k = 1 THEN p ELSE Q[k - 1]
LastSent(p, Q) == Preceding(p, Q, Len(Q) + 1)

\* What server s input last, of the packet it is at.
Prior(s) == CASE spc[s] \in 1 .. 3 -> First
              [] spc[s] = 4 -> remote[s]
              [] spc[s] = 6 -> sender[s]
              [] spc[s] = 7 -> command[s]
              [] OTHER -> END

\* Client c has begun a request to server s that is not answered yet.
Asks(c, s) == /\ sc[c] # Zero /\ cpc[c] \in 4 .. 6 /\ dest[sc[c]] = s
              /\ q[sc[c]] = << >> /\ holder[sc[c]] = Zero

\* Word y may come after word x at server s: first the address of the other
\* server, then the requests of clients that still wait.
Follows(s, x, y) ==
   \/ x = First /\ y = Address(1 - s)
   \/ x = Address(1 - s) /\ y = END
   \/ \E c \in Clients :
         /\ Asks(c, s)
         /\ \/ x = END /\ y = Address(sc[c])
            \/ x = Address(sc[c]) /\ y = Command(c, cmd[c]) /\ cpc[c] \in {5, 6}
            \/ x = Command(c, cmd[c]) /\ y = END /\ cpc[c] = 6

\* The words at a server are whole packets, of which it may have input a part.
StreamOK(s) == \A k \in 1 .. Len(q[s]) : Follows(s, Preceding(Prior(s), q[s], k), q[s][k])

\* The packet that is being sent to server s is that of the holder of its route.
RouteOK(s) ==
   \/ /\ holder[s] = Zero /\ q[s] = << >>
      /\ spc[s] \in 1 .. 3 /\ spc[1 - s] = 1
   \/ /\ holder[s] = Zero /\ LastSent(Prior(s), q[s]) = END /\ spc[1 - s] \in 3 .. Down
   \/ /\ holder[s] = 1 - s /\ LastSent(Prior(s), q[s]) = Address(1 - s) /\ spc[1 - s] = 2
   \/ \E c \in Clients :
         /\ sc[c] # Zero /\ dest[sc[c]] = s /\ holder[s] = sc[c] /\ spc[1 - s] \in 3 .. Down
         /\ \/ cpc[c] = 4 /\ LastSent(Prior(s), q[s]) = Address(sc[c])
            \/ cpc[c] = 5 /\ LastSent(Prior(s), q[s]) = Command(c, cmd[c])

\* No request is at a server twice.
OnceOK(s) ==
   \A e \in Spare : \A k \in 1 .. Len(q[s]) :
      q[s][k] = Address(e) =>
         /\ spc[s] \in 6 .. 10 => sender[s] # Address(e)
         /\ \A l \in 1 .. Len(q[s]) : q[s][l] = Address(e) => l = k

(***************************************************************************)
(* What a server does                                                      *)
(***************************************************************************)
AddressOK(s) == /\ spc[s] \in 4 .. Down => remote[s] = Address(1 - s)
                /\ spc[s] \in {1, 2} => dest[s] = 1 - s

\* The request a server has input, and how far it has answered it.
ServingOK(s) ==
   spc[s] \in 6 .. 10 =>
      \E c \in Clients :
         /\ sc[c] # Zero /\ sender[s] = Address(sc[c]) /\ dest[sc[c]] = s
         /\ spc[s] \in 7 .. 10 => command[s] = Command(c, cmd[c])
         /\ spc[s] \in {9, 10} => dest[s] = sc[c]
         /\ spc[s] = 6 => Asks(c, s)
         /\ spc[s] = 7 => Asks(c, s) /\ cpc[c] \in {5, 6}
         /\ spc[s] \in {8, 9} => Asks(c, s) /\ cpc[c] = 6
         /\ spc[s] = 10 => /\ holder[sc[c]] = s
                           /\ \/ cpc[c] = 6 /\ q[sc[c]] = <<Invert(Command(c, cmd[c]))>>
                              \/ cpc[c] = 7 /\ q[sc[c]] = << >>

(***************************************************************************)
(* What a client does                                                      *)
(***************************************************************************)
OwnOK(c) == /\ cpc[c] \in {0, 1} => sc[c] = Zero
            /\ cpc[c] \in 3 .. 8 => sc[c] # Zero /\ dest[sc[c]] \in Servers
            /\ cpc[c] \in 1 .. 8 => spc[Tile(c)] \in 5 .. Down
            /\ cpc[c] \in {4, 5} => holder[dest[sc[c]]] = sc[c]
            /\ sc[c] \notin pool
            /\ \A d \in Clients : sc[d] = sc[c] => d = c \/ sc[c] = Zero

\* Server s is sending its reply to client c.
Answers(s, c) == s \in Servers /\ spc[s] = 10 /\ sender[s] = Address(sc[c])

\* What is at the chan-end of a client: its reply, or a part of it.
ReplyOK(c) ==
   sc[c] # Zero =>
      /\ cpc[c] \in 0 .. 5 \cup {8} => q[sc[c]] = << >> /\ holder[sc[c]] = Zero
      /\ cpc[c] = 6 =>
            \/ holder[sc[c]] = Zero /\ q[sc[c]] = << >>
            \/ holder[sc[c]] = Zero /\ q[sc[c]] = <<Invert(Command(c, cmd[c])), END>>
            \/ Answers(holder[sc[c]], c) /\ q[sc[c]] = <<Invert(Command(c, cmd[c]))>>
      /\ cpc[c] = 7 =>
            \/ holder[sc[c]] = Zero /\ q[sc[c]] = <<END>>
            \/ Answers(holder[sc[c]], c) /\ q[sc[c]] = << >>

GotOK(c) == /\ \A i \in 1 .. cmd[c] - 1 : got[c][i] = Invert(Command(c, i))
            /\ cpc[c] \in {7, 8} => got[c][cmd[c]] = Invert(Command(c, cmd[c]))

UnusedOK == \A e \in Spare : (\A c \in Clients : sc[c] # e) => q[e] = << >> /\ holder[e] = Zero

TrappedOK == \A k \in trapped : /\ k[1] = "client" /\ k[2] \in Clients
                                /\ k = <<"client", k[2]>>
                                /\ sc[k[2]] = Zero /\ cpc[k[2]] = 2

ProgOK == prog \in [Clients -> Seq(Cmd)] /\ \A c \in Clients : Len(prog[c]) <= MaxCommands

IInv == /\ TypeOK /\ ProgOK /\ UnusedOK /\ TrappedOK
        /\ \A s \in Servers : /\ StreamOK(s) /\ RouteOK(s) /\ OnceOK(s)
                              /\ AddressOK(s) /\ ServingOK(s)
        /\ \A c \in Clients : OwnOK(c) /\ ReplyOK(c) /\ GotOK(c)

(***************************************************************************)
(* Words, chan-ends and queues                                             *)
(***************************************************************************)
\* The words of different kinds differ, and tell what they name.
LEMMA WordsAre ==
   /\ \A e : Address(e)[2] = e
   /\ \A e, f : Address(e) = Address(f) => e = f
   /\ \A c, i : Command(c, i)[2] = c /\ Command(c, i)[3] = i
   /\ \A c, i, d, j : Command(c, i) = Command(d, j) => c = d /\ i = j
   /\ \A e, c, i : Address(e) # Command(c, i)
   /\ \A e : Address(e) # END /\ Address(e) # First
   /\ \A c, i : Command(c, i) # END /\ Command(c, i) # First /\ Invert(Command(c, i)) # END
   /\ END # First
BY DEF Address, Command, Invert, END, First

\* They are words.
LEMMA WordsTyped ==
   /\ \A e \in Nat : Address(e) \in Word
   /\ \A c \in Nat, i \in Nat : Command(c, i) \in Word /\ Invert(Command(c, i)) \in Word
   /\ END \in Word
<1>1. \A e \in Nat : Address(e) \in Word
  BY DEF Address, Word
<1>2. \A c \in Nat, i \in Nat : Command(c, i) \in Word
  BY DEF Command, Word
<1>3. \A c \in Nat, i \in Nat : Invert(Command(c, i)) \in Word
  BY DEF Command, Invert, Word
<1>4. END \in Word
  BY DEF END, Word
<1> QED
  BY <1>1, <1>2, <1>3, <1>4

\* The chan-ends of the servers and those the clients allocate.
LEMMA ChanendsAre ==
   /\ Servers = {0, 1} /\ Chanends = Servers \cup Spare /\ Spare \subseteq Nat
   /\ Zero \in Nat /\ Zero \notin Chanends
   /\ Clients \subseteq Nat
   /\ \A s \in Servers : s \notin Spare /\ 1 - s \in Servers /\ 1 - s # s /\ 1 - (1 - s) = s
                         /\ s # Zero /\ s \in Nat
   /\ \A c \in Nat : Tile(c) \in Servers
   /\ \A s, t \in Servers : t = s \/ t = 1 - s
<1>1. NumSpare \in Nat /\ NumClients \in Nat
  BY ClientAssumption
<1> QED
  BY <1>1 DEF Servers, Chanends, Spare, Zero, Clients, Tile

\* A word is taken off a queue: each has the same word before it.
LEMMA Popped ==
   ASSUME NEW S, NEW Q \in Seq(S), Q # << >>, NEW p
   PROVE  /\ Head(Q) = Q[1] /\ 1 \in 1 .. Len(Q) /\ Preceding(p, Q, 1) = p
          /\ Tail(Q) \in Seq(S)
          /\ \A k \in 1 .. Len(Tail(Q)) : /\ k + 1 \in 1 .. Len(Q)
                                          /\ Tail(Q)[k] = Q[k + 1]
                                          /\ Preceding(Head(Q), Tail(Q), k) = Preceding(p, Q, k + 1)
          /\ LastSent(Head(Q), Tail(Q)) = LastSent(p, Q)
          /\ Len(Tail(Q)) <= Len(Q)
<1>1. PICK n \in Nat : n = Len(Q)
  OBVIOUS
<1>2. n >= 1
  BY <1>1
<1>3. /\ Len(Tail(Q)) = n - 1 /\ Head(Q) = Q[1] /\ Tail(Q) \in Seq(S)
      /\ \A k \in 1 .. n - 1 : Tail(Q)[k] = Q[k + 1]
  BY <1>1, <1>2
<1>4. ASSUME NEW k \in 1 .. n
      PROVE  Preceding(Head(Q), Tail(Q), k) = Preceding(p, Q, k + 1)
  <2>1. CASE k = 1
    <3>1. k + 1 # 1 /\ k + 1 - 1 = 1
      BY <2>1
    <3> QED
      BY <1>3, <2>1, <3>1 DEF Preceding
  <2>2. CASE k # 1
    <3>1. k - 1 \in 1 .. n - 1 /\ k + 1 # 1 /\ k - 1 + 1 = k + 1 - 1
      BY <1>2, <2>2
    <3>2. Tail(Q)[k - 1] = Q[k + 1 - 1]
      BY <1>3, <3>1
    <3>3. Preceding(Head(Q), Tail(Q), k) = Tail(Q)[k - 1]
      BY <2>2 DEF Preceding
    <3>4. Preceding(p, Q, k + 1) = Q[k + 1 - 1]
      BY <3>1 DEF Preceding
    <3> QED
      BY <3>2, <3>3, <3>4
  <2> QED
    BY <2>1, <2>2
<1>5. LastSent(Head(Q), Tail(Q)) = LastSent(p, Q)
  <2>1. n - 1 + 1 = n /\ n \in 1 .. n
    BY <1>2
  <2> QED
    BY <1>1, <1>3, <1>4, <2>1 DEF LastSent
<1>6. \A k \in 1 .. n - 1 : k + 1 \in 1 .. n /\ k \in 1 .. n
  BY <1>2
<1>7. Preceding(p, Q, 1) = p
  BY DEF Preceding
<1> QED
  BY <1>1, <1>2, <1>3, <1>4, <1>5, <1>6, <1>7

\* A word is put on a queue: it comes after the one that was sent last.
LEMMA Pushed ==
   ASSUME NEW S, NEW Q \in Seq(S), NEW w \in S, NEW p
   PROVE  /\ Append(Q, w) \in Seq(S) /\ Len(Append(Q, w)) = Len(Q) + 1
          /\ \A k \in 1 .. Len(Q) : /\ k \in 1 .. Len(Append(Q, w))
                                    /\ Append(Q, w)[k] = Q[k]
                                    /\ Preceding(p, Append(Q, w), k) = Preceding(p, Q, k)
          /\ Append(Q, w)[Len(Q) + 1] = w /\ Len(Q) + 1 \in 1 .. Len(Append(Q, w))
          /\ Preceding(p, Append(Q, w), Len(Q) + 1) = LastSent(p, Q)
          /\ LastSent(p, Append(Q, w)) = w
          /\ \A k \in 1 .. Len(Append(Q, w)) : k \in 1 .. Len(Q) \/ k = Len(Q) + 1
<1>1. PICK n \in Nat : n = Len(Q)
  OBVIOUS
<1>2. /\ Append(Q, w) \in Seq(S) /\ Len(Append(Q, w)) = n + 1 /\ Append(Q, w)[n + 1] = w
      /\ \A k \in 1 .. n : Append(Q, w)[k] = Q[k]
  BY <1>1
<1>3. ASSUME NEW k \in 1 .. n + 1
      PROVE  Preceding(p, Append(Q, w), k) = Preceding(p, Q, k)
  <2>1. CASE k = 1
    BY <2>1 DEF Preceding
  <2>2. CASE k # 1
    <3>1. k - 1 \in 1 .. n
      BY <2>2
    <3> QED
      BY <1>2, <2>2, <3>1 DEF Preceding
  <2> QED
    BY <2>1, <2>2
<1>4. LastSent(p, Append(Q, w)) = w
  <2>1. n + 1 + 1 # 1 /\ n + 1 + 1 - 1 = n + 1
    OBVIOUS
  <2> QED
    BY <1>2, <2>1 DEF LastSent, Preceding
<1>5. \A k \in 1 .. n + 1 : k \in 1 .. n \/ k = n + 1
  OBVIOUS
<1>6. n + 1 \in 1 .. n + 1 /\ \A k \in 1 .. n : k \in 1 .. n + 1
  OBVIOUS
<1>7. Preceding(p, Append(Q, w), n + 1) = LastSent(p, Q)
  BY <1>1, <1>3, <1>6 DEF LastSent
<1> QED
  BY <1>1, <1>2, <1>3, <1>4, <1>5, <1>6, <1>7

\* The two words of a reply.
LEMMA Replies == \A x, y : Append(<< >>, x) = <<x>> /\ Append(<<y>>, x) = <<y, x>>
<1>1. ASSUME NEW S, NEW x \in S, NEW y \in S PROVE Append(<<y>>, x) = <<y, x>>
  <2>1. <<y>> \in Seq(S) /\ Len(<<y>>) = 1
    OBVIOUS
  <2>2. /\ Append(<<y>>, x) \in Seq(S) /\ Len(Append(<<y>>, x)) = 2
        /\ Append(<<y>>, x)[1] = y /\ Append(<<y>>, x)[2] = x
    BY <2>1
  <2>3. /\ <<y, x>> \in Seq(S) /\ Len(<<y, x>>) = 2
        /\ <<y, x>>[1] = y /\ <<y, x>>[2] = x
    OBVIOUS
  <2>4. ASSUME NEW Q \in Seq(S), NEW R \in Seq(S), Len(Q) = 2, Len(R) = 2,
               Q[1] = R[1], Q[2] = R[2]
        PROVE  Q = R
    <3>1. Q \in [1 .. Len(Q) -> S] /\ R \in [1 .. Len(R) -> S]
      OBVIOUS
    <3>2. Q \in [1 .. 2 -> S] /\ R \in [1 .. 2 -> S]
      BY <2>4, <3>1
    <3>3. \A i \in 1 .. 2 : i = 1 \/ i = 2
      OBVIOUS
    <3>4. \A i \in 1 .. 2 : Q[i] = R[i]
      BY <2>4, <3>3
    <3> QED
      BY <3>2, <3>4
  <2> QED
    BY <2>2, <2>3, <2>4
<1>2. ASSUME NEW x, NEW y PROVE Append(<<y>>, x) = <<y, x>>
  <2>1. x \in {x, y} /\ y \in {x, y}
    OBVIOUS
  <2> QED
    BY <1>1, <2>1
<1>3. \A x : Append(<< >>, x) = <<x>>
  OBVIOUS
<1> QED
  BY <1>2, <1>3

(***************************************************************************)
(* The places of the clients and the servers                               *)
(***************************************************************************)
\* The instructions of send_command.
LEMMA ClientCodeIs ==
   /\ Len(ClientCode) = 8
   /\ ClientCode[1] = "alloc" /\ ClientCode[2] = "setd" /\ ClientCode[3] = "out_address"
   /\ ClientCode[4] = "out_command" /\ ClientCode[5] = "out_END"
   /\ ClientCode[6] = "in_response" /\ ClientCode[7] = "check_END" /\ ClientCode[8] = "free"
BY DEF ClientCode

\* The instructions of get_addresses and chanend_server.
LEMMA ServerCodeIs ==
   /\ Len(ServerCode) = 10 /\ Down = 11
   /\ ServerCode[1] = "out_own" /\ ServerCode[2] = "out_END" /\ ServerCode[3] = "in_remote"
   /\ ServerCode[4] = "check_END" /\ ServerCode[5] = "in_sender"
   /\ ServerCode[6] = "in_command" /\ ServerCode[7] = "check_END" /\ ServerCode[8] = "setd"
   /\ ServerCode[9] = "out_response" /\ ServerCode[10] = "out_END"
BY DEF ServerCode, Down

\* Where a client is when it issues an instruction.
LEMMA ClientAt ==
   ASSUME NEW c \in Clients, cpc[c] \in 0 .. 8
   PROVE  /\ At(c, "alloc") => cpc[c] = 1
          /\ At(c, "setd") => cpc[c] = 2
          /\ At(c, "out_address") => cpc[c] = 3
          /\ At(c, "out_command") => cpc[c] = 4
          /\ At(c, "out_END") => cpc[c] = 5
          /\ At(c, "in_response") => cpc[c] = 6
          /\ At(c, "check_END") => cpc[c] = 7
          /\ At(c, "free") => cpc[c] = 8
<1>1. PICK n \in 0 .. 8 : n = cpc[c]
  OBVIOUS
<1>2. n > 0 => n = 1 \/ n = 2 \/ n = 3 \/ n = 4 \/ n = 5 \/ n = 6 \/ n = 7 \/ n = 8
  OBVIOUS
<1>3. \A i : At(c, i) => n > 0 /\ ClientCode[n] = i
  BY <1>1 DEF At
<1> QED
  BY <1>1, <1>2, <1>3, ClientCodeIs

\* Where a server is.
LEMMA ServerAt ==
   ASSUME NEW s \in Servers, spc[s] \in 1 .. Down
   PROVE  /\ AtServer(s, "out_own") => spc[s] = 1
          /\ AtServer(s, "out_END") => spc[s] = 2 \/ spc[s] = 10
          /\ AtServer(s, "in_remote") => spc[s] = 3
          /\ AtServer(s, "check_END") => spc[s] = 4 \/ spc[s] = 7
          /\ AtServer(s, "in_sender") => spc[s] = 5
          /\ AtServer(s, "in_command") => spc[s] = 6
          /\ AtServer(s, "setd") => spc[s] = 8
          /\ AtServer(s, "out_response") => spc[s] = 9
<1>1. PICK n \in 1 .. 11 : n = spc[s]
  BY ServerCodeIs
<1>2. \/ n = 1 \/ n = 2 \/ n = 3 \/ n = 4 \/ n = 5 \/ n = 6 \/ n = 7 \/ n = 8 \/ n = 9
      \/ n = 10 \/ n = 11
  OBVIOUS
<1>3. \A i : AtServer(s, i) => n < 11 /\ ServerCode[n] = i
  BY <1>1, ServerCodeIs DEF AtServer
<1>4. \A i : AtServer(s, i) => n # 11
  BY <1>3
<1> QED
  BY <1>1, <1>2, <1>3, <1>4, ServerCodeIs

(***************************************************************************)
(* What a step leaves alone                                                *)
(***************************************************************************)
\* The clients that wait for server s still do, or have sent a word more.
AskKept(s) ==
   \A d \in Clients : Asks(d, s) =>
      /\ Asks(d, s)' /\ sc'[d] = sc[d] /\ cmd'[d] = cmd[d]
      /\ \/ cpc'[d] = cpc[d]
         \/ cpc[d] = 4 /\ cpc'[d] = 5
         \/ cpc[d] = 5 /\ cpc'[d] = 6

\* The client that server s is answering still gets its answer.
AnswerKept(s) ==
   \A d \in Clients :
      sc[d] # Zero /\ spc[s] = 10 /\ sender[s] = Address(sc[d]) /\ holder[sc[d]] = s =>
         /\ sc'[d] = sc[d] /\ cmd'[d] = cmd[d] /\ dest'[sc[d]] = dest[sc[d]]
         /\ holder'[sc[d]] = s
         /\ \/ cpc'[d] = cpc[d] /\ q'[sc[d]] = q[sc[d]]
            \/ cpc'[d] = 7 /\ q'[sc[d]] = << >>

\* The client that is sending to server s is not disturbed.
SendKept(s) ==
   \A d \in Clients :
      sc[d] # Zero /\ cpc[d] \in {4, 5} /\ dest[sc[d]] = s =>
         /\ sc'[d] = sc[d] /\ cmd'[d] = cmd[d] /\ cpc'[d] = cpc[d] /\ dest'[sc[d]] = dest[sc[d]]

SameServer(s) == /\ spc'[s] = spc[s] /\ remote'[s] = remote[s] /\ sender'[s] = sender[s]
                 /\ command'[s] = command[s] /\ dest'[s] = dest[s]

SameClient(d) == /\ sc'[d] = sc[d] /\ cpc'[d] = cpc[d] /\ cmd'[d] = cmd[d] /\ got'[d] = got[d]
                 /\ sc[d] # Zero => /\ dest'[sc[d]] = dest[sc[d]] /\ q'[sc[d]] = q[sc[d]]
                                    /\ holder'[sc[d]] = holder[sc[d]]

\* A client that a step leaves alone still waits, and is answered.
LEMMA AskSame ==
   ASSUME NEW s \in Servers, \A d \in Clients : Asks(d, s) => SameClient(d)
   PROVE  AskKept(s)
<1>1. SUFFICES ASSUME NEW d \in Clients, Asks(d, s)
               PROVE  /\ Asks(d, s)' /\ sc'[d] = sc[d] /\ cmd'[d] = cmd[d] /\ cpc'[d] = cpc[d]
  BY DEF AskKept
<1>2. SameClient(d)
  BY <1>1
<1> QED
  BY <1>1, <1>2 DEF SameClient, Asks

\* What follows a word at a server still does.
LEMMA FollowsKept ==
   ASSUME NEW s \in Servers, AskKept(s), NEW x, NEW y, Follows(s, x, y)
   PROVE  Follows(s, x, y)'
<1>1. CASE \/ x = First /\ y = Address(1 - s)
           \/ x = Address(1 - s) /\ y = END
  BY <1>1 DEF Follows
<1>2. ASSUME NEW c \in Clients, Asks(c, s),
             \/ x = END /\ y = Address(sc[c])
             \/ x = Address(sc[c]) /\ y = Command(c, cmd[c]) /\ cpc[c] \in {5, 6}
             \/ x = Command(c, cmd[c]) /\ y = END /\ cpc[c] = 6
      PROVE  Follows(s, x, y)'
  <2>1. /\ Asks(c, s)' /\ sc'[c] = sc[c] /\ cmd'[c] = cmd[c]
        /\ cpc[c] = 6 => cpc'[c] = 6
        /\ cpc[c] \in {5, 6} => cpc'[c] \in {5, 6}
    BY <1>2 DEF AskKept
  <2>2. /\ Asks(c, s)'
        /\ \/ x = END /\ y = Address(sc'[c])
           \/ x = Address(sc'[c]) /\ y = Command(c, cmd'[c]) /\ cpc'[c] \in {5, 6}
           \/ x = Command(c, cmd'[c]) /\ y = END /\ cpc'[c] = 6
    BY <1>2, <2>1
  <2> QED
    BY <2>2 DEF Follows
<1> QED
  BY <1>1, <1>2 DEF Follows

\* A queue that does not change.
LEMMA StreamSame ==
   ASSUME NEW s \in Servers, AskKept(s), StreamOK(s), q'[s] = q[s], Prior(s)' = Prior(s)
   PROVE  StreamOK(s)' /\ LastSent(Prior(s), q[s])' = LastSent(Prior(s), q[s])
<1>1. PICK p, Q : p = Prior(s) /\ Q = q[s]
  OBVIOUS
<1>2. /\ Prior(s)' = p /\ q'[s] = Q
  BY <1>1
<1>3. \A k \in 1 .. Len(Q) : Follows(s, Preceding(p, Q, k), Q[k])
  BY <1>1 DEF StreamOK
<1>4. \A k \in 1 .. Len(Q) : Follows(s, Preceding(p, Q, k), Q[k])'
  BY <1>3, FollowsKept
<1>5. StreamOK(s)'
  BY <1>2, <1>4 DEF StreamOK
<1> QED
  BY <1>1, <1>2, <1>5

\* A queue from which the server takes a word.
LEMMA StreamPop ==
   ASSUME NEW s \in Servers, AskKept(s), StreamOK(s), q[s] \in Seq(Word), q[s] # << >>,
          q'[s] = Tail(q[s]), Prior(s)' = Head(q[s])
   PROVE  StreamOK(s)' /\ LastSent(Prior(s), q[s])' = LastSent(Prior(s), q[s])
<1>0. PICK Q \in Seq(Word) : Q = q[s] /\ Q # << >>
  OBVIOUS
<1>1. PICK p : p = Prior(s) /\ Q = q[s]
  BY <1>0
<1>2. /\ Prior(s)' = Head(Q) /\ q'[s] = Tail(Q)
  BY <1>1
<1>3. \A k \in 1 .. Len(Q) : Follows(s, Preceding(p, Q, k), Q[k])
  BY <1>1 DEF StreamOK
<1>4. \A k \in 1 .. Len(Q) : Follows(s, Preceding(p, Q, k), Q[k])'
  BY <1>3, FollowsKept
<1>5. /\ \A k \in 1 .. Len(Tail(Q)) : /\ k + 1 \in 1 .. Len(Q)
                                      /\ Tail(Q)[k] = Q[k + 1]
                                      /\ Preceding(Head(Q), Tail(Q), k) = Preceding(p, Q, k + 1)
      /\ LastSent(Head(Q), Tail(Q)) = LastSent(p, Q)
  BY <1>0, Popped
<1>6. \A k \in 1 .. Len(Tail(Q)) : Follows(s, Preceding(Head(Q), Tail(Q), k), Tail(Q)[k])'
  BY <1>4, <1>5
<1>7. StreamOK(s)'
  BY <1>2, <1>6 DEF StreamOK
<1> QED
  BY <1>1, <1>2, <1>5, <1>7

\* A queue to which a word is sent.
LEMMA StreamPush ==
   ASSUME NEW s \in Servers, AskKept(s), StreamOK(s), q[s] \in Seq(Word), NEW w \in Word,
          q'[s] = Append(q[s], w), Prior(s)' = Prior(s),
          NEW l, l = LastSent(Prior(s), q[s]), Follows(s, l, w)'
   PROVE  StreamOK(s)' /\ LastSent(Prior(s), q[s])' = w
<1>0. PICK Q \in Seq(Word) : Q = q[s]
  OBVIOUS
<1>1. PICK p : p = Prior(s) /\ Q = q[s]
  BY <1>0
<1>2. /\ Prior(s)' = p /\ q'[s] = Append(Q, w) /\ l = LastSent(p, Q)
  BY <1>1
<1>3. \A k \in 1 .. Len(Q) : Follows(s, Preceding(p, Q, k), Q[k])
  BY <1>1 DEF StreamOK
<1>4. \A k \in 1 .. Len(Q) : Follows(s, Preceding(p, Q, k), Q[k])'
  BY <1>3, FollowsKept
<1>5. /\ \A k \in 1 .. Len(Q) : /\ Append(Q, w)[k] = Q[k]
                                /\ Preceding(p, Append(Q, w), k) = Preceding(p, Q, k)
      /\ Append(Q, w)[Len(Q) + 1] = w
      /\ Preceding(p, Append(Q, w), Len(Q) + 1) = l
      /\ LastSent(p, Append(Q, w)) = w
      /\ \A k \in 1 .. Len(Append(Q, w)) : k \in 1 .. Len(Q) \/ k = Len(Q) + 1
  BY <1>2, Pushed
<1>6. ASSUME NEW k \in 1 .. Len(Append(Q, w))
      PROVE  Follows(s, Preceding(p, Append(Q, w), k), Append(Q, w)[k])'
  <2>1. CASE k \in 1 .. Len(Q)
    BY <1>4, <1>5, <2>1
  <2>2. CASE k = Len(Q) + 1
    BY <1>5, <2>2
  <2> QED
    BY <1>5, <2>1, <2>2
<1>7. StreamOK(s)'
  BY <1>2, <1>6 DEF StreamOK
<1> QED
  BY <1>2, <1>5, <1>7

\* What a server has input last depends on what is its own.
LEMMA PriorSame ==
   ASSUME NEW s \in Servers, SameServer(s) PROVE Prior(s)' = Prior(s)
BY DEF SameServer, Prior

\* The request a server has input is still there.
LEMMA ServingKept ==
   ASSUME NEW s \in Servers, ServingOK(s), SameServer(s), AskKept(s), AnswerKept(s)
   PROVE  ServingOK(s)'
<1>0. /\ spc'[s] = spc[s] /\ remote'[s] = remote[s] /\ sender'[s] = sender[s]
      /\ command'[s] = command[s] /\ dest'[s] = dest[s]
  BY DEF SameServer
<1>1. SUFFICES ASSUME spc[s] \in 6 .. 10 PROVE ServingOK(s)'
  BY <1>0 DEF ServingOK
<1>2. PICK c \in Clients :
       /\ sc[c] # Zero /\ sender[s] = Address(sc[c]) /\ dest[sc[c]] = s
       /\ spc[s] \in 7 .. 10 => command[s] = Command(c, cmd[c])
       /\ spc[s] \in {9, 10} => dest[s] = sc[c]
       /\ spc[s] = 6 => Asks(c, s)
       /\ spc[s] = 7 => Asks(c, s) /\ cpc[c] \in {5, 6}
       /\ spc[s] \in {8, 9} => Asks(c, s) /\ cpc[c] = 6
       /\ spc[s] = 10 => /\ holder[sc[c]] = s
                         /\ \/ cpc[c] = 6 /\ q[sc[c]] = <<Invert(Command(c, cmd[c]))>>
                            \/ cpc[c] = 7 /\ q[sc[c]] = << >>
  BY <1>1 DEF ServingOK
<1>3. CASE Asks(c, s) /\ spc[s] # 10
  <2>1. /\ Asks(c, s)' /\ sc'[c] = sc[c] /\ cmd'[c] = cmd[c]
        /\ cpc[c] = 6 => cpc'[c] = 6
        /\ cpc[c] \in {5, 6} => cpc'[c] \in {5, 6}
    BY <1>3 DEF AskKept
  <2>2. sc'[c] # Zero /\ dest'[sc'[c]] = s
    BY <2>1 DEF Asks
  <2> QED
    BY <1>0, <1>2, <1>3, <2>1, <2>2 DEF ServingOK
<1>4. CASE spc[s] = 10
  <2>1. /\ sc'[c] = sc[c] /\ cmd'[c] = cmd[c] /\ dest'[sc[c]] = dest[sc[c]]
        /\ holder'[sc[c]] = s
        /\ \/ cpc'[c] = cpc[c] /\ q'[sc[c]] = q[sc[c]]
           \/ cpc'[c] = 7 /\ q'[sc[c]] = << >>
    BY <1>2, <1>4 DEF AnswerKept
  <2>2. 10 \in 7 .. 10 /\ 10 \in {9, 10} /\ 10 \notin {6, 7, 8, 9}
    OBVIOUS
  <2>3. /\ sender[s] = Address(sc[c]) /\ dest[sc[c]] = s
        /\ command[s] = Command(c, cmd[c]) /\ dest[s] = sc[c]
    BY <1>2, <1>4, <2>2
  <2>4. \/ cpc'[c] = 6 /\ q'[sc[c]] = <<Invert(Command(c, cmd[c]))>>
        \/ cpc'[c] = 7 /\ q'[sc[c]] = << >>
    BY <1>2, <1>4, <2>1
  <2> QED
    BY <1>0, <1>2, <1>4, <2>1, <2>2, <2>3, <2>4 DEF ServingOK
<1>5. spc[s] = 6 \/ spc[s] = 7 \/ spc[s] = 8 \/ spc[s] = 9 \/ spc[s] = 10
  BY <1>1
<1> QED
  BY <1>2, <1>3, <1>4, <1>5

\* A server whose queue and route a step leaves alone.
LEMMA ServerRest ==
   ASSUME NEW s \in Servers, StreamOK(s), RouteOK(s), OnceOK(s), AddressOK(s), ServingOK(s),
          SameServer(s), q'[s] = q[s], holder'[s] = holder[s],
          spc'[1 - s] = spc[1 - s] \/ (spc[1 - s] \in 3 .. Down /\ spc'[1 - s] \in 3 .. Down),
          AskKept(s), AnswerKept(s), SendKept(s)
   PROVE  StreamOK(s)' /\ RouteOK(s)' /\ OnceOK(s)' /\ AddressOK(s)' /\ ServingOK(s)'
<1>1. StreamOK(s)' /\ LastSent(Prior(s), q[s])' = LastSent(Prior(s), q[s])
  BY PriorSame, StreamSame
<1>2. PICK l : l = LastSent(Prior(s), q[s])
  OBVIOUS
<1>3. LastSent(Prior(s), q[s])' = l
  BY <1>1, <1>2
<1>4. /\ spc'[s] = spc[s] /\ remote'[s] = remote[s] /\ sender'[s] = sender[s]
      /\ command'[s] = command[s] /\ dest'[s] = dest[s]
  BY DEF SameServer
<1>5. RouteOK(s)'
  <2>1. CASE /\ holder[s] = Zero /\ q[s] = << >>
             /\ spc[s] \in 1 .. 3 /\ spc[1 - s] = 1
    <3>1. 1 \notin 3 .. Down
      OBVIOUS
    <3>2. spc'[1 - s] = 1
      BY <2>1, <3>1
    <3> QED
      BY <1>4, <2>1, <3>2 DEF RouteOK
  <2>2. CASE holder[s] = Zero /\ l = END /\ spc[1 - s] \in 3 .. Down
    BY <1>3, <2>2 DEF RouteOK
  <2>3. CASE holder[s] = 1 - s /\ l = Address(1 - s) /\ spc[1 - s] = 2
    <3>1. 2 \notin 3 .. Down
      OBVIOUS
    <3>2. spc'[1 - s] = 2
      BY <2>3, <3>1
    <3> QED
      BY <1>3, <2>3, <3>2 DEF RouteOK
  <2>4. ASSUME NEW c \in Clients,
               sc[c] # Zero, dest[sc[c]] = s, holder[s] = sc[c], spc[1 - s] \in 3 .. Down,
               \/ cpc[c] = 4 /\ l = Address(sc[c])
               \/ cpc[c] = 5 /\ l = Command(c, cmd[c])
        PROVE  RouteOK(s)'
    <3>1. /\ sc'[c] = sc[c] /\ cmd'[c] = cmd[c] /\ cpc'[c] = cpc[c] /\ dest'[sc[c]] = s
      BY <2>4 DEF SendKept
    <3>2. spc'[1 - s] \in 3 .. Down
      BY <2>4
    <3>3. /\ sc'[c] # Zero /\ dest'[sc'[c]] = s /\ holder'[s] = sc'[c]
          /\ \/ cpc'[c] = 4 /\ l = Address(sc'[c])
             \/ cpc'[c] = 5 /\ l = Command(c, cmd'[c])
      BY <2>4, <3>1
    <3> QED
      BY <1>3, <3>2, <3>3 DEF RouteOK
  <2> QED
    BY <1>2, <2>1, <2>2, <2>3, <2>4 DEF RouteOK
<1>6. OnceOK(s)'
  BY <1>4 DEF OnceOK
<1>7. AddressOK(s)'
  BY <1>4 DEF AddressOK
<1>8. ServingOK(s)'
  BY ServingKept
<1> QED
  BY <1>1, <1>5, <1>6, <1>7, <1>8

\* A client that a step leaves alone.
LEMMA ClientRest ==
   ASSUME NEW d \in Clients, OwnOK(d), ReplyOK(d), GotOK(d), SameClient(d),
          cpc[d] \in 0 .. 8,
          \A s \in Servers : /\ spc[s] \in 5 .. Down => spc'[s] \in 5 .. Down
                             /\ Answers(s, d) => spc'[s] = 10 /\ sender'[s] = sender[s],
          cpc[d] \in {4, 5} => holder'[dest[sc[d]]] = holder[dest[sc[d]]],
          sc[d] \notin pool',
          \A x \in Clients : x # d => sc'[x] = sc[x] \/ sc'[x] = Zero \/ sc'[x] # sc[d]
   PROVE  OwnOK(d)' /\ ReplyOK(d)' /\ GotOK(d)'
<1>1. /\ sc'[d] = sc[d] /\ cpc'[d] = cpc[d] /\ cmd'[d] = cmd[d] /\ got'[d] = got[d]
      /\ sc[d] # Zero => /\ dest'[sc[d]] = dest[sc[d]] /\ q'[sc[d]] = q[sc[d]]
                         /\ holder'[sc[d]] = holder[sc[d]]
  BY DEF SameClient
<1>2. Tile(d) \in Servers
  BY ChanendsAre
<1>3. OwnOK(d)'
  <2>1. /\ cpc'[d] \in {0, 1} => sc'[d] = Zero
        /\ sc'[d] \notin pool'
    BY <1>1 DEF OwnOK
  <2>2. cpc'[d] \in 3 .. 8 => sc'[d] # Zero /\ dest'[sc'[d]] \in Servers
    BY <1>1 DEF OwnOK
  <2>3. cpc'[d] \in 1 .. 8 => spc'[Tile(d)] \in 5 .. Down
    BY <1>1, <1>2 DEF OwnOK
  <2>4. cpc'[d] \in {4, 5} => holder'[dest'[sc'[d]]] = sc'[d]
    <3>1. cpc[d] \in {4, 5} => cpc[d] \in 3 .. 8
      OBVIOUS
    <3> QED
      BY <1>1, <3>1 DEF OwnOK
  <2>5. \A x \in Clients : sc'[x] = sc'[d] => x = d \/ sc'[d] = Zero
    BY <1>1 DEF OwnOK
  <2> QED
    BY <2>1, <2>2, <2>3, <2>4, <2>5 DEF OwnOK
<1>4. ReplyOK(d)'
  <2>1. SUFFICES ASSUME sc[d] # Zero PROVE ReplyOK(d)'
    BY <1>1 DEF ReplyOK
  <2>2. \A s : Answers(s, d) => Answers(s, d)'
    BY <1>1 DEF Answers
  <2>3. PICK h : h = holder[sc[d]]
    OBVIOUS
  <2>4. Answers(h, d) => Answers(h, d)'
    BY <2>2
  <2> QED
    BY <1>1, <2>1, <2>3, <2>4 DEF ReplyOK
<1>5. GotOK(d)'
  BY <1>1 DEF GotOK
<1> QED
  BY <1>3, <1>4, <1>5

\* What the invariant says of a client.
LEMMA ClientFacts ==
   ASSUME IInv, NEW c \in Clients
   PROVE  /\ cpc[c] \in 0 .. 8 /\ cmd[c] \in 1 .. MaxCommands + 1 /\ sc[c] \in Spare \cup {Zero}
          /\ OwnOK(c) /\ ReplyOK(c) /\ GotOK(c)
          /\ c \in Nat /\ Tile(c) \in Servers
BY ClientCodeIs, ChanendsAre DEF IInv, TypeOK

\* What it says of a server.
LEMMA ServerFacts ==
   ASSUME IInv, NEW s \in Servers
   PROVE  /\ spc[s] \in 1 .. 11
          /\ StreamOK(s) /\ RouteOK(s) /\ OnceOK(s) /\ AddressOK(s) /\ ServingOK(s)
          /\ StreamOK(1 - s) /\ RouteOK(1 - s) /\ OnceOK(1 - s) /\ AddressOK(1 - s)
          /\ ServingOK(1 - s) /\ spc[1 - s] \in 1 .. 11
          /\ s \in Chanends /\ 1 - s \in Servers /\ s \notin Spare
          /\ remote[s] \in Word /\ sender[s] \in Word /\ command[s] \in Word
BY ServerCodeIs, ChanendsAre DEF IInv, TypeOK

\* And of a chan-end.
LEMMA ChanendFacts ==
   ASSUME IInv, NEW e \in Chanends
   PROVE  /\ q[e] \in Seq(Word) /\ dest[e] \in Chanends \cup {Zero}
          /\ holder[e] \in Chanends \cup {Zero}
BY DEF IInv, TypeOK

\* No two clients have the same chan-end.
LEMMA Unique ==
   ASSUME IInv, NEW c \in Clients, NEW d \in Clients, sc[c] # Zero, sc[d] = sc[c]
   PROVE  d = c
BY DEF IInv, OwnOK

\* The request a server has is that of the client whose address it has input.
LEMMA Serves ==
   ASSUME IInv, NEW s \in Servers, NEW c \in Clients, sc[c] # Zero,
          spc[s] \in 6 .. 10, sender[s] = Address(sc[c])
   PROVE  /\ dest[sc[c]] = s
          /\ spc[s] \in 7 .. 10 => command[s] = Command(c, cmd[c])
          /\ spc[s] \in {9, 10} => dest[s] = sc[c]
          /\ spc[s] = 6 => Asks(c, s)
          /\ spc[s] = 7 => Asks(c, s) /\ cpc[c] \in {5, 6}
          /\ spc[s] \in {8, 9} => Asks(c, s) /\ cpc[c] = 6
          /\ spc[s] = 10 => /\ holder[sc[c]] = s
                            /\ \/ cpc[c] = 6 /\ q[sc[c]] = <<Invert(Command(c, cmd[c]))>>
                               \/ cpc[c] = 7 /\ q[sc[c]] = << >>
<1>1. PICK d \in Clients :
         /\ sc[d] # Zero /\ sender[s] = Address(sc[d]) /\ dest[sc[d]] = s
         /\ spc[s] \in 7 .. 10 => command[s] = Command(d, cmd[d])
         /\ spc[s] \in {9, 10} => dest[s] = sc[d]
         /\ spc[s] = 6 => Asks(d, s)
         /\ spc[s] = 7 => Asks(d, s) /\ cpc[d] \in {5, 6}
         /\ spc[s] \in {8, 9} => Asks(d, s) /\ cpc[d] = 6
         /\ spc[s] = 10 => /\ holder[sc[d]] = s
                           /\ \/ cpc[d] = 6 /\ q[sc[d]] = <<Invert(Command(d, cmd[d]))>>
                              \/ cpc[d] = 7 /\ q[sc[d]] = << >>
  BY DEF IInv, ServingOK
<1>2. sc[d] = sc[c]
  BY <1>1, WordsAre
<1>3. d = c
  BY <1>2, Unique
<1> QED
  BY <1>1, <1>3

\* A client that has not begun its request, or has the reply, is not served.
LEMMA NotServed ==
   ASSUME IInv, NEW c \in Clients, sc[c] # Zero, cpc[c] \in {0, 1, 2, 3, 8}, NEW s \in Servers
   PROVE  ~Asks(c, s) /\ ~(spc[s] \in 6 .. 10 /\ sender[s] = Address(sc[c]))
<1>1. ~Asks(c, s)
  BY DEF Asks
<1>2. ASSUME spc[s] \in 6 .. 10, sender[s] = Address(sc[c]) PROVE FALSE
  <2>1. spc[s] = 6 \/ spc[s] = 7 \/ spc[s] = 8 \/ spc[s] = 9 \/ spc[s] = 10
    BY <1>2
  <2>2. Asks(c, s) \/ cpc[c] = 6 \/ cpc[c] = 7
    BY <1>2, <2>1, Serves
  <2> QED
    BY <1>1, <2>2
<1> QED
  BY <1>1, <1>2

\* Whose packet server s is receiving.
LEMMA RouteOf ==
   ASSUME IInv, NEW s \in Servers, NEW c \in Clients, sc[c] # Zero, holder[s] = sc[c]
   PROVE  /\ dest[sc[c]] = s /\ spc[1 - s] \in 3 .. Down
          /\ \/ cpc[c] = 4 /\ LastSent(Prior(s), q[s]) = Address(sc[c])
             \/ cpc[c] = 5 /\ LastSent(Prior(s), q[s]) = Command(c, cmd[c])
<1>1. sc[c] \in Spare
  BY ClientFacts
<1>2. holder[s] # Zero /\ holder[s] # 1 - s
  BY <1>1, ChanendsAre
<1>3. PICK d \in Clients :
         /\ sc[d] # Zero /\ dest[sc[d]] = s /\ holder[s] = sc[d] /\ spc[1 - s] \in 3 .. Down
         /\ \/ cpc[d] = 4 /\ LastSent(Prior(s), q[s]) = Address(sc[d])
            \/ cpc[d] = 5 /\ LastSent(Prior(s), q[s]) = Command(d, cmd[d])
  BY <1>2 DEF IInv, RouteOK
<1>4. d = c
  BY <1>3, Unique
<1> QED
  BY <1>3, <1>4

(***************************************************************************)
(* The clients' instructions                                               *)
(***************************************************************************)
\* What every instruction of client c leaves alone.
ClientActs(c) ==
   /\ spc' = spc /\ remote' = remote /\ sender' = sender /\ command' = command
   /\ prog' = prog /\ trapped' = trapped
   /\ \A d \in Clients : d # c => /\ sc'[d] = sc[d] /\ cpc'[d] = cpc[d]
                                  /\ cmd'[d] = cmd[d] /\ got'[d] = got[d]
   /\ \A e \in Spare : e # sc[c] => /\ dest'[e] = dest[e] /\ q'[e] = q[e]
                                    /\ holder'[e] = holder[e]
   /\ \A s \in Servers : /\ dest'[s] = dest[s]
                         /\ holder'[s] = holder[s] \/ holder[s] \in {Zero, sc[c]}
   /\ pool' \subseteq pool \cup {sc[c]} /\ pool' \subseteq Spare
   /\ sc'[c] \in {sc[c], Zero} \cup pool
   /\ <<"client", c>> \notin trapped \/ cpc[c] # 2
   /\ sc'[c] = sc[c] \/ sc[c] = Zero \/ (q'[sc[c]] = << >> /\ holder'[sc[c]] = Zero)

\* The other clients, and the chan-ends nobody has.
LEMMA Bystanders ==
   ASSUME IInv, NEW c \in Clients, ClientActs(c)
   PROVE  /\ \A d \in Clients : d # c => /\ SameClient(d) /\ OwnOK(d)' /\ ReplyOK(d)' /\ GotOK(d)'
          /\ UnusedOK' /\ TrappedOK' /\ ProgOK'
          /\ \A s \in Servers : SameServer(s) /\ Prior(s)' = Prior(s)
<1>1. ASSUME NEW d \in Clients, d # c PROVE SameClient(d)
  <2>1. /\ sc'[d] = sc[d] /\ cpc'[d] = cpc[d] /\ cmd'[d] = cmd[d] /\ got'[d] = got[d]
    BY <1>1 DEF ClientActs
  <2>2. ASSUME sc[d] # Zero PROVE sc[d] \in Spare /\ sc[d] # sc[c]
    <3>1. sc[d] \in Spare
      BY <2>2, ClientFacts
    <3>2. sc[d] # sc[c]
      BY <1>1, <2>2, Unique
    <3> QED
      BY <3>1, <3>2
  <2>3. sc[d] # Zero => /\ dest'[sc[d]] = dest[sc[d]] /\ q'[sc[d]] = q[sc[d]]
                        /\ holder'[sc[d]] = holder[sc[d]]
    BY <2>2 DEF ClientActs
  <2> QED
    BY <2>1, <2>3 DEF SameClient
<1>2. ASSUME NEW d \in Clients, d # c PROVE OwnOK(d)' /\ ReplyOK(d)' /\ GotOK(d)'
  <2>1. /\ cpc[d] \in 0 .. 8 /\ sc[d] \in Spare \cup {Zero}
        /\ OwnOK(d) /\ ReplyOK(d) /\ GotOK(d)
    BY ClientFacts
  <2>2. \A s \in Servers : /\ spc[s] \in 5 .. Down => spc'[s] \in 5 .. Down
                           /\ Answers(s, d) => spc'[s] = 10 /\ sender'[s] = sender[s]
    BY DEF ClientActs, Answers
  <2>3. cpc[d] \in {4, 5} => holder'[dest[sc[d]]] = holder[dest[sc[d]]]
    <3>1. SUFFICES ASSUME cpc[d] \in {4, 5}
                   PROVE  holder'[dest[sc[d]]] = holder[dest[sc[d]]]
      OBVIOUS
    <3>2. cpc[d] \in 3 .. 8
      BY <3>1
    <3>3. sc[d] # Zero /\ dest[sc[d]] \in Servers /\ holder[dest[sc[d]]] = sc[d]
      BY <2>1, <3>1, <3>2 DEF OwnOK
    <3>4. sc[d] # sc[c]
      BY <1>2, <3>3, Unique
    <3>5. \A s \in Servers : holder'[s] = holder[s] \/ holder[s] \in {Zero, sc[c]}
      BY DEF ClientActs
    <3> QED
      BY <3>3, <3>4, <3>5
  <2>4. sc[d] \notin pool'
    <3>1. sc[d] \notin pool
      BY <2>1 DEF OwnOK
    <3>2. pool' \subseteq pool \cup {sc[c]} /\ pool' \subseteq Spare
      BY DEF ClientActs
    <3>3. CASE sc[d] = Zero
      BY <3>2, <3>3, ChanendsAre
    <3>4. CASE sc[d] # Zero
      <4>1. sc[d] # sc[c]
        BY <1>2, <3>4, Unique
      <4> QED
        BY <3>1, <3>2, <4>1
    <3> QED
      BY <3>3, <3>4
  <2>5. \A x \in Clients : x # d => sc'[x] = sc[x] \/ sc'[x] = Zero \/ sc'[x] # sc[d]
    <3>1. \A x \in Clients : x # c => sc'[x] = sc[x]
      BY DEF ClientActs
    <3>2. sc'[c] = sc[c] \/ sc'[c] = Zero \/ sc'[c] \in pool
      BY DEF ClientActs
    <3>3. sc[d] \notin pool
      BY <2>1 DEF OwnOK
    <3> QED
      BY <3>1, <3>2, <3>3
  <2> QED
    BY <1>1, <1>2, <2>1, <2>2, <2>3, <2>4, <2>5, ClientRest
<1>3. UnusedOK'
  <2>1. SUFFICES ASSUME NEW e \in Spare, \A d \in Clients : sc'[d] # e
                 PROVE  q'[e] = << >> /\ holder'[e] = Zero
    BY DEF UnusedOK
  <2>2. CASE e = sc[c]
    <3>1. e # Zero
      BY ChanendsAre
    <3> QED
      BY <2>1, <2>2, <3>1 DEF ClientActs
  <2>3. CASE e # sc[c]
    <3>1. \A d \in Clients : sc[d] # e
      BY <2>1, <2>3 DEF ClientActs
    <3>2. q[e] = << >> /\ holder[e] = Zero
      BY <3>1 DEF IInv, UnusedOK
    <3>3. q'[e] = q[e] /\ holder'[e] = holder[e]
      BY <2>3 DEF ClientActs
    <3> QED
      BY <3>2, <3>3
  <2> QED
    BY <2>2, <2>3
<1>4. TrappedOK'
  <2>1. trapped' = trapped
    BY DEF ClientActs
  <2>2. SUFFICES ASSUME NEW k \in trapped
                 PROVE  /\ k[1] = "client" /\ k[2] \in Clients
                        /\ k = <<"client", k[2]>>
                        /\ sc'[k[2]] = Zero /\ cpc'[k[2]] = 2
    BY <2>1 DEF TrappedOK
  <2>3. /\ k[1] = "client" /\ k[2] \in Clients /\ k = <<"client", k[2]>>
        /\ sc[k[2]] = Zero /\ cpc[k[2]] = 2
    BY DEF IInv, TrappedOK
  <2>4. PICK d \in Clients : d = k[2]
    BY <2>3
  <2>5. k = <<"client", d>>
    BY <2>3, <2>4
  <2>6. d # c
    <3>1. SUFFICES ASSUME d = c PROVE FALSE
      OBVIOUS
    <3>2. <<"client", c>> \in trapped
      BY <2>5, <3>1
    <3>3. cpc[c] = 2
      BY <2>3, <2>4, <3>1
    <3> QED
      BY <3>2, <3>3 DEF ClientActs
  <2>7. sc'[d] = sc[d] /\ cpc'[d] = cpc[d]
    BY <2>6 DEF ClientActs
  <2> QED
    BY <2>3, <2>4, <2>7
<1>5. ProgOK'
  BY DEF ClientActs, IInv, ProgOK
<1>6. ASSUME NEW s \in Servers PROVE SameServer(s) /\ Prior(s)' = Prior(s)
  <2>1. SameServer(s)
    BY DEF ClientActs, SameServer
  <2> QED
    BY <2>1, PriorSame
<1> QED
  BY <1>1, <1>2, <1>3, <1>4, <1>5, <1>6

\* The servers, when client c sends nothing and is not in their way.
LEMMA QuietServers ==
   ASSUME IInv, NEW c \in Clients, ClientActs(c),
          \A s \in Servers : q'[s] = q[s] /\ holder'[s] = holder[s],
          cpc[c] \notin {4, 5},
          \A s \in Servers : ~Asks(c, s),
          \A s \in Servers : sc[c] # Zero /\ spc[s] = 10 /\ sender[s] = Address(sc[c]) =>
             /\ sc'[c] = sc[c] /\ cmd'[c] = cmd[c] /\ dest'[sc[c]] = dest[sc[c]]
             /\ holder'[sc[c]] = holder[sc[c]] /\ cpc'[c] = 7 /\ q'[sc[c]] = << >>
   PROVE  \A s \in Servers :
             StreamOK(s)' /\ RouteOK(s)' /\ OnceOK(s)' /\ AddressOK(s)' /\ ServingOK(s)'
<1>1. SUFFICES ASSUME NEW s \in Servers
               PROVE  /\ StreamOK(s)' /\ RouteOK(s)' /\ OnceOK(s)' /\ AddressOK(s)'
                      /\ ServingOK(s)'
  OBVIOUS
<1>2. \A d \in Clients : d # c => SameClient(d)
  BY Bystanders
<1>3. SameServer(s)
  BY Bystanders
<1>4. AskKept(s)
  <2>1. \A d \in Clients : Asks(d, s) => SameClient(d)
    BY <1>2
  <2> QED
    BY <2>1, AskSame
<1>5. AnswerKept(s)
  <2>1. SUFFICES ASSUME NEW d \in Clients, sc[d] # Zero, spc[s] = 10,
                        sender[s] = Address(sc[d]), holder[sc[d]] = s
                 PROVE  /\ sc'[d] = sc[d] /\ cmd'[d] = cmd[d] /\ dest'[sc[d]] = dest[sc[d]]
                        /\ holder'[sc[d]] = s
                        /\ \/ cpc'[d] = cpc[d] /\ q'[sc[d]] = q[sc[d]]
                           \/ cpc'[d] = 7 /\ q'[sc[d]] = << >>
    BY DEF AnswerKept
  <2>2. CASE d = c
    BY <2>1, <2>2
  <2>3. CASE d # c
    BY <1>2, <2>1, <2>3 DEF SameClient
  <2> QED
    BY <2>2, <2>3
<1>6. SendKept(s)
  <2>1. SUFFICES ASSUME NEW d \in Clients, sc[d] # Zero, cpc[d] \in {4, 5}
                 PROVE  /\ sc'[d] = sc[d] /\ cmd'[d] = cmd[d] /\ cpc'[d] = cpc[d]
                        /\ dest'[sc[d]] = dest[sc[d]]
    BY DEF SendKept
  <2>2. d # c
    BY <2>1
  <2> QED
    BY <1>2, <2>1, <2>2 DEF SameClient
<1>7. q'[s] = q[s] /\ holder'[s] = holder[s] /\ spc'[1 - s] = spc[1 - s]
  BY DEF ClientActs
<1>8. StreamOK(s) /\ RouteOK(s) /\ OnceOK(s) /\ AddressOK(s) /\ ServingOK(s)
  BY ServerFacts
<1> QED
  BY <1>3, <1>4, <1>5, <1>6, <1>7, <1>8, ServerRest

\* The parts of the invariant after a step of client c.
LEMMA ClientDone ==
   ASSUME IInv, NEW c \in Clients, ClientActs(c), TypeOK',
          \A s \in Servers :
             StreamOK(s)' /\ RouteOK(s)' /\ OnceOK(s)' /\ AddressOK(s)' /\ ServingOK(s)',
          OwnOK(c)', ReplyOK(c)', GotOK(c)'
   PROVE  IInv'
<1>1. /\ \A d \in Clients : d # c => OwnOK(d)' /\ ReplyOK(d)' /\ GotOK(d)'
      /\ UnusedOK' /\ TrappedOK' /\ ProgOK'
  BY Bystanders
<1>2. \A d \in Clients : OwnOK(d)' /\ ReplyOK(d)' /\ GotOK(d)'
  BY <1>1
<1> QED
  BY <1>1, <1>2 DEF IInv

\* The types of the clients' variables, of the servers' and of the network.
ClientTypes == /\ cpc \in [Clients -> 0 .. 8] /\ cmd \in [Clients -> 1 .. MaxCommands + 1]
               /\ sc \in [Clients -> Spare \cup {Zero}]
               /\ got \in [Clients -> [1 .. MaxCommands -> Word]]
ServerTypes == /\ spc \in [Servers -> 1 .. 11]
               /\ remote \in [Servers -> Word] /\ sender \in [Servers -> Word]
               /\ command \in [Servers -> Word]
QueueTypes == /\ q \in [Chanends -> Seq(Word)] /\ \A e \in Chanends : Len(q[e]) <= Cap
              /\ holder \in [Chanends -> Chanends \cup {Zero}]
RestTypes == pool \subseteq Spare /\ dest \in [Chanends -> Chanends \cup {Zero}]

\* They are the type invariant.
LEMMA Types == TypeOK <=> ClientTypes /\ ServerTypes /\ QueueTypes /\ RestTypes
BY ClientCodeIs, ServerCodeIs DEF TypeOK, ClientTypes, ServerTypes, QueueTypes, RestTypes

\* An output.
LEMMA OutIs ==
   ASSUME TypeOK, NEW e \in Chanends, NEW d \in Chanends, d = dest[e], NEW w \in Word, Out(e, w)
   PROVE  /\ holder[d] \in {Zero, e}
          /\ q'[d] = Append(q[d], w) /\ holder'[d] = IF w = END THEN Zero ELSE e
          /\ \A f \in Chanends : f # d => q'[f] = q[f] /\ holder'[f] = holder[f]
          /\ pool' = pool /\ dest' = dest /\ QueueTypes'
<1>1. /\ q \in [Chanends -> Seq(Word)] /\ \A f \in Chanends : Len(q[f]) <= Cap
      /\ holder \in [Chanends -> Chanends \cup {Zero}]
  BY DEF TypeOK
<1>2. /\ holder[d] \in {Zero, e} /\ Len(q[d]) < Cap
      /\ q' = [q EXCEPT ![d] = Append(@, w)]
      /\ holder' = [holder EXCEPT ![d] = IF w = END THEN Zero ELSE e]
      /\ pool' = pool /\ dest' = dest
  BY DEF Out
<1>3. /\ q'[d] = Append(q[d], w) /\ holder'[d] = IF w = END THEN Zero ELSE e
      /\ \A f \in Chanends : f # d => q'[f] = q[f] /\ holder'[f] = holder[f]
  BY <1>1, <1>2
<1>4. PICK Q \in Seq(Word) : Q = q[d]
  BY <1>1
<1>5. Append(Q, w) \in Seq(Word) /\ Len(Append(Q, w)) = Len(Q) + 1
  BY <1>4, Pushed
<1>6. Len(Append(Q, w)) <= Cap
  <2>1. Len(Q) \in Nat /\ Cap \in Nat
    BY ClientAssumption
  <2> QED
    BY <1>2, <1>4, <1>5, <2>1
<1>7. q' \in [Chanends -> Seq(Word)]
  BY <1>1, <1>2, <1>4, <1>5
<1>8. \A f \in Chanends : Len(q'[f]) <= Cap
  BY <1>1, <1>3, <1>4, <1>6
<1>9. holder' \in [Chanends -> Chanends \cup {Zero}]
  BY <1>1, <1>2
<1>10. QueueTypes'
  BY <1>7, <1>8, <1>9 DEF QueueTypes
<1> QED
  BY <1>2, <1>3, <1>10

\* An input.
LEMMA TakeIs ==
   ASSUME TypeOK, NEW e \in Chanends, q[e] # << >>, Take(e)
   PROVE  /\ q'[e] = Tail(q[e]) /\ holder' = holder
          /\ \A f \in Chanends : f # e => q'[f] = q[f]
          /\ pool' = pool /\ dest' = dest /\ QueueTypes'
<1>1. /\ q \in [Chanends -> Seq(Word)] /\ \A f \in Chanends : Len(q[f]) <= Cap
      /\ holder \in [Chanends -> Chanends \cup {Zero}]
  BY DEF TypeOK
<1>2. q' = [q EXCEPT ![e] = Tail(@)] /\ pool' = pool /\ dest' = dest /\ holder' = holder
  BY DEF Take
<1>3. /\ q'[e] = Tail(q[e])
      /\ \A f \in Chanends : f # e => q'[f] = q[f]
  BY <1>1, <1>2
<1>4. PICK Q \in Seq(Word) : Q = q[e] /\ Q # << >>
  BY <1>1
<1>5. Tail(Q) \in Seq(Word) /\ Len(Tail(Q)) <= Len(Q)
  BY <1>4, Popped
<1>6. Len(Tail(Q)) <= Cap
  <2>1. Len(Q) \in Nat /\ Cap \in Nat /\ Len(Tail(Q)) \in Nat
    BY <1>5, ClientAssumption
  <2>2. Len(Q) <= Cap
    BY <1>1, <1>4
  <2> QED
    BY <1>5, <2>1, <2>2
<1>7. q' \in [Chanends -> Seq(Word)]
  BY <1>1, <1>2, <1>4, <1>5
<1>8. \A f \in Chanends : Len(q'[f]) <= Cap
  BY <1>1, <1>3, <1>4, <1>6
<1>9. QueueTypes'
  BY <1>1, <1>2, <1>7, <1>8 DEF QueueTypes
<1> QED
  BY <1>2, <1>3, <1>9

\* The servers issue no instruction.
Still == UNCHANGED <<prog, server, trapped>>

\* Nothing of theirs changes.
LEMMA StillIs ==
   ASSUME Still
   PROVE  /\ prog' = prog /\ trapped' = trapped /\ spc' = spc /\ remote' = remote
          /\ sender' = sender /\ command' = command
BY DEF Still, server

\* A client goes on to its next instruction.
LEMMA Advances ==
   ASSUME NEW c \in Clients, cpc \in [Clients -> 0 .. 8], Advance(c)
   PROVE  /\ cpc[c] \in 0 .. 7 => cpc'[c] = cpc[c] + 1
          /\ cpc[c] = 8 => cpc'[c] = 1
          /\ \A d \in Clients : d # c => cpc'[d] = cpc[d]
          /\ cpc' \in [Clients -> 0 .. 8]
<1>1. cpc' = [cpc EXCEPT ![c] = (@ % 8) + 1]
  BY ClientCodeIs DEF Advance
<1>2. \A n \in 0 .. 8 : /\ (n % 8) + 1 \in 0 .. 8
                        /\ n \in 0 .. 7 => (n % 8) + 1 = n + 1
                        /\ n = 8 => (n % 8) + 1 = 1
  OBVIOUS
<1>3. PICK n \in 0 .. 8 : n = cpc[c]
  OBVIOUS
<1>4. cpc'[c] = (n % 8) + 1 /\ cpc' = [cpc EXCEPT ![c] = (n % 8) + 1]
  BY <1>1, <1>3
<1>5. \A d \in Clients : d # c => cpc'[d] = cpc[d]
  BY <1>1
<1>6. cpc' \in [Clients -> 0 .. 8]
  BY <1>2, <1>4
<1> QED
  BY <1>2, <1>3, <1>4, <1>5, <1>6

\* The types after a step of a client.
LEMMA ClientTyped ==
   ASSUME TypeOK, Still, cpc' \in [Clients -> 0 .. 8],
          cmd' \in [Clients -> 1 .. MaxCommands + 1], sc' \in [Clients -> Spare \cup {Zero}],
          got' \in [Clients -> [1 .. MaxCommands -> Word]], QueueTypes', RestTypes'
   PROVE  TypeOK'
<1>1. ClientTypes'
  BY DEF ClientTypes
<1>2. ServerTypes'
  BY StillIs, Types DEF ServerTypes
<1> QED
  BY <1>1, <1>2, ClientCodeIs, ServerCodeIs
     DEF TypeOK, ClientTypes, ServerTypes, QueueTypes, RestTypes

\* A client starts.
LEMMA StartInv ==
   ASSUME IInv, NEW c \in Clients, ClientStart(c), Still
   PROVE  IInv'
<1>1. /\ cpc[c] = 0 /\ spc[Tile(c)] >= 5 /\ Advance(c)
      /\ pool' = pool /\ dest' = dest /\ q' = q /\ holder' = holder
      /\ cmd' = cmd /\ sc' = sc /\ got' = got
  BY DEF ClientStart, Loop, network
<1>2. TypeOK /\ OwnOK(c) /\ Tile(c) \in Servers /\ GotOK(c)
  BY ClientFacts DEF IInv
<1>3. cpc \in [Clients -> 0 .. 8]
  BY <1>2, Types DEF ClientTypes
<1>4. cpc'[c] = 1 /\ cpc' \in [Clients -> 0 .. 8] /\ \A d \in Clients : d # c => cpc'[d] = cpc[d]
  BY <1>1, <1>3, Advances
<1>5. sc[c] = Zero
  BY <1>1, <1>2 DEF OwnOK
<1>6. ClientActs(c)
  BY <1>1, <1>2, <1>4, StillIs DEF ClientActs, TypeOK
<1>7. TypeOK'
  <2>1. QueueTypes' /\ RestTypes'
    BY <1>1, <1>2, Types DEF QueueTypes, RestTypes
  <2>2. /\ cmd' \in [Clients -> 1 .. MaxCommands + 1] /\ sc' \in [Clients -> Spare \cup {Zero}]
        /\ got' \in [Clients -> [1 .. MaxCommands -> Word]]
    BY <1>1, <1>2 DEF TypeOK
  <2> QED
    BY <1>2, <1>4, <2>1, <2>2, ClientTyped
<1>8. \A s \in Servers :
         StreamOK(s)' /\ RouteOK(s)' /\ OnceOK(s)' /\ AddressOK(s)' /\ ServingOK(s)'
  <2>1. \A s \in Servers : ~Asks(c, s)
    BY <1>5 DEF Asks
  <2> QED
    BY <1>1, <1>5, <1>6, <2>1, QuietServers
<1>9. OwnOK(c)' /\ ReplyOK(c)' /\ GotOK(c)'
  <2>1. spc'[Tile(c)] \in 5 .. Down
    <3>1. spc[Tile(c)] \in 1 .. 11 /\ Down = 11
      BY <1>2, ServerFacts, ServerCodeIs
    <3> QED
      BY <1>1, <3>1, StillIs
  <2>2. sc'[c] = Zero /\ Zero \notin pool'
    BY <1>1, <1>2, <1>5 DEF OwnOK
  <2>3. OwnOK(c)'
    BY <1>4, <2>1, <2>2 DEF OwnOK
  <2>4. ReplyOK(c)'
    BY <2>2 DEF ReplyOK
  <2>5. GotOK(c)'
    BY <1>1, <1>2, <1>4 DEF GotOK
  <2> QED
    BY <2>3, <2>4, <2>5
<1> QED
  BY <1>6, <1>7, <1>8, <1>9, ClientDone

\* s_chanend_alloc.
LEMMA AllocInv ==
   ASSUME IInv, NEW c \in Clients, Alloc(c), Still
   PROVE  IInv'
<1>1. /\ At(c, "alloc") /\ Advance(c)
      /\ dest' = dest /\ q' = q /\ holder' = holder /\ cmd' = cmd /\ got' = got
  BY DEF Alloc
<1>2. PICK e \in pool \cup {Zero} : sc' = [sc EXCEPT ![c] = e] /\ pool' = pool \ {e}
  BY DEF Alloc
<1>3. TypeOK /\ OwnOK(c) /\ Tile(c) \in Servers /\ GotOK(c)
  BY ClientFacts DEF IInv
<1>4. cpc \in [Clients -> 0 .. 8] /\ sc \in [Clients -> Spare \cup {Zero}] /\ pool \subseteq Spare
  BY <1>3, Types DEF ClientTypes, RestTypes
<1>5. cpc[c] = 1
  BY <1>1, <1>4, ClientAt
<1>6. cpc'[c] = 2 /\ cpc' \in [Clients -> 0 .. 8] /\ \A d \in Clients : d # c => cpc'[d] = cpc[d]
  BY <1>1, <1>4, <1>5, Advances
<1>7. sc[c] = Zero
  BY <1>3, <1>5 DEF OwnOK
<1>8. sc'[c] = e /\ \A d \in Clients : d # c => sc'[d] = sc[d]
  BY <1>2, <1>4
<1>9. ClientActs(c)
  <2>1. \A f : f \in {Zero} \cup pool => f \in {sc[c], Zero} \cup pool
    OBVIOUS
  <2> QED
    BY <1>1, <1>2, <1>4, <1>5, <1>6, <1>7, <1>8, <2>1, StillIs DEF ClientActs
<1>10. TypeOK'
  <2>1. QueueTypes' /\ RestTypes'
    BY <1>1, <1>2, <1>3, Types DEF QueueTypes, RestTypes
  <2>2. /\ cmd' \in [Clients -> 1 .. MaxCommands + 1]
        /\ got' \in [Clients -> [1 .. MaxCommands -> Word]]
    BY <1>1, <1>3 DEF TypeOK
  <2>3. sc' \in [Clients -> Spare \cup {Zero}]
    BY <1>2, <1>4
  <2> QED
    BY <1>3, <1>6, <2>1, <2>2, <2>3, ClientTyped
<1>11. \A s \in Servers :
          StreamOK(s)' /\ RouteOK(s)' /\ OnceOK(s)' /\ AddressOK(s)' /\ ServingOK(s)'
  <2>1. \A s \in Servers : ~Asks(c, s)
    BY <1>7 DEF Asks
  <2> QED
    BY <1>1, <1>5, <1>7, <1>9, <2>1, QuietServers
<1>12. ASSUME e # Zero
       PROVE  (\A d \in Clients : sc[d] # e) /\ q[e] = << >> /\ holder[e] = Zero
  <2>1. e \in pool /\ e \in Spare
    BY <1>4, <1>12
  <2>2. \A d \in Clients : sc[d] \notin pool
    BY ClientFacts DEF OwnOK
  <2> QED
    BY <2>1, <2>2 DEF IInv, UnusedOK
<1>13. OwnOK(c)' /\ ReplyOK(c)' /\ GotOK(c)'
  <2>1. spc'[Tile(c)] \in 5 .. Down
    BY <1>3, <1>5, StillIs DEF OwnOK
  <2>2. sc'[c] \notin pool'
    BY <1>2, <1>8
  <2>3. \A d \in Clients : sc'[d] = sc'[c] => d = c \/ sc'[c] = Zero
    BY <1>8, <1>12
  <2>4. OwnOK(c)'
    BY <1>6, <2>1, <2>2, <2>3 DEF OwnOK
  <2>5. ReplyOK(c)'
    BY <1>1, <1>6, <1>8, <1>12 DEF ReplyOK
  <2>6. GotOK(c)'
    BY <1>1, <1>3, <1>6 DEF GotOK
  <2> QED
    BY <2>4, <2>5, <2>6
<1> QED
  BY <1>9, <1>10, <1>11, <1>13, ClientDone

\* The server a command is for.
LEMMA ServerIs ==
   ASSUME IInv, NEW c \in Clients, cpc[c] \in 1 .. 8
   PROVE  Server(c) \in Servers
<1>1. Tile(c) \in Servers /\ OwnOK(c)
  BY ClientFacts
<1>2. spc[Tile(c)] \in 4 .. Down
  BY <1>1, ServerCodeIs DEF OwnOK
<1>3. remote[Tile(c)] = Address(1 - Tile(c))
  BY <1>1, <1>2 DEF IInv, AddressOK
<1>4. remote[Tile(c)][2] = 1 - Tile(c) /\ 1 - Tile(c) \in Servers
  BY <1>1, <1>3, WordsAre, ChanendsAre
<1> QED
  BY <1>1, <1>4 DEF Server

\* s_chanend_set_dest of a client.
LEMMA SetDestInv ==
   ASSUME IInv, NEW c \in Clients, Call(c, "setd"), SetDest(sc[c], Server(c)), Still
   PROVE  IInv'
<1>1. /\ At(c, "setd") /\ Advance(c) /\ sc[c] # Zero
      /\ dest' = [dest EXCEPT ![sc[c]] = Server(c)]
      /\ pool' = pool /\ q' = q /\ holder' = holder /\ cmd' = cmd /\ got' = got /\ sc' = sc
  BY DEF Call, SetDest
<1>2. TypeOK /\ OwnOK(c) /\ ReplyOK(c) /\ GotOK(c) /\ sc[c] \in Spare
  BY <1>1, ClientFacts DEF IInv
<1>3. cpc \in [Clients -> 0 .. 8] /\ dest \in [Chanends -> Chanends \cup {Zero}]
  BY <1>2, Types DEF ClientTypes, RestTypes
<1>4. cpc[c] = 2
  BY <1>1, <1>3, ClientAt
<1>5. cpc'[c] = 3 /\ cpc' \in [Clients -> 0 .. 8] /\ \A d \in Clients : d # c => cpc'[d] = cpc[d]
  BY <1>1, <1>3, <1>4, Advances
<1>6. PICK e \in Spare, v \in Servers : e = sc[c] /\ v = Server(c)
  BY <1>2, <1>4, ServerIs
<1>7. e \in Chanends /\ v \in Chanends /\ e \notin Servers
  BY ChanendsAre
<1>8. /\ dest'[e] = v /\ \A f \in Chanends : f # e => dest'[f] = dest[f]
      /\ dest' \in [Chanends -> Chanends \cup {Zero}]
  BY <1>1, <1>3, <1>6, <1>7
<1>9. ClientActs(c)
  <2>1. /\ \A f \in Spare : f # sc[c] => dest'[f] = dest[f]
        /\ \A s \in Servers : dest'[s] = dest[s]
    BY <1>6, <1>7, <1>8, ChanendsAre
  <2>2. <<"client", c>> \notin trapped
    BY <1>1 DEF At, Running
  <2>3. pool' \subseteq Spare
    BY <1>1, <1>2 DEF TypeOK
  <2> QED
    BY <1>1, <1>5, <2>1, <2>2, <2>3, StillIs DEF ClientActs
<1>10. TypeOK'
  <2>1. QueueTypes'
    BY <1>1, <1>2, Types DEF QueueTypes
  <2>2. RestTypes'
    BY <1>1, <1>2, <1>8, Types DEF RestTypes
  <2>3. /\ cmd' \in [Clients -> 1 .. MaxCommands + 1] /\ sc' \in [Clients -> Spare \cup {Zero}]
        /\ got' \in [Clients -> [1 .. MaxCommands -> Word]]
    BY <1>1, <1>2 DEF TypeOK
  <2> QED
    BY <1>2, <1>5, <2>1, <2>2, <2>3, ClientTyped
<1>11. \A s \in Servers :
          StreamOK(s)' /\ RouteOK(s)' /\ OnceOK(s)' /\ AddressOK(s)' /\ ServingOK(s)'
  <2>1. \A s \in Servers : ~Asks(c, s) /\ ~(spc[s] \in 6 .. 10 /\ sender[s] = Address(sc[c]))
    BY <1>1, <1>4, NotServed
  <2>2. 10 \in 6 .. 10 /\ cpc[c] \notin {4, 5}
    BY <1>4
  <2> QED
    BY <1>1, <1>9, <2>1, <2>2, QuietServers
<1>12. OwnOK(c)' /\ ReplyOK(c)' /\ GotOK(c)'
  <2>1. spc'[Tile(c)] \in 5 .. Down
    BY <1>2, <1>4, StillIs DEF OwnOK
  <2>2. sc'[c] # Zero /\ dest'[sc'[c]] \in Servers
    BY <1>1, <1>6, <1>8
  <2>3. sc'[c] \notin pool' /\ \A d \in Clients : sc'[d] = sc'[c] => d = c \/ sc'[c] = Zero
    BY <1>1, <1>2 DEF OwnOK
  <2>4. OwnOK(c)'
    BY <1>5, <2>1, <2>2, <2>3 DEF OwnOK
  <2>5. q[sc[c]] = << >> /\ holder[sc[c]] = Zero
    BY <1>1, <1>2, <1>4 DEF ReplyOK
  <2>6. ReplyOK(c)'
    BY <1>1, <1>5, <2>5 DEF ReplyOK
  <2>7. GotOK(c)'
    BY <1>1, <1>2, <1>5 DEF GotOK
  <2> QED
    BY <2>4, <2>6, <2>7
<1> QED
  BY <1>9, <1>10, <1>11, <1>12, ClientDone

\* The reply of the server, or the rest of it, is input.
LEMMA ReceiveInv ==
   ASSUME IInv, NEW c \in Clients, Receive(c), Still
   PROVE  IInv'
<1>1. /\ At(c, "in_response") /\ Advance(c) /\ sc[c] # Zero /\ q[sc[c]] # << >>
      /\ Take(sc[c]) /\ cmd' = cmd /\ sc' = sc
      /\ got' = [got EXCEPT ![c][cmd[c]] = Head(q[sc[c]])]
  BY DEF Receive, In
<1>2. TypeOK /\ OwnOK(c) /\ ReplyOK(c) /\ GotOK(c) /\ sc[c] \in Spare
  BY <1>1, ClientFacts DEF IInv
<1>3. cpc \in [Clients -> 0 .. 8] /\ got \in [Clients -> [1 .. MaxCommands -> Word]]
  BY <1>2, Types DEF ClientTypes
<1>4. cpc[c] = 6
  BY <1>1, <1>3, ClientAt
<1>5. cpc'[c] = 7 /\ cpc' \in [Clients -> 0 .. 8] /\ \A d \in Clients : d # c => cpc'[d] = cpc[d]
  BY <1>1, <1>3, <1>4, Advances
<1>6. PICK e \in Spare : e = sc[c]
  BY <1>2
<1>7. e \in Chanends /\ e \notin Servers /\ Servers \subseteq Chanends /\ Spare \subseteq Chanends
  BY ChanendsAre
<1>8. /\ q'[e] = Tail(q[e]) /\ holder' = holder
      /\ \A f \in Chanends : f # e => q'[f] = q[f]
      /\ pool' = pool /\ dest' = dest /\ QueueTypes'
  BY <1>1, <1>2, <1>6, <1>7, TakeIs
<1>9. PICK i \in 1 .. MaxCommands : i = cmd[c]
  <2>1. cmd[c] <= Len(prog[c]) /\ Len(prog[c]) <= MaxCommands
    BY <1>1 DEF At, Running, IInv, ProgOK
  <2>2. Len(prog[c]) \in Nat /\ cmd[c] \in Nat /\ cmd[c] >= 1 /\ MaxCommands \in Nat
    BY ClientFacts, ClientAssumption DEF IInv, ProgOK
  <2> QED
    BY <2>1, <2>2
<1>10. PICK r : r = Invert(Command(c, i))
  OBVIOUS
<1>11. /\ \/ holder[e] = Zero /\ q[e] = <<r, END>>
          \/ Answers(holder[e], c) /\ q[e] = <<r>>
  BY <1>1, <1>2, <1>4, <1>6, <1>9, <1>10 DEF ReplyOK
<1>12. Head(q[e]) = r
  BY <1>11
<1>13. \/ holder[e] = Zero /\ q'[e] = <<END>>
       \/ Answers(holder[e], c) /\ q'[e] = << >>
  <2>1. Tail(<<r, END>>) = <<END>> /\ Tail(<<r>>) = << >>
    OBVIOUS
  <2>2. CASE holder[e] = Zero /\ q[e] = <<r, END>>
    BY <1>8, <2>1, <2>2
  <2>3. CASE Answers(holder[e], c) /\ q[e] = <<r>>
    BY <1>8, <2>1, <2>3
  <2> QED
    BY <1>11, <2>2, <2>3
<1>14. /\ got' = [got EXCEPT ![c] = [got[c] EXCEPT ![i] = r]]
  BY <1>1, <1>6, <1>9, <1>12
<1>15. r \in Word
  <2>1. c \in Nat /\ i \in Nat
    BY <1>9, ClientFacts
  <2> QED
    BY <1>10, <2>1, WordsTyped
<1>16. /\ got' \in [Clients -> [1 .. MaxCommands -> Word]]
       /\ got'[c][i] = r /\ \A j \in 1 .. MaxCommands : j # i => got'[c][j] = got[c][j]
       /\ \A d \in Clients : d # c => got'[d] = got[d]
  BY <1>3, <1>14, <1>15
<1>17. ClientActs(c)
  <2>1. <<"client", c>> \notin trapped
    BY <1>1 DEF At, Running
  <2>2. pool' \subseteq Spare
    BY <1>2, <1>8 DEF TypeOK
  <2> QED
    BY <1>1, <1>5, <1>6, <1>7, <1>8, <1>16, <2>1, <2>2, StillIs DEF ClientActs
<1>18. TypeOK'
  <2>1. RestTypes'
    BY <1>2, <1>8, Types DEF RestTypes
  <2>2. /\ cmd' \in [Clients -> 1 .. MaxCommands + 1] /\ sc' \in [Clients -> Spare \cup {Zero}]
    BY <1>1, <1>2 DEF TypeOK
  <2> QED
    BY <1>2, <1>5, <1>8, <1>16, <2>1, <2>2, ClientTyped
<1>19. \A s \in Servers :
          StreamOK(s)' /\ RouteOK(s)' /\ OnceOK(s)' /\ AddressOK(s)' /\ ServingOK(s)'
  <2>1. \A s \in Servers : ~Asks(c, s)
    BY <1>1 DEF Asks
  <2>2. cpc[c] \notin {4, 5}
    BY <1>4
  <2>3. ASSUME NEW s \in Servers, spc[s] = 10, sender[s] = Address(sc[c])
        PROVE  q'[sc[c]] = << >>
    <3>1. holder[e] = s
      BY <1>1, <1>6, <2>3, Serves
    <3>2. s # Zero
      BY ChanendsAre
    <3> QED
      BY <1>6, <1>13, <3>1, <3>2
  <2> QED
    BY <1>1, <1>5, <1>6, <1>7, <1>8, <1>17, <2>1, <2>2, <2>3, QuietServers
<1>20. OwnOK(c)' /\ ReplyOK(c)' /\ GotOK(c)'
  <2>1. spc'[Tile(c)] \in 5 .. Down
    BY <1>2, <1>4, StillIs DEF OwnOK
  <2>2. sc'[c] # Zero /\ dest'[sc'[c]] \in Servers
    BY <1>1, <1>2, <1>4, <1>8 DEF OwnOK
  <2>3. sc'[c] \notin pool' /\ \A d \in Clients : sc'[d] = sc'[c] => d = c \/ sc'[c] = Zero
    BY <1>1, <1>2, <1>8 DEF OwnOK
  <2>4. OwnOK(c)'
    BY <1>5, <2>1, <2>2, <2>3 DEF OwnOK
  <2>5. ReplyOK(c)'
    <3>1. PICK h : h = holder[e]
      OBVIOUS
    <3>2. Answers(h, c) => Answers(h, c)'
      BY <1>1, StillIs DEF Answers
    <3>3. \/ h = Zero /\ q'[e] = <<END>>
          \/ Answers(h, c)' /\ q'[e] = << >>
      BY <1>13, <3>1, <3>2
    <3>4. holder'[sc'[c]] = h /\ sc'[c] = e
      BY <1>1, <1>6, <1>8, <3>1
    <3> QED
      BY <1>5, <3>3, <3>4 DEF ReplyOK
  <2>6. GotOK(c)'
    <3>1. /\ cmd'[c] = i /\ got'[c][i] = Invert(Command(c, i))
      BY <1>1, <1>9, <1>10, <1>16
    <3>2. ASSUME NEW j \in 1 .. i - 1 PROVE got'[c][j] = Invert(Command(c, j))
      <4>1. j \in 1 .. MaxCommands /\ j # i
        BY <1>9, ClientAssumption
      <4>2. got[c][j] = Invert(Command(c, j))
        BY <1>2, <1>9 DEF GotOK
      <4> QED
        BY <1>16, <4>1, <4>2
    <3> QED
      BY <3>1, <3>2 DEF GotOK
  <2> QED
    BY <2>4, <2>5, <2>6
<1> QED
  BY <1>17, <1>18, <1>19, <1>20, ClientDone

\* The END of the reply is checked.
LEMMA CheckEndInv ==
   ASSUME IInv, NEW c \in Clients, Call(c, "check_END"), CheckEnd(sc[c]), Still
   PROVE  IInv'
<1>1. /\ At(c, "check_END") /\ Advance(c) /\ sc[c] # Zero /\ q[sc[c]] # << >>
      /\ Take(sc[c]) /\ cmd' = cmd /\ sc' = sc /\ got' = got
  BY DEF Call, CheckEnd
<1>2. TypeOK /\ OwnOK(c) /\ ReplyOK(c) /\ GotOK(c) /\ sc[c] \in Spare
  BY <1>1, ClientFacts DEF IInv
<1>3. cpc \in [Clients -> 0 .. 8]
  BY <1>2, Types DEF ClientTypes
<1>4. cpc[c] = 7
  BY <1>1, <1>3, ClientAt
<1>5. cpc'[c] = 8 /\ cpc' \in [Clients -> 0 .. 8] /\ \A d \in Clients : d # c => cpc'[d] = cpc[d]
  BY <1>1, <1>3, <1>4, Advances
<1>6. PICK e \in Spare : e = sc[c]
  BY <1>2
<1>7. e \in Chanends /\ e \notin Servers /\ Servers \subseteq Chanends /\ Spare \subseteq Chanends
  BY ChanendsAre
<1>8. /\ q'[e] = Tail(q[e]) /\ holder' = holder
      /\ \A f \in Chanends : f # e => q'[f] = q[f]
      /\ pool' = pool /\ dest' = dest /\ QueueTypes'
  BY <1>1, <1>2, <1>6, <1>7, TakeIs
<1>9. holder[e] = Zero /\ q[e] = <<END>>
  BY <1>1, <1>2, <1>4, <1>6 DEF ReplyOK
<1>10. q'[e] = << >>
  BY <1>8, <1>9
<1>11. ClientActs(c)
  <2>1. <<"client", c>> \notin trapped
    BY <1>1 DEF At, Running
  <2>2. pool' \subseteq Spare
    BY <1>2, <1>8 DEF TypeOK
  <2> QED
    BY <1>1, <1>5, <1>6, <1>7, <1>8, <2>1, <2>2, StillIs DEF ClientActs
<1>12. TypeOK'
  <2>1. RestTypes'
    BY <1>2, <1>8, Types DEF RestTypes
  <2>2. /\ cmd' \in [Clients -> 1 .. MaxCommands + 1] /\ sc' \in [Clients -> Spare \cup {Zero}]
        /\ got' \in [Clients -> [1 .. MaxCommands -> Word]]
    BY <1>1, <1>2 DEF TypeOK
  <2> QED
    BY <1>2, <1>5, <1>8, <2>1, <2>2, ClientTyped
<1>13. \A s \in Servers :
          StreamOK(s)' /\ RouteOK(s)' /\ OnceOK(s)' /\ AddressOK(s)' /\ ServingOK(s)'
  <2>1. \A s \in Servers : ~Asks(c, s)
    BY <1>1 DEF Asks
  <2>2. cpc[c] \notin {4, 5}
    BY <1>4
  <2>3. \A s \in Servers : ~(spc[s] = 10 /\ sender[s] = Address(sc[c]))
    <3>1. SUFFICES ASSUME NEW s \in Servers, spc[s] = 10, sender[s] = Address(sc[c])
                   PROVE  FALSE
      OBVIOUS
    <3>2. holder[e] = s
      BY <1>1, <1>6, <3>1, Serves
    <3> QED
      BY <1>9, <3>2, ChanendsAre
  <2> QED
    BY <1>7, <1>8, <1>11, <2>1, <2>2, <2>3, QuietServers
<1>14. OwnOK(c)' /\ ReplyOK(c)' /\ GotOK(c)'
  <2>1. spc'[Tile(c)] \in 5 .. Down
    BY <1>2, <1>4, StillIs DEF OwnOK
  <2>2. sc'[c] # Zero /\ dest'[sc'[c]] \in Servers
    BY <1>1, <1>2, <1>4, <1>8 DEF OwnOK
  <2>3. sc'[c] \notin pool' /\ \A d \in Clients : sc'[d] = sc'[c] => d = c \/ sc'[c] = Zero
    BY <1>1, <1>2, <1>8 DEF OwnOK
  <2>4. OwnOK(c)'
    BY <1>5, <2>1, <2>2, <2>3 DEF OwnOK
  <2>5. ReplyOK(c)'
    BY <1>1, <1>5, <1>6, <1>8, <1>9, <1>10 DEF ReplyOK
  <2>6. GotOK(c)'
    BY <1>1, <1>2, <1>4 DEF GotOK
  <2> QED
    BY <2>4, <2>5, <2>6
<1> QED
  BY <1>11, <1>12, <1>13, <1>14, ClientDone

\* s_chanend_free.
LEMMA FreeInv ==
   ASSUME IInv, NEW c \in Clients, Free(c), Still
   PROVE  IInv'
<1>1. /\ At(c, "free") /\ Advance(c) /\ sc[c] # Zero
      /\ pool' = pool \cup {sc[c]} /\ dest' = [dest EXCEPT ![sc[c]] = Zero]
      /\ q' = q /\ holder' = holder /\ got' = got
      /\ sc' = [sc EXCEPT ![c] = Zero] /\ cmd' = [cmd EXCEPT ![c] = @ + 1]
  BY DEF Free, FreeR
<1>2. TypeOK /\ OwnOK(c) /\ ReplyOK(c) /\ GotOK(c) /\ sc[c] \in Spare
  BY <1>1, ClientFacts DEF IInv
<1>3. /\ cpc \in [Clients -> 0 .. 8] /\ sc \in [Clients -> Spare \cup {Zero}]
      /\ cmd \in [Clients -> 1 .. MaxCommands + 1] /\ dest \in [Chanends -> Chanends \cup {Zero}]
      /\ pool \subseteq Spare
  BY <1>2, Types DEF ClientTypes, RestTypes
<1>4. cpc[c] = 8
  BY <1>1, <1>3, ClientAt
<1>5. cpc'[c] = 1 /\ cpc' \in [Clients -> 0 .. 8] /\ \A d \in Clients : d # c => cpc'[d] = cpc[d]
  BY <1>1, <1>3, <1>4, Advances
<1>6. PICK e \in Spare : e = sc[c]
  BY <1>2
<1>7. e \in Chanends /\ e \notin Servers /\ Servers \subseteq Chanends /\ Spare \subseteq Chanends
  BY ChanendsAre
<1>8. /\ \A f \in Chanends : f # e => dest'[f] = dest[f]
      /\ dest' \in [Chanends -> Chanends \cup {Zero}]
  BY <1>1, <1>3, <1>6, <1>7
<1>9. PICK i \in 1 .. MaxCommands : i = cmd[c]
  <2>1. cmd[c] <= Len(prog[c]) /\ Len(prog[c]) <= MaxCommands
    BY <1>1 DEF At, Running, IInv, ProgOK
  <2>2. Len(prog[c]) \in Nat /\ cmd[c] \in Nat /\ cmd[c] >= 1 /\ MaxCommands \in Nat
    BY ClientFacts, ClientAssumption DEF IInv, ProgOK
  <2> QED
    BY <2>1, <2>2
<1>10. /\ cmd'[c] = i + 1 /\ \A d \in Clients : d # c => cmd'[d] = cmd[d]
       /\ cmd' \in [Clients -> 1 .. MaxCommands + 1]
  <2>1. i + 1 \in 1 .. MaxCommands + 1
    BY <1>9, ClientAssumption
  <2>2. cmd' = [cmd EXCEPT ![c] = i + 1]
    BY <1>1, <1>9
  <2> QED
    BY <1>3, <2>1, <2>2
<1>11. /\ sc'[c] = Zero /\ \A d \in Clients : d # c => sc'[d] = sc[d]
       /\ sc' \in [Clients -> Spare \cup {Zero}]
  BY <1>1, <1>3
<1>12. q[e] = << >> /\ holder[e] = Zero
  BY <1>1, <1>2, <1>4, <1>6 DEF ReplyOK
<1>13. ClientActs(c)
  <2>1. <<"client", c>> \notin trapped
    BY <1>1 DEF At, Running
  <2>2. pool' \subseteq Spare
    BY <1>1, <1>2, <1>3
  <2>3. sc'[c] \in {sc[c], Zero} \cup pool
    BY <1>11
  <2> QED
    BY <1>1, <1>5, <1>6, <1>7, <1>8, <1>10, <1>11, <1>12, <2>1, <2>2, <2>3, StillIs
       DEF ClientActs
<1>14. TypeOK'
  <2>1. QueueTypes'
    BY <1>1, <1>2, Types DEF QueueTypes
  <2>2. RestTypes'
    BY <1>1, <1>2, <1>3, <1>8 DEF RestTypes
  <2>3. got' \in [Clients -> [1 .. MaxCommands -> Word]]
    BY <1>1, <1>2 DEF TypeOK
  <2> QED
    BY <1>2, <1>5, <1>10, <1>11, <2>1, <2>2, <2>3, ClientTyped
<1>15. \A s \in Servers :
          StreamOK(s)' /\ RouteOK(s)' /\ OnceOK(s)' /\ AddressOK(s)' /\ ServingOK(s)'
  <2>1. \A s \in Servers : ~Asks(c, s) /\ ~(spc[s] \in 6 .. 10 /\ sender[s] = Address(sc[c]))
    BY <1>1, <1>4, NotServed
  <2>2. 10 \in 6 .. 10 /\ cpc[c] \notin {4, 5}
    BY <1>4
  <2> QED
    BY <1>1, <1>13, <2>1, <2>2, QuietServers
<1>16. OwnOK(c)' /\ ReplyOK(c)' /\ GotOK(c)'
  <2>1. spc'[Tile(c)] \in 5 .. Down
    BY <1>2, <1>4, StillIs DEF OwnOK
  <2>2. Zero \notin pool'
    BY <1>1, <1>2, <1>3, ChanendsAre
  <2>3. OwnOK(c)'
    BY <1>5, <1>11, <2>1, <2>2 DEF OwnOK
  <2>4. ReplyOK(c)'
    BY <1>11 DEF ReplyOK
  <2>5. GotOK(c)'
    <3>1. /\ \A j \in 1 .. i - 1 : got[c][j] = Invert(Command(c, j))
          /\ got[c][i] = Invert(Command(c, i))
      BY <1>2, <1>4, <1>9 DEF GotOK
    <3>2. \A j \in 1 .. i + 1 - 1 : j \in 1 .. i - 1 \/ j = i
      BY <1>9
    <3>3. \A j \in 1 .. cmd'[c] - 1 : got'[c][j] = Invert(Command(c, j))
      BY <1>1, <1>10, <3>1, <3>2
    <3> QED
      BY <1>5, <3>3 DEF GotOK
  <2> QED
    BY <2>3, <2>4, <2>5
<1> QED
  BY <1>13, <1>14, <1>15, <1>16, ClientDone

(***************************************************************************)
(* What the clients send                                                   *)
(***************************************************************************)
\* Client c sends word w.
Sends(c, w) == Running(c) /\ Advance(c) /\ Out(sc[c], w) /\ cmd' = cmd /\ sc' = sc /\ got' = got

\* What follows of it alone.
LEMMA SendFacts ==
   ASSUME IInv, NEW c \in Clients, cpc[c] \in {3, 4, 5}, NEW w \in Word, Sends(c, w), Still,
          NEW s, s = dest[sc[c]]
   PROVE  /\ s \in Servers /\ sc[c] \in Spare /\ sc[c] # Zero /\ holder[s] \in {Zero, sc[c]}
          /\ q'[s] = Append(q[s], w) /\ holder'[s] = IF w = END THEN Zero ELSE sc[c]
          /\ q'[sc[c]] = q[sc[c]] /\ holder'[sc[c]] = holder[sc[c]] /\ dest' = dest
          /\ q'[1 - s] = q[1 - s] /\ holder'[1 - s] = holder[1 - s]
          /\ cpc'[c] = cpc[c] + 1 /\ cmd' = cmd /\ sc' = sc /\ got' = got /\ pool' = pool
          /\ ClientActs(c) /\ TypeOK'
<1>1. /\ Running(c) /\ Advance(c) /\ Out(sc[c], w) /\ cmd' = cmd /\ sc' = sc /\ got' = got
  BY DEF Sends
<1>2. TypeOK /\ OwnOK(c)
  BY ClientFacts DEF IInv
<1>3. sc[c] # Zero /\ s \in Servers
  <2>1. cpc[c] \in 3 .. 8
    OBVIOUS
  <2> QED
    BY <1>2, <2>1 DEF OwnOK
<1>4. sc[c] \in Spare
  BY <1>3, ClientFacts
<1>5. PICK e \in Spare : e = sc[c]
  BY <1>4
<1>6. /\ e \in Chanends /\ e \notin Servers /\ Servers \subseteq Chanends /\ Spare \subseteq Chanends
      /\ 1 - s \in Servers /\ 1 - s # s /\ e # s /\ e # 1 - s /\ s \notin Spare
  BY <1>3, ChanendsAre
<1>7. /\ holder[s] \in {Zero, e}
      /\ q'[s] = Append(q[s], w) /\ holder'[s] = IF w = END THEN Zero ELSE e
      /\ \A f \in Chanends : f # s => q'[f] = q[f] /\ holder'[f] = holder[f]
      /\ pool' = pool /\ dest' = dest /\ QueueTypes'
  BY <1>1, <1>2, <1>3, <1>5, <1>6, OutIs
<1>8. cpc \in [Clients -> 0 .. 8]
  BY <1>2, Types DEF ClientTypes
<1>9. cpc'[c] = cpc[c] + 1 /\ cpc' \in [Clients -> 0 .. 8] /\ \A d \in Clients : d # c => cpc'[d] = cpc[d]
  <2>1. cpc[c] \in 0 .. 7
    OBVIOUS
  <2> QED
    BY <1>1, <1>8, <2>1, Advances
<1>10. ClientActs(c)
  <2>1. <<"client", c>> \notin trapped
    BY <1>1 DEF Running
  <2>2. pool' \subseteq Spare
    BY <1>2, <1>7 DEF TypeOK
  <2>3. \A r \in Servers : holder'[r] = holder[r] \/ holder[r] \in {Zero, sc[c]}
    BY <1>5, <1>6, <1>7
  <2>4. \A f \in Spare : f # sc[c] => q'[f] = q[f] /\ holder'[f] = holder[f]
    BY <1>6, <1>7
  <2> QED
    BY <1>1, <1>7, <1>9, <2>1, <2>2, <2>3, <2>4, StillIs DEF ClientActs
<1>11. TypeOK'
  <2>1. RestTypes'
    BY <1>2, <1>7, Types DEF RestTypes
  <2>2. /\ cmd' \in [Clients -> 1 .. MaxCommands + 1] /\ sc' \in [Clients -> Spare \cup {Zero}]
        /\ got' \in [Clients -> [1 .. MaxCommands -> Word]]
    BY <1>1, <1>2 DEF TypeOK
  <2> QED
    BY <1>2, <1>7, <1>9, <2>1, <2>2, ClientTyped
<1>12. /\ q'[e] = q[e] /\ holder'[e] = holder[e]
       /\ q'[1 - s] = q[1 - s] /\ holder'[1 - s] = holder[1 - s]
  BY <1>6, <1>7
<1> QED
  BY <1>1, <1>3, <1>4, <1>5, <1>7, <1>9, <1>10, <1>11, <1>12

\* The other server, and what the server it is sent to has input already.
LEMMA SendKeeps ==
   ASSUME IInv, NEW c \in Clients, cpc[c] \in {3, 4, 5}, NEW w \in Word, Sends(c, w), Still,
          NEW s, s = dest[sc[c]]
   PROVE  /\ AskKept(s) /\ SameServer(s) /\ AddressOK(s)' /\ ServingOK(s)'
          /\ StreamOK(1 - s)' /\ RouteOK(1 - s)' /\ OnceOK(1 - s)' /\ AddressOK(1 - s)'
          /\ ServingOK(1 - s)'
<1>1. /\ s \in Servers /\ sc[c] \in Spare /\ sc[c] # Zero
      /\ q'[sc[c]] = q[sc[c]] /\ holder'[sc[c]] = holder[sc[c]] /\ dest' = dest
      /\ q'[1 - s] = q[1 - s] /\ holder'[1 - s] = holder[1 - s]
      /\ cpc'[c] = cpc[c] + 1 /\ cmd' = cmd /\ sc' = sc /\ ClientActs(c)
  BY SendFacts
<1>2. \A d \in Clients : d # c => SameClient(d)
  BY <1>1, Bystanders
<1>3. 1 - s \in Servers /\ 1 - s # s /\ 1 - (1 - s) = s
  BY <1>1, ChanendsAre
<1>4. ASSUME NEW t \in Servers PROVE AskKept(t) /\ AnswerKept(t)
  <2>1. AskKept(t)
    <3>1. SUFFICES ASSUME NEW d \in Clients, Asks(d, t)
                   PROVE  /\ Asks(d, t)' /\ sc'[d] = sc[d] /\ cmd'[d] = cmd[d]
                          /\ \/ cpc'[d] = cpc[d]
                             \/ cpc[d] = 4 /\ cpc'[d] = 5
                             \/ cpc[d] = 5 /\ cpc'[d] = 6
      BY DEF AskKept
    <3>2. CASE d = c
      <4>1. cpc[c] \in {4, 5}
        <5>1. cpc[c] \in 4 .. 6
          BY <3>1, <3>2 DEF Asks
        <5> QED
          BY <5>1
      <4>2. \/ cpc[c] = 4 /\ cpc'[c] = 5
            \/ cpc[c] = 5 /\ cpc'[c] = 6
        BY <1>1, <4>1
      <4>3. cpc'[c] \in 4 .. 6
        BY <4>2
      <4> QED
        BY <1>1, <3>1, <3>2, <4>2, <4>3 DEF Asks
    <3>3. CASE d # c
      BY <1>2, <3>1, <3>3 DEF SameClient, Asks
    <3> QED
      BY <3>2, <3>3
  <2>2. AnswerKept(t)
    <3>1. SUFFICES ASSUME NEW d \in Clients, sc[d] # Zero, spc[t] = 10,
                          sender[t] = Address(sc[d]), holder[sc[d]] = t
                   PROVE  /\ sc'[d] = sc[d] /\ cmd'[d] = cmd[d] /\ dest'[sc[d]] = dest[sc[d]]
                          /\ holder'[sc[d]] = t
                          /\ cpc'[d] = cpc[d] /\ q'[sc[d]] = q[sc[d]]
      BY DEF AnswerKept
    <3>2. d # c
      <4>1. cpc[d] = 6 \/ cpc[d] = 7
        BY <3>1, Serves
      <4> QED
        BY <4>1
    <3> QED
      BY <1>2, <3>1, <3>2 DEF SameClient
  <2> QED
    BY <2>1, <2>2
<1>5. SendKept(1 - s)
  <2>1. SUFFICES ASSUME NEW d \in Clients, sc[d] # Zero, dest[sc[d]] = 1 - s
                 PROVE  /\ sc'[d] = sc[d] /\ cmd'[d] = cmd[d] /\ cpc'[d] = cpc[d]
                        /\ dest'[sc[d]] = dest[sc[d]]
    BY DEF SendKept
  <2>2. d # c
    BY <1>3, <2>1
  <2> QED
    BY <1>2, <2>1, <2>2 DEF SameClient
<1>6. \A t \in Servers : SameServer(t) /\ spc'[t] = spc[t]
  BY <1>1, Bystanders DEF SameServer
<1>7. /\ StreamOK(1 - s) /\ RouteOK(1 - s) /\ OnceOK(1 - s) /\ AddressOK(1 - s)
      /\ ServingOK(1 - s) /\ AddressOK(s) /\ ServingOK(s)
  BY <1>1, ServerFacts
<1>8. StreamOK(1 - s)' /\ RouteOK(1 - s)' /\ OnceOK(1 - s)' /\ AddressOK(1 - s)' /\ ServingOK(1 - s)'
  <2>1. PICK t \in Servers : t = 1 - s /\ 1 - t = s
    BY <1>3
  <2>2. StreamOK(t)' /\ RouteOK(t)' /\ OnceOK(t)' /\ AddressOK(t)' /\ ServingOK(t)'
    BY <1>1, <1>4, <1>5, <1>6, <1>7, <2>1, ServerRest
  <2> QED
    BY <2>1, <2>2
<1>9. AddressOK(s)'
  BY <1>1, <1>6, <1>7 DEF AddressOK, SameServer
<1>10. ServingOK(s)'
  BY <1>1, <1>4, <1>6, <1>7, ServingKept
<1> QED
  BY <1>1, <1>4, <1>6, <1>8, <1>9, <1>10

\* A word that is sent to a server is no request that it has already.
LEMMA OncePush ==
   ASSUME NEW s \in Servers, OnceOK(s), q[s] \in Seq(Word), NEW w \in Word,
          q'[s] = Append(q[s], w), spc'[s] = spc[s], sender'[s] = sender[s],
          \A e \in Spare : w = Address(e) =>
             /\ spc[s] \in 6 .. 10 => sender[s] # Address(e)
             /\ \A k \in 1 .. Len(q[s]) : q[s][k] # Address(e)
   PROVE  OnceOK(s)'
<1>1. PICK Q \in Seq(Word) : Q = q[s]
  OBVIOUS
<1>2. PICK R : R = Append(Q, w)
  OBVIOUS
<1>3. q'[s] = R
  BY <1>1, <1>2
<1>4. /\ \A k \in 1 .. Len(R) : k \in 1 .. Len(Q) \/ k = Len(Q) + 1
      /\ \A k \in 1 .. Len(Q) : R[k] = Q[k]
      /\ R[Len(Q) + 1] = w
  BY <1>2, Pushed
<1>5. SUFFICES ASSUME NEW e \in Spare, NEW k \in 1 .. Len(R), R[k] = Address(e)
               PROVE  /\ spc[s] \in 6 .. 10 => sender[s] # Address(e)
                      /\ \A l \in 1 .. Len(R) : R[l] = Address(e) => l = k
  BY <1>3 DEF OnceOK
<1>6. \A j \in 1 .. Len(Q) : Q[j] = Address(e) =>
         /\ spc[s] \in 6 .. 10 => sender[s] # Address(e)
         /\ \A l \in 1 .. Len(Q) : Q[l] = Address(e) => l = j
  BY <1>1 DEF OnceOK
<1>7. w = Address(e) => /\ spc[s] \in 6 .. 10 => sender[s] # Address(e)
                        /\ \A j \in 1 .. Len(Q) : Q[j] # Address(e)
  BY <1>1
<1>8. CASE k \in 1 .. Len(Q)
  <2>1. Q[k] = Address(e) /\ w # Address(e)
    BY <1>4, <1>5, <1>7, <1>8
  <2>2. ASSUME NEW l \in 1 .. Len(R), R[l] = Address(e) PROVE l = k
    <3>1. l \in 1 .. Len(Q)
      BY <1>4, <2>1, <2>2
    <3>2. Q[l] = Address(e)
      BY <1>4, <2>2, <3>1
    <3> QED
      BY <1>6, <1>8, <2>1, <3>1, <3>2
  <2> QED
    BY <1>6, <1>8, <2>1, <2>2
<1>9. CASE k = Len(Q) + 1
  <2>1. w = Address(e)
    BY <1>4, <1>5, <1>9
  <2>2. ASSUME NEW l \in 1 .. Len(R), R[l] = Address(e) PROVE l = k
    <3>1. l \notin 1 .. Len(Q)
      BY <1>4, <1>7, <2>1, <2>2
    <3> QED
      BY <1>4, <1>9, <3>1
  <2> QED
    BY <1>7, <2>1, <2>2
<1> QED
  BY <1>4, <1>8, <1>9

\* The address of a client that has not asked is not at a server.
LEMMA NoAddress ==
   ASSUME IInv, NEW s \in Servers, NEW c \in Clients, sc[c] # Zero, ~Asks(c, s),
          NEW k \in 1 .. Len(q[s])
   PROVE  q[s][k] # Address(sc[c])
<1>1. SUFFICES ASSUME q[s][k] = Address(sc[c]) PROVE FALSE
  OBVIOUS
<1>2. PICK x, y : x = Preceding(Prior(s), q[s], k) /\ y = q[s][k] /\ Follows(s, x, y)
  BY ServerFacts DEF StreamOK
<1>3. y = Address(sc[c])
  BY <1>1, <1>2
<1>4. sc[c] # 1 - s
  BY ClientFacts, ChanendsAre
<1>5. PICK d \in Clients : Asks(d, s) /\ y = Address(sc[d])
  <2>1. /\ ~(x = First /\ y = Address(1 - s))
        /\ ~(x = Address(1 - s) /\ y = END)
    BY <1>3, <1>4, WordsAre
  <2>2. \A d \in Clients : y # Command(d, cmd[d]) /\ y # END
    BY <1>3, WordsAre
  <2> QED
    BY <1>2, <2>1, <2>2 DEF Follows
<1>6. sc[d] = sc[c]
  BY <1>3, <1>5, WordsAre
<1>7. d = c
  BY <1>6, Unique
<1> QED
  BY <1>5, <1>7

\* The return address is sent.
LEMMA OutAddressInv ==
   ASSUME IInv, NEW c \in Clients, cpc[c] = 3, Sends(c, Address(sc[c])), Still
   PROVE  IInv'
<1>1. PICK s : s = dest[sc[c]]
  OBVIOUS
<1>2. PICK e \in Spare : e = sc[c] /\ e # Zero
  <2>1. OwnOK(c) /\ sc[c] \in Spare \cup {Zero} /\ cpc[c] \in 3 .. 8
    BY ClientFacts
  <2> QED
    BY <2>1 DEF OwnOK
<1>3. PICK w \in Word : w = Address(e)
  BY WordsTyped, ChanendsAre
<1>4. /\ cpc[c] \in {3, 4, 5} /\ Sends(c, w) /\ w # END
  BY <1>2, <1>3, WordsAre
<1>5. /\ s \in Servers /\ holder[s] \in {Zero, e}
      /\ q'[s] = Append(q[s], w) /\ holder'[s] = e
      /\ q'[e] = q[e] /\ holder'[e] = holder[e] /\ dest' = dest
      /\ cpc'[c] = 4 /\ cmd' = cmd /\ sc' = sc /\ got' = got /\ pool' = pool
      /\ ClientActs(c) /\ TypeOK'
  BY <1>1, <1>2, <1>4, SendFacts
<1>6. /\ AskKept(s) /\ SameServer(s) /\ AddressOK(s)' /\ ServingOK(s)'
      /\ StreamOK(1 - s)' /\ RouteOK(1 - s)' /\ OnceOK(1 - s)' /\ AddressOK(1 - s)'
      /\ ServingOK(1 - s)'
  BY <1>1, <1>4, SendKeeps
<1>7. /\ OwnOK(c) /\ ReplyOK(c) /\ GotOK(c) /\ Tile(c) \in Servers
  BY ClientFacts
<1>8. PICK l : l = LastSent(Prior(s), q[s])
  OBVIOUS
<1>9. l = END /\ spc[1 - s] \in 3 .. Down
  <2>1. spc[Tile(c)] \in 5 .. Down /\ (Tile(c) = s \/ Tile(c) = 1 - s)
    BY <1>5, <1>7, ChanendsAre DEF OwnOK
  <2>2. ~(spc[s] \in 1 .. 3 /\ spc[1 - s] = 1)
    BY <2>1
  <2>3. holder[s] # 1 - s
    BY <1>5, ChanendsAre
  <2>4. ~\E d \in Clients : sc[d] # Zero /\ holder[s] = sc[d]
    <3>1. SUFFICES ASSUME NEW d \in Clients, sc[d] # Zero, holder[s] = sc[d] PROVE FALSE
      OBVIOUS
    <3>2. sc[d] = sc[c]
      BY <1>2, <1>5, <3>1
    <3>3. d = c
      BY <1>2, <3>2, Unique
    <3>4. cpc[c] = 4 \/ cpc[c] = 5
      BY <1>5, <3>1, <3>3, RouteOf
    <3> QED
      BY <3>4
  <2>5. RouteOK(s)
    BY <1>5, ServerFacts
  <2> QED
    BY <1>8, <2>2, <2>3, <2>4, <2>5 DEF RouteOK
<1>10. q[e] = << >> /\ holder[e] = Zero
  <2>1. cpc[c] \in 0 .. 5 \cup {8}
    OBVIOUS
  <2> QED
    BY <1>2, <1>7, <2>1 DEF ReplyOK
<1>11. Asks(c, s)'
  BY <1>1, <1>2, <1>5, <1>10 DEF Asks
<1>12. Follows(s, l, w)'
  BY <1>2, <1>3, <1>5, <1>9, <1>11 DEF Follows
<1>13. StreamOK(s) /\ OnceOK(s) /\ q[s] \in Seq(Word) /\ Prior(s)' = Prior(s)
  BY <1>5, <1>6, ServerFacts, ChanendFacts, PriorSame
<1>14. StreamOK(s)' /\ LastSent(Prior(s), q[s])' = w
  BY <1>5, <1>6, <1>8, <1>12, <1>13, StreamPush
<1>15. RouteOK(s)'
  <2>1. spc'[1 - s] \in 3 .. Down
    BY <1>9, StillIs
  <2> QED
    BY <1>1, <1>2, <1>3, <1>5, <1>14, <2>1 DEF RouteOK
<1>16. OnceOK(s)'
  <2>1. /\ ~Asks(c, s)
        /\ ~(spc[s] \in 6 .. 10 /\ sender[s] = Address(sc[c]))
    BY <1>2, <1>5, NotServed
  <2>2. \A k \in 1 .. Len(q[s]) : q[s][k] # Address(e)
    BY <1>2, <1>5, <2>1, NoAddress
  <2>3. \A f \in Spare : w = Address(f) => f = e
    BY <1>3, WordsAre
  <2>4. \A f \in Spare : w = Address(f) =>
           /\ spc[s] \in 6 .. 10 => sender[s] # Address(f)
           /\ \A k \in 1 .. Len(q[s]) : q[s][k] # Address(f)
    BY <1>2, <2>1, <2>2, <2>3
  <2> QED
    BY <1>5, <1>6, <1>13, <2>4, OncePush DEF SameServer
<1>17. OwnOK(c)' /\ ReplyOK(c)' /\ GotOK(c)'
  <2>1. spc'[Tile(c)] \in 5 .. Down
    BY <1>7, StillIs DEF OwnOK
  <2>2. sc'[c] # Zero /\ dest'[sc'[c]] = s /\ holder'[s] = sc'[c]
    BY <1>1, <1>2, <1>5
  <2>3. sc'[c] \notin pool' /\ \A d \in Clients : sc'[d] = sc'[c] => d = c \/ sc'[c] = Zero
    BY <1>5, <1>7 DEF OwnOK
  <2>4. OwnOK(c)'
    BY <1>5, <2>1, <2>2, <2>3 DEF OwnOK
  <2>5. ReplyOK(c)'
    BY <1>2, <1>5, <1>10 DEF ReplyOK
  <2>6. GotOK(c)'
    BY <1>5, <1>7 DEF GotOK
  <2> QED
    BY <2>4, <2>5, <2>6
<1>18. \A r \in Servers :
          StreamOK(r)' /\ RouteOK(r)' /\ OnceOK(r)' /\ AddressOK(r)' /\ ServingOK(r)'
  <2>1. \A r \in Servers : r = s \/ r = 1 - s
    BY <1>5, ChanendsAre
  <2> QED
    BY <1>6, <1>14, <1>15, <1>16, <2>1
<1> QED
  BY <1>5, <1>17, <1>18, ClientDone

\* The command is sent.
LEMMA OutCommandInv ==
   ASSUME IInv, NEW c \in Clients, cpc[c] = 4, Sends(c, Command(c, cmd[c])), Still
   PROVE  IInv'
<1>1. PICK s : s = dest[sc[c]]
  OBVIOUS
<1>2. PICK e \in Spare : e = sc[c] /\ e # Zero
  <2>1. OwnOK(c) /\ sc[c] \in Spare \cup {Zero} /\ cpc[c] \in 3 .. 8
    BY ClientFacts
  <2> QED
    BY <2>1 DEF OwnOK
<1>3. PICK w \in Word : w = Command(c, cmd[c])
  <2>1. c \in Nat /\ cmd[c] \in Nat
    BY ClientFacts
  <2> QED
    BY <2>1, WordsTyped
<1>4. /\ cpc[c] \in {3, 4, 5} /\ Sends(c, w) /\ w # END
  BY <1>3, WordsAre
<1>5. /\ s \in Servers
      /\ q'[s] = Append(q[s], w) /\ holder'[s] = e
      /\ q'[e] = q[e] /\ holder'[e] = holder[e] /\ dest' = dest
      /\ cpc'[c] = 5 /\ cmd' = cmd /\ sc' = sc /\ got' = got /\ pool' = pool
      /\ ClientActs(c) /\ TypeOK'
  BY <1>1, <1>2, <1>4, SendFacts
<1>6. /\ AskKept(s) /\ SameServer(s) /\ AddressOK(s)' /\ ServingOK(s)'
      /\ StreamOK(1 - s)' /\ RouteOK(1 - s)' /\ OnceOK(1 - s)' /\ AddressOK(1 - s)'
      /\ ServingOK(1 - s)'
  BY <1>1, <1>4, SendKeeps
<1>7. /\ OwnOK(c) /\ ReplyOK(c) /\ GotOK(c) /\ Tile(c) \in Servers
  BY ClientFacts
<1>8. PICK l : l = LastSent(Prior(s), q[s])
  OBVIOUS
<1>9. l = Address(e) /\ spc[1 - s] \in 3 .. Down
  <2>1. holder[s] = sc[c]
    BY <1>1, <1>7 DEF OwnOK
  <2> QED
    BY <1>2, <1>5, <1>8, <2>1, RouteOf
<1>10. q[e] = << >> /\ holder[e] = Zero
  <2>1. cpc[c] \in 0 .. 5 \cup {8}
    OBVIOUS
  <2> QED
    BY <1>2, <1>7, <2>1 DEF ReplyOK
<1>11. Asks(c, s)'
  BY <1>1, <1>2, <1>5, <1>10 DEF Asks
<1>12. Follows(s, l, w)'
  BY <1>2, <1>3, <1>5, <1>9, <1>11 DEF Follows
<1>13. StreamOK(s) /\ OnceOK(s) /\ q[s] \in Seq(Word) /\ Prior(s)' = Prior(s)
  BY <1>5, <1>6, ServerFacts, ChanendFacts, PriorSame
<1>14. StreamOK(s)' /\ LastSent(Prior(s), q[s])' = w
  BY <1>5, <1>6, <1>8, <1>12, <1>13, StreamPush
<1>15. RouteOK(s)'
  <2>1. spc'[1 - s] \in 3 .. Down
    BY <1>9, StillIs
  <2> QED
    BY <1>1, <1>2, <1>3, <1>5, <1>14, <2>1 DEF RouteOK
<1>16. OnceOK(s)'
  <2>1. \A f \in Spare : w # Address(f)
    BY <1>3, WordsAre
  <2> QED
    BY <1>5, <1>6, <1>13, <2>1, OncePush DEF SameServer
<1>17. OwnOK(c)' /\ ReplyOK(c)' /\ GotOK(c)'
  <2>1. spc'[Tile(c)] \in 5 .. Down
    BY <1>7, StillIs DEF OwnOK
  <2>2. sc'[c] # Zero /\ dest'[sc'[c]] = s /\ holder'[s] = sc'[c]
    BY <1>1, <1>2, <1>5
  <2>3. sc'[c] \notin pool' /\ \A d \in Clients : sc'[d] = sc'[c] => d = c \/ sc'[c] = Zero
    BY <1>5, <1>7 DEF OwnOK
  <2>4. OwnOK(c)'
    BY <1>5, <2>1, <2>2, <2>3 DEF OwnOK
  <2>5. ReplyOK(c)'
    BY <1>2, <1>5, <1>10 DEF ReplyOK
  <2>6. GotOK(c)'
    BY <1>5, <1>7 DEF GotOK
  <2> QED
    BY <2>4, <2>5, <2>6
<1>18. \A r \in Servers :
          StreamOK(r)' /\ RouteOK(r)' /\ OnceOK(r)' /\ AddressOK(r)' /\ ServingOK(r)'
  <2>1. \A r \in Servers : r = s \/ r = 1 - s
    BY <1>5, ChanendsAre
  <2> QED
    BY <1>6, <1>14, <1>15, <1>16, <2>1
<1> QED
  BY <1>5, <1>17, <1>18, ClientDone

\* The request ends.
LEMMA OutEndInv ==
   ASSUME IInv, NEW c \in Clients, cpc[c] = 5, Sends(c, END), Still
   PROVE  IInv'
<1>1. PICK s : s = dest[sc[c]]
  OBVIOUS
<1>2. PICK e \in Spare : e = sc[c] /\ e # Zero
  <2>1. OwnOK(c) /\ sc[c] \in Spare \cup {Zero} /\ cpc[c] \in 3 .. 8
    BY ClientFacts
  <2> QED
    BY <2>1 DEF OwnOK
<1>3. END \in Word
  BY WordsTyped
<1>4. /\ cpc[c] \in {3, 4, 5} /\ Sends(c, END)
  OBVIOUS
<1>5. /\ s \in Servers
      /\ q'[s] = Append(q[s], END) /\ holder'[s] = Zero
      /\ q'[e] = q[e] /\ holder'[e] = holder[e] /\ dest' = dest
      /\ cpc'[c] = 6 /\ cmd' = cmd /\ sc' = sc /\ got' = got /\ pool' = pool
      /\ ClientActs(c) /\ TypeOK'
  BY <1>1, <1>2, <1>3, <1>4, SendFacts
<1>6. /\ AskKept(s) /\ SameServer(s) /\ AddressOK(s)' /\ ServingOK(s)'
      /\ StreamOK(1 - s)' /\ RouteOK(1 - s)' /\ OnceOK(1 - s)' /\ AddressOK(1 - s)'
      /\ ServingOK(1 - s)'
  BY <1>1, <1>3, <1>4, SendKeeps
<1>7. /\ OwnOK(c) /\ ReplyOK(c) /\ GotOK(c) /\ Tile(c) \in Servers
  BY ClientFacts
<1>8. PICK l : l = LastSent(Prior(s), q[s])
  OBVIOUS
<1>9. l = Command(c, cmd[c]) /\ spc[1 - s] \in 3 .. Down
  <2>1. holder[s] = sc[c]
    BY <1>1, <1>7 DEF OwnOK
  <2> QED
    BY <1>2, <1>5, <1>8, <2>1, RouteOf
<1>10. q[e] = << >> /\ holder[e] = Zero
  <2>1. cpc[c] \in 0 .. 5 \cup {8}
    OBVIOUS
  <2> QED
    BY <1>2, <1>7, <2>1 DEF ReplyOK
<1>11. Asks(c, s)'
  BY <1>1, <1>2, <1>5, <1>10 DEF Asks
<1>12. Follows(s, l, END)'
  BY <1>5, <1>9, <1>11 DEF Follows
<1>13. StreamOK(s) /\ OnceOK(s) /\ q[s] \in Seq(Word) /\ Prior(s)' = Prior(s)
  BY <1>5, <1>6, ServerFacts, ChanendFacts, PriorSame
<1>14. StreamOK(s)' /\ LastSent(Prior(s), q[s])' = END
  BY <1>3, <1>5, <1>6, <1>8, <1>12, <1>13, StreamPush
<1>15. RouteOK(s)'
  <2>1. spc'[1 - s] \in 3 .. Down
    BY <1>9, StillIs
  <2> QED
    BY <1>5, <1>14, <2>1 DEF RouteOK
<1>16. OnceOK(s)'
  <2>1. \A f \in Spare : END # Address(f)
    BY WordsAre
  <2> QED
    BY <1>3, <1>5, <1>6, <1>13, <2>1, OncePush DEF SameServer
<1>17. OwnOK(c)' /\ ReplyOK(c)' /\ GotOK(c)'
  <2>1. spc'[Tile(c)] \in 5 .. Down
    BY <1>7, StillIs DEF OwnOK
  <2>2. sc'[c] # Zero /\ dest'[sc'[c]] = s
    BY <1>1, <1>2, <1>5
  <2>3. sc'[c] \notin pool' /\ \A d \in Clients : sc'[d] = sc'[c] => d = c \/ sc'[c] = Zero
    BY <1>5, <1>7 DEF OwnOK
  <2>4. OwnOK(c)'
    BY <1>5, <2>1, <2>2, <2>3 DEF OwnOK
  <2>5. ReplyOK(c)'
    BY <1>2, <1>5, <1>10 DEF ReplyOK
  <2>6. GotOK(c)'
    BY <1>5, <1>7 DEF GotOK
  <2> QED
    BY <2>4, <2>5, <2>6
<1>18. \A r \in Servers :
          StreamOK(r)' /\ RouteOK(r)' /\ OnceOK(r)' /\ AddressOK(r)' /\ ServingOK(r)'
  <2>1. \A r \in Servers : r = s \/ r = 1 - s
    BY <1>5, ChanendsAre
  <2> QED
    BY <1>6, <1>14, <1>15, <1>16, <2>1
<1> QED
  BY <1>5, <1>17, <1>18, ClientDone

\* Every instruction of a client keeps the invariant.
LEMMA ClientInv ==
   ASSUME IInv, NEW c \in Clients, ClientStep(c)
   PROVE  IInv'
<1>1. Still
  BY DEF ClientStep, Still
<1>2. cpc[c] \in 0 .. 8
  BY ClientFacts
<1>3. CASE ClientStart(c)
  BY <1>1, <1>3, StartInv
<1>4. CASE Alloc(c)
  BY <1>1, <1>4, AllocInv
<1>5. CASE Call(c, "setd") /\ SetDest(sc[c], Server(c))
  BY <1>1, <1>5, SetDestInv
<1>6. CASE Call(c, "out_address") /\ Out(sc[c], Address(sc[c]))
  <2>1. cpc[c] = 3 /\ Sends(c, Address(sc[c]))
    BY <1>2, <1>6, ClientAt DEF Call, Sends, At
  <2> QED
    BY <1>1, <2>1, OutAddressInv
<1>7. CASE Call(c, "out_command") /\ Out(sc[c], Command(c, cmd[c]))
  <2>1. cpc[c] = 4 /\ Sends(c, Command(c, cmd[c]))
    BY <1>2, <1>7, ClientAt DEF Call, Sends, At
  <2> QED
    BY <1>1, <2>1, OutCommandInv
<1>8. CASE Call(c, "out_END") /\ Out(sc[c], END)
  <2>1. cpc[c] = 5 /\ Sends(c, END)
    BY <1>2, <1>8, ClientAt DEF Call, Sends, At
  <2> QED
    BY <1>1, <2>1, OutEndInv
<1>9. CASE Receive(c)
  BY <1>1, <1>9, ReceiveInv
<1>10. CASE Call(c, "check_END") /\ CheckEnd(sc[c])
  BY <1>1, <1>10, CheckEndInv
<1>11. CASE Free(c)
  BY <1>1, <1>11, FreeInv
<1> QED
  BY <1>3, <1>4, <1>5, <1>6, <1>7, <1>8, <1>9, <1>10, <1>11 DEF ClientStep, send_command

(***************************************************************************)
(* The servers' instructions                                               *)
(***************************************************************************)
\* Server s goes on to its next instruction.
Goes(s) == spc' = [spc EXCEPT ![s] = IF @ + 1 < Down THEN @ + 1
                                     ELSE IF Stops(command[s]) THEN Down ELSE Loop]

\* No instruction of a server changes what is the clients'.
ClientsRest == /\ prog' = prog /\ trapped' = trapped /\ pool' = pool
               /\ cpc' = cpc /\ cmd' = cmd /\ sc' = sc /\ got' = got

\* What every instruction of server s leaves alone.
ServerActs(s) == /\ ClientsRest /\ Goes(s)
                 /\ remote'[1 - s] = remote[1 - s] /\ sender'[1 - s] = sender[1 - s]
                 /\ command'[1 - s] = command[1 - s]
                 /\ \A e \in Chanends : e # s => dest'[e] = dest[e]

\* Where a server goes.
LEMMA GoesTo ==
   ASSUME NEW s \in Servers, spc \in [Servers -> 1 .. 11], Goes(s)
   PROVE  /\ spc' \in [Servers -> 1 .. 11] /\ spc'[1 - s] = spc[1 - s]
          /\ spc[s] \in 1 .. 9 => spc'[s] = spc[s] + 1
          /\ spc[s] = 10 => spc'[s] = 11 \/ spc'[s] = 5
<1>1. PICK n \in 1 .. 11 : n = spc[s]
  OBVIOUS
<1>2. PICK m : m = IF n + 1 < 11 THEN n + 1 ELSE IF Stops(command[s]) THEN 11 ELSE 5
  OBVIOUS
<1>3. spc' = [spc EXCEPT ![s] = m]
  BY <1>1, <1>2, ServerCodeIs DEF Goes, Loop
<1>4. /\ n \in 1 .. 9 => m = n + 1
      /\ n = 10 => m = 11 \/ m = 5
      /\ m \in 1 .. 11
  BY <1>2
<1>5. 1 - s \in Servers /\ 1 - s # s
  BY ChanendsAre
<1> QED
  BY <1>1, <1>3, <1>4, <1>5

\* The types after a step of a server.
LEMMA ServerTyped ==
   ASSUME TypeOK, ClientsRest, spc' \in [Servers -> 1 .. 11], remote' \in [Servers -> Word],
          sender' \in [Servers -> Word], command' \in [Servers -> Word],
          dest' \in [Chanends -> Chanends \cup {Zero}], QueueTypes'
   PROVE  TypeOK'
<1>1. ServerTypes'
  BY DEF ServerTypes
<1>2. ClientTypes' /\ RestTypes'
  BY Types DEF ClientTypes, RestTypes, ClientsRest
<1> QED
  BY <1>1, <1>2, ClientCodeIs, ServerCodeIs
     DEF TypeOK, ClientTypes, ServerTypes, QueueTypes, RestTypes

\* The other server, and the parts of the invariant after a step of server s.
LEMMA ServerDone ==
   ASSUME IInv, NEW s \in Servers, ServerActs(s), TypeOK', UnusedOK',
          StreamOK(s)', RouteOK(s)', OnceOK(s)', AddressOK(s)', ServingOK(s)',
          NEW t, t = 1 - s,
          StreamOK(t)', RouteOK(t)', OnceOK(t)', AddressOK(t)', ServingOK(t)',
          \A d \in Clients : OwnOK(d)' /\ ReplyOK(d)' /\ GotOK(d)'
   PROVE  IInv'
<1>1. ClientsRest
  BY DEF ServerActs
<1>2. ProgOK'
  BY <1>1 DEF IInv, ProgOK, ClientsRest
<1>3. TrappedOK'
  BY <1>1 DEF IInv, TrappedOK, ClientsRest
<1>4. \A r \in Servers : r = s \/ r = t
  BY ChanendsAre
<1>5. \A r \in Servers :
         StreamOK(r)' /\ RouteOK(r)' /\ OnceOK(r)' /\ AddressOK(r)' /\ ServingOK(r)'
  BY <1>4
<1> QED
  BY <1>2, <1>3, <1>5 DEF IInv

\* What the other server has is its own.
LEMMA OtherServer ==
   ASSUME IInv, NEW s \in Servers, ServerActs(s)
   PROVE  SameServer(1 - s) /\ spc'[1 - s] = spc[1 - s]
<1>1. TypeOK
  BY DEF IInv
<1>2. spc \in [Servers -> 1 .. 11]
  BY <1>1, Types DEF ServerTypes
<1>3. spc'[1 - s] = spc[1 - s]
  BY <1>2, GoesTo DEF ServerActs
<1>4. 1 - s \in Chanends /\ 1 - s # s
  BY ChanendsAre
<1> QED
  BY <1>3, <1>4 DEF ServerActs, SameServer

\* A step of server s that sends nothing to a client.
LEMMA ClientsQuiet ==
   ASSUME IInv, NEW s \in Servers, ServerActs(s), spc[s] \in 1 .. 9,
          \A e \in Spare : q'[e] = q[e] /\ holder'[e] = holder[e],
          \A r \in Servers : holder'[r] = holder[r] \/ holder[r] \in Servers \cup {Zero}
   PROVE  /\ UnusedOK'
          /\ \A d \in Clients : /\ SameClient(d) /\ OwnOK(d)' /\ ReplyOK(d)' /\ GotOK(d)'
          /\ \A t \in Servers : AskKept(t) /\ SendKept(t)
          /\ AnswerKept(1 - s)
<1>1. ClientsRest
  BY DEF ServerActs
<1>2. \A e \in Spare : dest'[e] = dest[e]
  BY ChanendsAre DEF ServerActs
<1>3. UnusedOK'
  BY <1>1 DEF IInv, UnusedOK, ClientsRest
<1>4. ASSUME NEW d \in Clients PROVE SameClient(d)
  <2>1. sc[d] # Zero => sc[d] \in Spare
    BY ClientFacts
  <2> QED
    BY <1>1, <1>2, <2>1 DEF SameClient, ClientsRest
<1>5. ASSUME NEW d \in Clients PROVE OwnOK(d)' /\ ReplyOK(d)' /\ GotOK(d)'
  <2>1. /\ OwnOK(d) /\ ReplyOK(d) /\ GotOK(d) /\ cpc[d] \in 0 .. 8 /\ sc[d] \in Spare \cup {Zero}
    BY ClientFacts
  <2>2. ASSUME NEW r \in Servers
        PROVE  /\ spc[r] \in 5 .. Down => spc'[r] \in 5 .. Down
               /\ Answers(r, d) => spc'[r] = 10 /\ sender'[r] = sender[r]
    <3>1. CASE r = s
      <4>1. spc \in [Servers -> 1 .. 11]
        BY Types DEF IInv, ServerTypes
      <4>2. spc'[s] = spc[s] + 1
        BY <4>1, GoesTo DEF ServerActs
      <4>3. spc[s] \in 5 .. 11 => spc'[s] \in 5 .. 11
        BY <4>2
      <4>4. ~Answers(s, d)
        BY DEF Answers
      <4> QED
        BY <3>1, <4>3, <4>4, ServerCodeIs
    <3>2. CASE r = 1 - s
      BY <3>2, OtherServer DEF SameServer, Answers
    <3> QED
      BY <3>1, <3>2, ChanendsAre
  <2>3. cpc[d] \in {4, 5} => holder'[dest[sc[d]]] = holder[dest[sc[d]]]
    <3>1. SUFFICES ASSUME cpc[d] \in {4, 5}
                   PROVE  holder'[dest[sc[d]]] = holder[dest[sc[d]]]
      OBVIOUS
    <3>2. cpc[d] \in 3 .. 8
      BY <3>1
    <3>3. sc[d] # Zero /\ dest[sc[d]] \in Servers /\ holder[dest[sc[d]]] = sc[d]
      BY <2>1, <3>1, <3>2 DEF OwnOK
    <3>4. sc[d] \notin Servers \cup {Zero}
      BY <2>1, <3>3, ChanendsAre
    <3> QED
      BY <3>3, <3>4
  <2>4. sc[d] \notin pool' /\ \A x \in Clients : sc'[x] = sc[x]
    BY <1>1, <2>1 DEF OwnOK, ClientsRest
  <2> QED
    BY <1>4, <2>1, <2>2, <2>3, <2>4, ClientRest
<1>6. \A t \in Servers : AskKept(t)
  BY <1>4, AskSame
<1>7. \A t \in Servers : SendKept(t)
  BY <1>4 DEF SendKept, SameClient
<1>8. AnswerKept(1 - s)
  BY <1>4 DEF AnswerKept, SameClient
<1> QED
  BY <1>3, <1>4, <1>5, <1>6, <1>7, <1>8

\* A step of server s that sends nothing.
LEMMA SilentServer ==
   ASSUME IInv, NEW s \in Servers, ServerActs(s), spc[s] \in 3 .. 9,
          \A e \in Chanends : e # s => q'[e] = q[e],
          holder' = holder, TypeOK',
          StreamOK(s)', RouteOK(s)', OnceOK(s)', AddressOK(s)', ServingOK(s)'
   PROVE  IInv'
<1>1. PICK t \in Servers : t = 1 - s /\ 1 - t = s /\ t # s
  BY ChanendsAre
<1>2. \A e \in Spare : q'[e] = q[e] /\ holder'[e] = holder[e]
  BY ChanendsAre
<1>3. /\ UnusedOK' /\ AskKept(t) /\ SendKept(t) /\ AnswerKept(t)
      /\ \A d \in Clients : OwnOK(d)' /\ ReplyOK(d)' /\ GotOK(d)'
  <2>1. spc[s] \in 1 .. 9
    OBVIOUS
  <2> QED
    BY <1>1, <1>2, <2>1, ClientsQuiet
<1>4. SameServer(t) /\ q'[t] = q[t] /\ holder'[t] = holder[t]
  BY <1>1, OtherServer, ChanendsAre
<1>5. spc[1 - t] \in 3 .. Down /\ spc'[1 - t] \in 3 .. Down
  <2>1. spc \in [Servers -> 1 .. 11]
    BY Types DEF IInv, ServerTypes
  <2>2. spc'[s] = spc[s] + 1
    <3>1. spc[s] \in 1 .. 9
      OBVIOUS
    <3> QED
      BY <2>1, <3>1, GoesTo DEF ServerActs
  <2>3. spc[s] \in 3 .. 11 /\ spc'[s] \in 3 .. 11
    BY <2>2
  <2> QED
    BY <1>1, <2>3, ServerCodeIs
<1>6. StreamOK(t) /\ RouteOK(t) /\ OnceOK(t) /\ AddressOK(t) /\ ServingOK(t)
  BY <1>1, ServerFacts
<1>7. StreamOK(t)' /\ RouteOK(t)' /\ OnceOK(t)' /\ AddressOK(t)' /\ ServingOK(t)'
  BY <1>3, <1>4, <1>5, <1>6, ServerRest
<1> QED
  BY <1>1, <1>3, <1>7, ServerDone

\* A packet that is being sent to server s is not disturbed by what it does.
LEMMA RouteKept ==
   ASSUME NEW s \in Servers, RouteOK(s), ClientsRest,
          q[s] # << >> \/ (spc'[s] \in 1 .. 3 /\ q'[s] = q[s]) \/ spc[s] \notin 1 .. 3,
          holder'[s] = holder[s], spc'[1 - s] = spc[1 - s],
          \A e \in Spare : dest'[e] = dest[e],
          \A d \in Clients : sc[d] # Zero => sc[d] \in Spare,
          NEW l, l = LastSent(Prior(s), q[s]), LastSent(Prior(s), q[s])' = l
   PROVE  RouteOK(s)'
<1>1. CASE /\ holder[s] = Zero /\ q[s] = << >>
           /\ spc[s] \in 1 .. 3 /\ spc[1 - s] = 1
  BY <1>1 DEF RouteOK
<1>2. CASE holder[s] = Zero /\ l = END /\ spc[1 - s] \in 3 .. Down
  BY <1>2 DEF RouteOK
<1>3. CASE holder[s] = 1 - s /\ l = Address(1 - s) /\ spc[1 - s] = 2
  BY <1>3 DEF RouteOK
<1>4. ASSUME NEW c \in Clients,
             sc[c] # Zero, dest[sc[c]] = s, holder[s] = sc[c], spc[1 - s] \in 3 .. Down,
             \/ cpc[c] = 4 /\ l = Address(sc[c])
             \/ cpc[c] = 5 /\ l = Command(c, cmd[c])
      PROVE  RouteOK(s)'
  BY <1>4 DEF RouteOK, ClientsRest
<1> QED
  BY <1>1, <1>2, <1>3, <1>4 DEF RouteOK

\* A word is taken off the queue of a server: what is left is there once.
LEMMA OncePop ==
   ASSUME NEW s \in Servers, OnceOK(s), q[s] \in Seq(Word), q[s] # << >>, q'[s] = Tail(q[s]),
          spc'[s] \in 6 .. 10 => \/ spc[s] \in 6 .. 10 /\ sender'[s] = sender[s]
                                 \/ sender'[s] = Head(q[s])
   PROVE  OnceOK(s)'
<1>1. PICK Q \in Seq(Word) : Q = q[s] /\ Q # << >>
  OBVIOUS
<1>2. PICK R : R = Tail(Q)
  OBVIOUS
<1>3. q'[s] = R
  BY <1>1, <1>2
<1>4. /\ Head(Q) = Q[1] /\ 1 \in 1 .. Len(Q)
      /\ \A k \in 1 .. Len(R) : k + 1 \in 1 .. Len(Q) /\ R[k] = Q[k + 1]
  BY <1>1, <1>2, Popped
<1>5. SUFFICES ASSUME NEW e \in Spare, NEW k \in 1 .. Len(R), R[k] = Address(e)
               PROVE  /\ spc'[s] \in 6 .. 10 => sender'[s] # Address(e)
                      /\ \A l \in 1 .. Len(R) : R[l] = Address(e) => l = k
  BY <1>3 DEF OnceOK
<1>6. \A j \in 1 .. Len(Q) : Q[j] = Address(e) =>
         /\ spc[s] \in 6 .. 10 => sender[s] # Address(e)
         /\ \A l \in 1 .. Len(Q) : Q[l] = Address(e) => l = j
  BY <1>1 DEF OnceOK
<1>7. k + 1 \in 1 .. Len(Q) /\ Q[k + 1] = Address(e)
  BY <1>4, <1>5
<1>8. ASSUME NEW l \in 1 .. Len(R), R[l] = Address(e) PROVE l = k
  <2>1. l + 1 \in 1 .. Len(Q) /\ Q[l + 1] = Address(e)
    BY <1>4, <1>8
  <2>2. l + 1 = k + 1
    BY <1>6, <1>7, <2>1
  <2>3. l \in Nat /\ k \in Nat
    OBVIOUS
  <2> QED
    BY <2>2, <2>3
<1>9. ASSUME spc'[s] \in 6 .. 10 PROVE sender'[s] # Address(e)
  <2>1. CASE spc[s] \in 6 .. 10 /\ sender'[s] = sender[s]
    BY <1>6, <1>7, <2>1
  <2>2. CASE sender'[s] = Head(q[s])
    <3>1. SUFFICES ASSUME sender'[s] = Address(e) PROVE FALSE
      OBVIOUS
    <3>2. Q[1] = Address(e)
      BY <1>1, <1>4, <2>2, <3>1
    <3>3. k + 1 = 1
      BY <1>4, <1>6, <1>7, <3>2
    <3>4. k \in Nat /\ k >= 1
      OBVIOUS
    <3> QED
      BY <3>3, <3>4
  <2> QED
    BY <1>9, <2>1, <2>2
<1> QED
  BY <1>8, <1>9

\* Server s takes a word from its queue.
Inputs(s) == /\ Goes(s) /\ Take(s) /\ q[s] # << >>
             /\ UNCHANGED <<prog, client, trapped>>
             /\ remote' \in [Servers -> Word] /\ sender' \in [Servers -> Word]
             /\ command' \in [Servers -> Word]
             /\ remote'[1 - s] = remote[1 - s] /\ sender'[1 - s] = sender[1 - s]
             /\ command'[1 - s] = command[1 - s]

\* What follows of it alone.
LEMMA InputFacts ==
   ASSUME IInv, NEW s \in Servers, Inputs(s)
   PROVE  /\ ServerActs(s) /\ q[s] # << >> /\ q'[s] = Tail(q[s]) /\ holder' = holder
          /\ dest' = dest /\ \A e \in Chanends : e # s => q'[e] = q[e]
          /\ TypeOK'
          /\ Follows(s, Prior(s), Head(q[s])) /\ Head(q[s]) \in Word /\ q[s] \in Seq(Word)
          /\ \A c \in Clients : Asks(c, s) => Asks(c, s)'
<1>1. /\ Goes(s) /\ Take(s) /\ q[s] # << >>
      /\ remote' \in [Servers -> Word] /\ sender' \in [Servers -> Word]
      /\ command' \in [Servers -> Word]
      /\ remote'[1 - s] = remote[1 - s] /\ sender'[1 - s] = sender[1 - s]
      /\ command'[1 - s] = command[1 - s]
  BY DEF Inputs
<1>2. /\ prog' = prog /\ trapped' = trapped
      /\ cpc' = cpc /\ cmd' = cmd /\ sc' = sc /\ got' = got
  BY DEF Inputs, client
<1>3. TypeOK /\ s \in Chanends
  BY ServerFacts DEF IInv
<1>4. /\ q'[s] = Tail(q[s]) /\ holder' = holder
      /\ \A f \in Chanends : f # s => q'[f] = q[f]
      /\ pool' = pool /\ dest' = dest /\ QueueTypes'
  BY <1>1, <1>3, TakeIs
<1>5. ClientsRest
  BY <1>2, <1>4 DEF ClientsRest
<1>6. ServerActs(s)
  BY <1>1, <1>4, <1>5 DEF ServerActs
<1>7. TypeOK'
  <2>1. spc' \in [Servers -> 1 .. 11]
    BY <1>1, <1>3, Types, GoesTo DEF ServerTypes
  <2>2. dest' \in [Chanends -> Chanends \cup {Zero}]
    BY <1>3, <1>4 DEF TypeOK
  <2> QED
    BY <1>1, <1>3, <1>4, <1>5, <2>1, <2>2, ServerTyped
<1>8. Follows(s, Prior(s), Head(q[s])) /\ Head(q[s]) \in Word /\ q[s] \in Seq(Word)
  <2>1. PICK Q \in Seq(Word) : Q = q[s] /\ Q # << >>
    BY <1>1, <1>3, ChanendFacts
  <2>2. PICK p : p = Prior(s)
    OBVIOUS
  <2>3. \A k \in 1 .. Len(Q) : Follows(s, Preceding(p, Q, k), Q[k])
    BY <2>1, <2>2, ServerFacts DEF StreamOK
  <2>4. Head(Q) = Q[1] /\ 1 \in 1 .. Len(Q) /\ Preceding(p, Q, 1) = p
    BY <2>1, Popped
  <2>5. Follows(s, p, Head(Q))
    BY <2>3, <2>4
  <2>6. Head(Q) \in Word
    BY <2>1
  <2> QED
    BY <2>1, <2>2, <2>5, <2>6
<1>9. ASSUME NEW c \in Clients, Asks(c, s) PROVE Asks(c, s)'
  <2>1. sc[c] \in Chanends /\ sc[c] # s
    BY <1>9, ClientFacts, ChanendsAre DEF Asks
  <2> QED
    BY <1>2, <1>4, <1>9, <2>1 DEF Asks
<1> QED
  BY <1>1, <1>4, <1>6, <1>7, <1>8, <1>9

\* The invariant after server s has taken a word.
LEMMA InputInv ==
   ASSUME IInv, NEW s \in Servers, Inputs(s), spc[s] \in 3 .. 9,
          Prior(s)' = Head(q[s]), AddressOK(s)', ServingOK(s)',
          spc'[s] \in 6 .. 10 => \/ spc[s] \in 6 .. 10 /\ sender'[s] = sender[s]
                                 \/ sender'[s] = Head(q[s])
   PROVE  IInv'
<1>1. /\ ServerActs(s) /\ q[s] # << >> /\ q'[s] = Tail(q[s]) /\ holder' = holder
      /\ dest' = dest /\ \A e \in Chanends : e # s => q'[e] = q[e]
      /\ TypeOK' /\ q[s] \in Seq(Word)
  BY InputFacts
<1>2. StreamOK(s) /\ RouteOK(s) /\ OnceOK(s) /\ s \in Chanends
  BY ServerFacts
<1>3. AskKept(s)
  <2>1. \A e \in Spare : q'[e] = q[e] /\ holder'[e] = holder[e]
    BY <1>1, ChanendsAre
  <2>2. spc[s] \in 1 .. 9
    OBVIOUS
  <2> QED
    BY <1>1, <2>1, <2>2, ClientsQuiet
<1>4. StreamOK(s)' /\ LastSent(Prior(s), q[s])' = LastSent(Prior(s), q[s])
  BY <1>1, <1>2, <1>3, StreamPop
<1>5. RouteOK(s)'
  <2>1. PICK l : l = LastSent(Prior(s), q[s])
    OBVIOUS
  <2>2. LastSent(Prior(s), q[s])' = l
    BY <1>4, <2>1
  <2>3. ClientsRest /\ spc'[1 - s] = spc[1 - s]
    BY <1>1, OtherServer DEF ServerActs
  <2>4. \A d \in Clients : sc[d] # Zero => sc[d] \in Spare
    BY ClientFacts
  <2> QED
    BY <1>1, <1>2, <2>1, <2>2, <2>3, <2>4, RouteKept
<1>6. OnceOK(s)'
  BY <1>1, <1>2, OncePop
<1> QED
  BY <1>1, <1>4, <1>5, <1>6, SilentServer

\* get_addresses: the address of the other server is input.
LEMMA InRemoteInv ==
   ASSUME IInv, NEW s \in Servers, spc[s] = 3, Inputs(s), remote'[s] = Head(q[s])
   PROVE  IInv'
<1>1. spc'[s] = 4
  BY GoesTo, Types DEF IInv, ServerTypes, Inputs
<1>2. Prior(s) = First /\ Prior(s)' = remote'[s]
  BY <1>1 DEF Prior
<1>3. Head(q[s]) = Address(1 - s)
  BY <1>2, InputFacts, WordsAre DEF Follows
<1>4. AddressOK(s)'
  BY <1>1, <1>3 DEF AddressOK
<1>5. ServingOK(s)'
  BY <1>1 DEF ServingOK
<1> QED
  BY <1>1, <1>2, <1>4, <1>5, InputInv

\* get_addresses: its END is checked.
LEMMA CheckRemoteInv ==
   ASSUME IInv, NEW s \in Servers, spc[s] = 4, Inputs(s), Head(q[s]) = END,
          UNCHANGED <<remote, sender, command>>
   PROVE  IInv'
<1>1. spc'[s] = 5
  BY GoesTo, Types DEF IInv, ServerTypes, Inputs
<1>2. Prior(s)' = END
  BY <1>1 DEF Prior
<1>3. AddressOK(s)'
  BY <1>1, ServerFacts, ServerCodeIs DEF AddressOK
<1>4. ServingOK(s)'
  BY <1>1 DEF ServingOK
<1> QED
  BY <1>1, <1>2, <1>3, <1>4, InputInv

\* chanend_server: a return address is input.
LEMMA InSenderInv ==
   ASSUME IInv, NEW s \in Servers, spc[s] = 5, Inputs(s), Head(q[s]) # END,
          sender'[s] = Head(q[s]), remote' = remote
   PROVE  IInv'
<1>1. spc'[s] = 6
  BY GoesTo, Types DEF IInv, ServerTypes, Inputs
<1>2. Prior(s) = END /\ Prior(s)' = sender'[s]
  BY <1>1 DEF Prior
<1>3. PICK c \in Clients : Asks(c, s) /\ Head(q[s]) = Address(sc[c])
  BY <1>2, InputFacts, WordsAre DEF Follows
<1>4. AddressOK(s)'
  BY <1>1, ServerFacts, ServerCodeIs DEF AddressOK
<1>5. ServingOK(s)'
  <2>1. Asks(c, s)' /\ sc'[c] = sc[c]
    BY <1>3, InputFacts DEF Inputs, client
  <2> QED
    BY <1>1, <1>3, <2>1 DEF ServingOK, Asks
<1> QED
  BY <1>1, <1>2, <1>4, <1>5, InputInv

\* chanend_server: the command is input.
LEMMA InCommandInv ==
   ASSUME IInv, NEW s \in Servers, spc[s] = 6, Inputs(s), Head(q[s]) # END,
          command'[s] = Head(q[s]), remote' = remote, sender' = sender
   PROVE  IInv'
<1>1. spc'[s] = 7
  BY GoesTo, Types DEF IInv, ServerTypes, Inputs
<1>2. Prior(s) = sender[s] /\ Prior(s)' = command'[s]
  BY <1>1 DEF Prior
<1>3. PICK c \in Clients : sc[c] # Zero /\ sender[s] = Address(sc[c]) /\ Asks(c, s)
  <2>1. spc[s] \in 6 .. 10 /\ ServingOK(s)
    BY ServerFacts
  <2> QED
    BY <2>1 DEF ServingOK
<1>4. Head(q[s]) = Command(c, cmd[c]) /\ cpc[c] \in {5, 6}
  <2>1. PICK x, y : /\ x = Prior(s) /\ y = Head(q[s]) /\ Follows(s, x, y)
    BY InputFacts
  <2>2. x = Address(sc[c])
    BY <1>2, <1>3, <2>1
  <2>3. PICK d \in Clients : x = Address(sc[d]) /\ y = Command(d, cmd[d]) /\ cpc[d] \in {5, 6}
    BY <2>1, <2>2, WordsAre DEF Follows
  <2>4. sc[d] = sc[c]
    BY <2>2, <2>3, WordsAre
  <2>5. d = c
    BY <1>3, <2>4, Unique
  <2> QED
    BY <2>1, <2>3, <2>5
<1>5. AddressOK(s)'
  BY <1>1, ServerFacts, ServerCodeIs DEF AddressOK
<1>6. ServingOK(s)'
  <2>1. Asks(c, s)' /\ sc'[c] = sc[c] /\ cpc'[c] = cpc[c] /\ cmd'[c] = cmd[c]
    BY <1>3, InputFacts DEF Inputs, client
  <2> QED
    BY <1>1, <1>3, <1>4, <2>1 DEF ServingOK, Asks
<1> QED
  BY <1>1, <1>2, <1>5, <1>6, InputInv

\* chanend_server: the END of the request is checked.
LEMMA CheckRequestInv ==
   ASSUME IInv, NEW s \in Servers, spc[s] = 7, Inputs(s), Head(q[s]) = END,
          UNCHANGED <<remote, sender, command>>
   PROVE  IInv'
<1>1. spc'[s] = 8
  BY GoesTo, Types DEF IInv, ServerTypes, Inputs
<1>2. Prior(s) = command[s] /\ Prior(s)' = END
  BY <1>1 DEF Prior
<1>3. PICK c \in Clients : /\ sc[c] # Zero /\ sender[s] = Address(sc[c]) /\ Asks(c, s)
                           /\ command[s] = Command(c, cmd[c])
  <2>1. spc[s] \in 6 .. 10 /\ spc[s] \in 7 .. 10 /\ ServingOK(s)
    BY ServerFacts
  <2> QED
    BY <2>1 DEF ServingOK
<1>4. cpc[c] = 6
  <2>1. PICK x, y : /\ x = Prior(s) /\ y = Head(q[s]) /\ Follows(s, x, y)
    BY InputFacts
  <2>2. x = Command(c, cmd[c]) /\ y = END
    BY <1>2, <1>3, <2>1
  <2>3. PICK d \in Clients : x = Command(d, cmd[d]) /\ cpc[d] = 6
    BY <2>1, <2>2, WordsAre DEF Follows
  <2>4. \A i, j : Command(d, i) = Command(c, j) => d = c
    BY WordsAre
  <2>5. d = c
    BY <2>2, <2>3, <2>4
  <2> QED
    BY <2>3, <2>5
<1>5. AddressOK(s)'
  BY <1>1, ServerFacts, ServerCodeIs DEF AddressOK
<1>6. ServingOK(s)'
  <2>1. Asks(c, s)' /\ sc'[c] = sc[c] /\ cpc'[c] = cpc[c] /\ cmd'[c] = cmd[c]
    BY <1>3, InputFacts DEF Inputs, client
  <2> QED
    BY <1>1, <1>3, <1>4, <2>1 DEF ServingOK, Asks
<1> QED
  BY <1>1, <1>2, <1>5, <1>6, InputInv

\* Server s issues an instruction that leaves what it has input alone.
Keeps(s) == Goes(s) /\ UNCHANGED <<prog, client, trapped, remote, sender, command>>

\* What follows of it alone.
LEMMA KeepFacts ==
   ASSUME IInv, NEW s \in Servers, Keeps(s)
   PROVE  /\ prog' = prog /\ trapped' = trapped
          /\ cpc' = cpc /\ cmd' = cmd /\ sc' = sc /\ got' = got
          /\ remote' = remote /\ sender' = sender /\ command' = command /\ Goes(s)
          /\ spc' \in [Servers -> 1 .. 11] /\ spc'[1 - s] = spc[1 - s]
          /\ spc[s] \in 1 .. 9 => spc'[s] = spc[s] + 1
          /\ spc[s] = 10 => spc'[s] = 11 \/ spc'[s] = 5
<1>1. spc \in [Servers -> 1 .. 11]
  BY Types DEF IInv, ServerTypes
<1> QED
  BY <1>1, GoesTo DEF Keeps, client

\* chanend_server: the destination is set to the return address.
LEMMA SetSenderInv ==
   ASSUME IInv, NEW s \in Servers, spc[s] = 8, Keeps(s), SetDest(s, sender[s][2])
   PROVE  IInv'
<1>1. /\ prog' = prog /\ trapped' = trapped
      /\ cpc' = cpc /\ cmd' = cmd /\ sc' = sc /\ got' = got
      /\ remote' = remote /\ sender' = sender /\ command' = command /\ Goes(s)
      /\ spc' \in [Servers -> 1 .. 11] /\ spc'[1 - s] = spc[1 - s] /\ spc'[s] = 9
  BY KeepFacts
<1>2. PICK c \in Clients : /\ sc[c] # Zero /\ sender[s] = Address(sc[c]) /\ dest[sc[c]] = s
                           /\ Asks(c, s) /\ cpc[c] = 6 /\ command[s] = Command(c, cmd[c])
  <2>1. spc[s] \in 6 .. 10 /\ spc[s] \in 7 .. 10 /\ spc[s] \in {8, 9} /\ ServingOK(s)
    BY ServerFacts
  <2> QED
    BY <2>1 DEF ServingOK
<1>3. PICK e \in Spare : e = sc[c]
  BY <1>2, ClientFacts
<1>4. /\ dest' = [dest EXCEPT ![s] = e] /\ q' = q /\ holder' = holder /\ pool' = pool
  BY <1>2, <1>3, WordsAre DEF SetDest
<1>5. /\ s \in Chanends /\ e \in Chanends /\ e # s
      /\ dest \in [Chanends -> Chanends \cup {Zero}]
  BY ServerFacts, ChanendsAre DEF IInv, TypeOK
<1>6. /\ dest'[s] = e /\ \A f \in Chanends : f # s => dest'[f] = dest[f]
      /\ dest' \in [Chanends -> Chanends \cup {Zero}]
  BY <1>4, <1>5
<1>7. ClientsRest
  BY <1>1, <1>4 DEF ClientsRest
<1>8. ServerActs(s)
  BY <1>1, <1>6, <1>7 DEF ServerActs
<1>9. TypeOK'
  <2>1. QueueTypes'
    BY <1>4, Types DEF IInv, QueueTypes
  <2>2. /\ remote' \in [Servers -> Word] /\ sender' \in [Servers -> Word]
        /\ command' \in [Servers -> Word]
    BY <1>1 DEF IInv, TypeOK
  <2>3. TypeOK
    BY DEF IInv
  <2> QED
    BY <1>1, <1>6, <1>7, <2>1, <2>2, <2>3, ServerTyped
<1>10. AskKept(s)
  <2>1. spc[s] \in 1 .. 9
    OBVIOUS
  <2> QED
    BY <1>4, <1>8, <2>1, ClientsQuiet
<1>11. Prior(s) = END /\ Prior(s)' = END
  BY <1>1 DEF Prior
<1>12. StreamOK(s) /\ RouteOK(s) /\ OnceOK(s) /\ AddressOK(s)
  BY ServerFacts
<1>13. StreamOK(s)' /\ LastSent(Prior(s), q[s])' = LastSent(Prior(s), q[s])
  BY <1>4, <1>10, <1>11, <1>12, StreamSame
<1>14. RouteOK(s)'
  <2>1. PICK l : l = LastSent(Prior(s), q[s])
    OBVIOUS
  <2>2. LastSent(Prior(s), q[s])' = l
    BY <1>13, <2>1
  <2>3. \A d \in Clients : sc[d] # Zero => sc[d] \in Spare
    BY ClientFacts
  <2>4. spc[s] \notin 1 .. 3
    OBVIOUS
  <2>5. \A f \in Spare : dest'[f] = dest[f]
    BY <1>6, ChanendsAre
  <2> QED
    BY <1>1, <1>4, <1>7, <1>12, <2>1, <2>2, <2>3, <2>4, <2>5, RouteKept
<1>15. OnceOK(s)'
  BY <1>1, <1>4, <1>12 DEF OnceOK
<1>16. AddressOK(s)'
  BY <1>1, <1>12, ServerCodeIs DEF AddressOK
<1>17. ServingOK(s)'
  <2>1. Asks(c, s)' /\ dest'[sc[c]] = s
    BY <1>1, <1>2, <1>3, <1>4, <1>5, <1>6 DEF Asks
  <2> QED
    BY <1>1, <1>2, <1>3, <1>6, <2>1 DEF ServingOK
<1>18. spc[s] \in 3 .. 9
  OBVIOUS
<1> QED
  BY <1>4, <1>8, <1>9, <1>13, <1>14, <1>15, <1>16, <1>17, <1>18, SilentServer

\* Server s sends a word to chan-end d.
LEMMA SpeakFacts ==
   ASSUME IInv, NEW s \in Servers, Keeps(s), NEW d \in Chanends, d = dest[s], NEW w \in Word,
          Out(s, w)
   PROVE  /\ holder[d] \in {Zero, s}
          /\ q'[d] = Append(q[d], w) /\ holder'[d] = IF w = END THEN Zero ELSE s
          /\ \A f \in Chanends : f # d => q'[f] = q[f] /\ holder'[f] = holder[f]
          /\ pool' = pool /\ dest' = dest /\ TypeOK' /\ ServerActs(s)
<1>1. /\ prog' = prog /\ trapped' = trapped
      /\ cpc' = cpc /\ cmd' = cmd /\ sc' = sc /\ got' = got
      /\ remote' = remote /\ sender' = sender /\ command' = command /\ Goes(s)
      /\ spc' \in [Servers -> 1 .. 11]
  BY KeepFacts
<1>2. TypeOK /\ s \in Chanends
  BY ServerFacts DEF IInv
<1>3. /\ holder[d] \in {Zero, s}
      /\ q'[d] = Append(q[d], w) /\ holder'[d] = IF w = END THEN Zero ELSE s
      /\ \A f \in Chanends : f # d => q'[f] = q[f] /\ holder'[f] = holder[f]
      /\ pool' = pool /\ dest' = dest /\ QueueTypes'
  BY <1>2, OutIs
<1>4. ClientsRest
  BY <1>1, <1>3 DEF ClientsRest
<1>5. ServerActs(s)
  BY <1>1, <1>3, <1>4 DEF ServerActs
<1>6. TypeOK'
  <2>1. /\ remote' \in [Servers -> Word] /\ sender' \in [Servers -> Word]
        /\ command' \in [Servers -> Word] /\ dest' \in [Chanends -> Chanends \cup {Zero}]
    BY <1>1, <1>2, <1>3 DEF TypeOK
  <2> QED
    BY <1>1, <1>2, <1>3, <1>4, <2>1, ServerTyped
<1> QED
  BY <1>3, <1>5, <1>6

\* get_addresses: a server sends its own address, and then END, to the other.
LEMMA IntroduceInv ==
   ASSUME IInv, NEW s \in Servers, Keeps(s), NEW w \in Word, Out(s, w),
          \/ spc[s] = 1 /\ w = Address(s)
          \/ spc[s] = 2 /\ w = END
   PROVE  IInv'
<1>1. /\ prog' = prog /\ trapped' = trapped
      /\ cpc' = cpc /\ cmd' = cmd /\ sc' = sc /\ got' = got
      /\ remote' = remote /\ sender' = sender /\ command' = command
      /\ spc'[1 - s] = spc[1 - s]
      /\ spc[s] \in 1 .. 9 => spc'[s] = spc[s] + 1
  BY KeepFacts
<1>2. PICK t \in Servers : t = 1 - s /\ 1 - t = s /\ t # s
  BY ChanendsAre
<1>3. /\ StreamOK(s) /\ RouteOK(s) /\ OnceOK(s) /\ AddressOK(s) /\ ServingOK(s)
      /\ StreamOK(t) /\ RouteOK(t) /\ OnceOK(t) /\ AddressOK(t) /\ ServingOK(t)
  BY ServerFacts
<1>4. s \in Chanends /\ t \in Chanends /\ t = dest[s]
  BY <1>2, <1>3, ChanendsAre DEF AddressOK
<1>5. /\ holder[t] \in {Zero, s}
      /\ q'[t] = Append(q[t], w) /\ holder'[t] = IF w = END THEN Zero ELSE s
      /\ \A f \in Chanends : f # t => q'[f] = q[f] /\ holder'[f] = holder[f]
      /\ pool' = pool /\ dest' = dest /\ TypeOK' /\ ServerActs(s)
  BY <1>4, SpeakFacts
<1>6. /\ UnusedOK' /\ AskKept(s) /\ AskKept(t) /\ SendKept(t) /\ AnswerKept(t)
      /\ \A d \in Clients : OwnOK(d)' /\ ReplyOK(d)' /\ GotOK(d)'
  <2>1. \A e \in Spare : q'[e] = q[e] /\ holder'[e] = holder[e]
    BY <1>2, <1>5, ChanendsAre
  <2>2. \A r \in Servers : holder'[r] = holder[r] \/ holder[r] \in Servers \cup {Zero}
    BY <1>2, <1>5, ChanendsAre
  <2>3. spc[s] \in 1 .. 9
    OBVIOUS
  <2> QED
    BY <1>2, <1>5, <2>1, <2>2, <2>3, ClientsQuiet
<1>7. SameServer(t) /\ q[t] \in Seq(Word) /\ Prior(t)' = Prior(t)
  BY <1>2, <1>4, <1>5, OtherServer, ChanendFacts, PriorSame
<1>8. PICK l : l = LastSent(Prior(t), q[t])
  OBVIOUS
<1>9. \/ spc[s] = 1 /\ l = First /\ spc[t] \in 1 .. 3
      \/ spc[s] = 2 /\ l = Address(s)
  <2>1. CASE spc[s] = 1
    <3>1. 1 \notin 3 .. Down
      OBVIOUS
    <3>2. q[t] = << >> /\ spc[t] \in 1 .. 3
      BY <1>2, <1>3, <2>1, <3>1 DEF RouteOK
    <3>3. Len(<< >>) + 1 = 1
      OBVIOUS
    <3>4. Prior(t) = First
      BY <3>2 DEF Prior
    <3>5. l = First
      BY <1>8, <3>2, <3>3, <3>4 DEF LastSent, Preceding
    <3> QED
      BY <2>1, <3>2, <3>5
  <2>2. CASE spc[s] = 2
    <3>1. 2 \notin 3 .. Down
      OBVIOUS
    <3> QED
      BY <1>2, <1>3, <1>8, <2>2, <3>1 DEF RouteOK
  <2> QED
    BY <2>1, <2>2
<1>10. Follows(t, l, w)'
  <2>1. \/ l = First /\ w = Address(1 - t)
        \/ l = Address(1 - t) /\ w = END
    BY <1>2, <1>9
  <2> QED
    BY <2>1 DEF Follows
<1>11. StreamOK(t)' /\ LastSent(Prior(t), q[t])' = w
  BY <1>3, <1>5, <1>6, <1>7, <1>8, <1>10, StreamPush
<1>12. RouteOK(t)'
  <2>1. CASE spc[s] = 1 /\ w = Address(s)
    <3>1. spc'[s] = 2 /\ w # END
      BY <1>1, <2>1, WordsAre
    <3>2. holder'[t] = 1 - t /\ w = Address(1 - t) /\ spc'[1 - t] = 2
      BY <1>2, <1>5, <2>1, <3>1
    <3> QED
      BY <1>11, <3>2 DEF RouteOK
  <2>2. CASE spc[s] = 2 /\ w = END
    <3>1. spc'[s] = 3 /\ 3 \in 3 .. Down
      BY <1>1, <2>2, ServerCodeIs
    <3>2. holder'[t] = Zero /\ spc'[1 - t] \in 3 .. Down
      BY <1>2, <1>5, <2>2, <3>1
    <3> QED
      BY <1>11, <2>2, <3>2 DEF RouteOK
  <2> QED
    BY <2>1, <2>2
<1>13. OnceOK(t)'
  <2>1. \A f \in Spare : w # Address(f)
    BY WordsAre, ChanendsAre
  <2> QED
    BY <1>3, <1>5, <1>7, <2>1, OncePush DEF SameServer
<1>14. AddressOK(t)'
  BY <1>3, <1>7 DEF AddressOK, SameServer
<1>15. ServingOK(t)'
  BY <1>3, <1>6, <1>7, ServingKept
<1>16. spc'[s] \in {2, 3} /\ spc'[s] \notin 6 .. 10 /\ (spc'[s] \in {1, 2} => spc[s] \in {1, 2})
  BY <1>1
<1>17. q'[s] = q[s] /\ holder'[s] = holder[s]
  BY <1>2, <1>4, <1>5
<1>18. Prior(s) = First /\ Prior(s)' = First
  BY <1>16 DEF Prior
<1>19. StreamOK(s)' /\ LastSent(Prior(s), q[s])' = LastSent(Prior(s), q[s])
  BY <1>3, <1>6, <1>17, <1>18, StreamSame
<1>20. RouteOK(s)'
  <2>1. PICK m : m = LastSent(Prior(s), q[s])
    OBVIOUS
  <2>2. LastSent(Prior(s), q[s])' = m
    BY <1>19, <2>1
  <2>3. \A d \in Clients : sc[d] # Zero => sc[d] \in Spare
    BY ClientFacts
  <2>4. spc'[s] \in 1 .. 3
    BY <1>16
  <2>5. ClientsRest
    BY <1>5 DEF ServerActs
  <2> QED
    BY <1>1, <1>3, <1>5, <1>17, <2>1, <2>2, <2>3, <2>4, <2>5, RouteKept
<1>21. OnceOK(s)'
  BY <1>3, <1>16, <1>17 DEF OnceOK
<1>22. AddressOK(s)'
  <2>1. spc'[s] \notin 4 .. Down
    BY <1>16
  <2> QED
    BY <1>3, <1>5, <1>16, <2>1 DEF AddressOK
<1>23. ServingOK(s)'
  BY <1>16 DEF ServingOK
<1> QED
  BY <1>2, <1>5, <1>6, <1>11, <1>12, <1>13, <1>14, <1>15, <1>19, <1>20, <1>21, <1>22, <1>23,
     ServerDone

\* Server s sends a part of its reply to client c: the others, and what the
\* server has input.
LEMMA AnswerFacts ==
   ASSUME IInv, NEW s \in Servers, spc[s] \in {9, 10}, Keeps(s), NEW w \in Word, Out(s, w),
          NEW c \in Clients, sc[c] # Zero, sender[s] = Address(sc[c]), dest[s] = sc[c],
          dest[sc[c]] = s, NEW t, t = 1 - s
   PROVE  /\ ServerActs(s) /\ TypeOK' /\ UnusedOK' /\ OnceOK(s)' /\ AddressOK(s)'
          /\ StreamOK(t)' /\ RouteOK(t)' /\ OnceOK(t)' /\ AddressOK(t)' /\ ServingOK(t)'
          /\ OwnOK(c)' /\ GotOK(c)' /\ q[sc[c]] \in Seq(Word)
          /\ \A d \in Clients : d # c => SameClient(d) /\ OwnOK(d)' /\ ReplyOK(d)' /\ GotOK(d)'
          /\ q'[sc[c]] = Append(q[sc[c]], w)
          /\ holder'[sc[c]] = IF w = END THEN Zero ELSE s
          /\ q'[s] = q[s] /\ holder'[s] = holder[s] /\ dest' = dest
<1>1. /\ prog' = prog /\ trapped' = trapped
      /\ cpc' = cpc /\ cmd' = cmd /\ sc' = sc /\ got' = got
      /\ remote' = remote /\ sender' = sender /\ command' = command
      /\ spc'[1 - s] = spc[1 - s]
      /\ spc[s] \in 1 .. 9 => spc'[s] = spc[s] + 1
      /\ spc[s] = 10 => spc'[s] = 11 \/ spc'[s] = 5
  BY KeepFacts
<1>2. /\ spc[s] = 9 => spc'[s] = 10
      /\ spc[s] \in 3 .. Down /\ spc'[s] \in 3 .. Down /\ spc'[s] \in 5 .. Down
      /\ spc'[s] \in 4 .. Down /\ spc[s] \in 4 .. Down /\ spc'[s] \notin {1, 2}
      /\ spc'[s] \in 6 .. 10 => spc[s] \in 6 .. 10
  <2>1. CASE spc[s] = 9
    <3>1. spc'[s] = 10
      BY <1>1, <2>1
    <3> QED
      BY <2>1, <3>1, ServerCodeIs
  <2>2. CASE spc[s] = 10
    BY <1>1, <2>2, ServerCodeIs
  <2> QED
    BY <2>1, <2>2
<1>3. PICK e \in Spare : e = sc[c]
  BY ClientFacts
<1>4. /\ e \in Chanends /\ s \in Chanends /\ e # s /\ e # t /\ t # s /\ t \in Servers
      /\ e \notin Servers /\ 1 - t = s
      /\ Servers \subseteq Chanends /\ Spare \subseteq Chanends
  BY ChanendsAre
<1>5. /\ q'[e] = Append(q[e], w) /\ holder'[e] = IF w = END THEN Zero ELSE s
      /\ \A f \in Chanends : f # e => q'[f] = q[f] /\ holder'[f] = holder[f]
      /\ pool' = pool /\ dest' = dest /\ TypeOK' /\ ServerActs(s)
  BY <1>3, <1>4, SpeakFacts
<1>6. UnusedOK'
  <2>1. SUFFICES ASSUME NEW f \in Spare, \A d \in Clients : sc'[d] # f
                 PROVE  q'[f] = << >> /\ holder'[f] = Zero
    BY DEF UnusedOK
  <2>2. f # e /\ \A d \in Clients : sc[d] # f
    BY <1>1, <1>3, <2>1
  <2>3. q[f] = << >> /\ holder[f] = Zero
    BY <2>2 DEF IInv, UnusedOK
  <2> QED
    BY <1>4, <1>5, <2>2, <2>3
<1>7. ASSUME NEW d \in Clients, d # c
      PROVE  SameClient(d) /\ OwnOK(d)' /\ ReplyOK(d)' /\ GotOK(d)'
  <2>1. /\ OwnOK(d) /\ ReplyOK(d) /\ GotOK(d) /\ cpc[d] \in 0 .. 8 /\ sc[d] \in Spare \cup {Zero}
    BY ClientFacts
  <2>2. sc[d] # e
    BY <1>3, <1>7, Unique
  <2>3. SameClient(d)
    BY <1>1, <1>4, <1>5, <2>1, <2>2 DEF SameClient
  <2>4. ASSUME NEW r \in Servers
        PROVE  /\ spc[r] \in 5 .. Down => spc'[r] \in 5 .. Down
               /\ Answers(r, d) => spc'[r] = 10 /\ sender'[r] = sender[r]
    <3>1. CASE r = s
      <4>1. ~Answers(s, d)
        <5>1. sender[s] # Address(sc[d])
          BY <1>3, <2>2, WordsAre
        <5> QED
          BY <5>1 DEF Answers
      <4> QED
        BY <1>2, <3>1, <4>1
    <3>2. CASE r = t
      BY <1>1, <3>2 DEF Answers
    <3> QED
      BY <3>1, <3>2, ChanendsAre
  <2>5. cpc[d] \in {4, 5} => holder'[dest[sc[d]]] = holder[dest[sc[d]]]
    <3>1. SUFFICES ASSUME cpc[d] \in {4, 5}
                   PROVE  holder'[dest[sc[d]]] = holder[dest[sc[d]]]
      OBVIOUS
    <3>2. cpc[d] \in 3 .. 8
      BY <3>1
    <3>3. dest[sc[d]] \in Servers
      BY <2>1, <3>2 DEF OwnOK
    <3> QED
      BY <1>4, <1>5, <3>3
  <2>6. sc[d] \notin pool' /\ \A x \in Clients : sc'[x] = sc[x]
    BY <1>1, <1>5, <2>1 DEF OwnOK
  <2> QED
    BY <2>1, <2>3, <2>4, <2>5, <2>6, ClientRest
<1>8. OwnOK(c)' /\ GotOK(c)'
  <2>1. OwnOK(c) /\ GotOK(c) /\ Tile(c) \in Servers
    BY ClientFacts
  <2>2. cpc[c] \in 1 .. 8 => spc'[Tile(c)] \in 5 .. Down
    <3>1. Tile(c) = s \/ Tile(c) = t
      BY <2>1, ChanendsAre
    <3> QED
      BY <1>1, <1>2, <2>1, <3>1 DEF OwnOK
  <2>3. holder'[dest[sc[c]]] = holder[dest[sc[c]]]
    BY <1>4, <1>5
  <2>4. GotOK(c)'
    BY <1>1, <2>1 DEF GotOK
  <2>5. OwnOK(c)'
    BY <1>1, <1>5, <2>1, <2>2, <2>3 DEF OwnOK
  <2> QED
    BY <2>4, <2>5
<1>9. OnceOK(s)' /\ AddressOK(s)'
  <2>1. OnceOK(s) /\ AddressOK(s)
    BY ServerFacts
  <2>2. OnceOK(s)'
    <3>1. q'[s] = q[s] /\ sender'[s] = sender[s]
      BY <1>1, <1>4, <1>5
    <3>2. PICK v, Q : v = sender[s] /\ Q = q[s]
      OBVIOUS
    <3>3. \A f \in Spare : \A k \in 1 .. Len(Q) :
             Q[k] = Address(f) =>
                /\ spc[s] \in 6 .. 10 => v # Address(f)
                /\ \A l \in 1 .. Len(Q) : Q[l] = Address(f) => l = k
      BY <2>1, <3>2 DEF OnceOK
    <3>4. \A f \in Spare : \A k \in 1 .. Len(Q) :
             Q[k] = Address(f) =>
                /\ spc'[s] \in 6 .. 10 => v # Address(f)
                /\ \A l \in 1 .. Len(Q) : Q[l] = Address(f) => l = k
      BY <1>2, <3>3
    <3> QED
      BY <3>1, <3>2, <3>4 DEF OnceOK
  <2>3. AddressOK(s)'
    BY <1>1, <1>2, <2>1 DEF AddressOK
  <2> QED
    BY <2>2, <2>3
<1>10. AskKept(t)
  <2>1. \A d \in Clients : Asks(d, t) => d # c
    BY <1>4 DEF Asks
  <2> QED
    BY <1>4, <1>7, <2>1, AskSame
<1>11. SendKept(t)
  BY <1>1, <1>5 DEF SendKept
<1>12. AnswerKept(t)
  <2>1. SUFFICES ASSUME NEW d \in Clients, sc[d] # Zero, spc[t] = 10,
                        sender[t] = Address(sc[d]), holder[sc[d]] = t
                 PROVE  /\ sc'[d] = sc[d] /\ cmd'[d] = cmd[d] /\ dest'[sc[d]] = dest[sc[d]]
                        /\ holder'[sc[d]] = t
                        /\ cpc'[d] = cpc[d] /\ q'[sc[d]] = q[sc[d]]
    BY DEF AnswerKept
  <2>2. d # c
    <3>1. dest[sc[d]] = t
      BY <1>4, <2>1, Serves
    <3> QED
      BY <1>4, <3>1
  <2> QED
    BY <1>7, <2>1, <2>2 DEF SameClient
<1>13. StreamOK(t)' /\ RouteOK(t)' /\ OnceOK(t)' /\ AddressOK(t)' /\ ServingOK(t)'
  <2>1. StreamOK(t) /\ RouteOK(t) /\ OnceOK(t) /\ AddressOK(t) /\ ServingOK(t)
    BY <1>4, ServerFacts
  <2>2. SameServer(t) /\ q'[t] = q[t] /\ holder'[t] = holder[t]
    BY <1>4, <1>5, OtherServer
  <2> QED
    BY <1>2, <1>4, <1>10, <1>11, <1>12, <2>1, <2>2, ServerRest
<1>14. q[e] \in Seq(Word)
  BY <1>4, ChanendFacts
<1> QED
  BY <1>3, <1>4, <1>5, <1>6, <1>7, <1>8, <1>9, <1>13, <1>14

\* Nothing of the request that a server answers is still on its queue: the
\* words there follow each other whatever becomes of the client.
LEMMA NothingLeft ==
   ASSUME IInv, NEW s \in Servers, spc[s] \in {8, 9}, NEW c \in Clients, sc[c] # Zero,
          sender[s] = Address(sc[c]), \A d \in Clients : d # c => SameClient(d),
          NEW Q \in Seq(Word), Q = q[s], NEW k \in 1 .. Len(Q)
   PROVE  Follows(s, Preceding(END, Q, k), Q[k])'
<1>1. PICK e \in Spare : e = sc[c]
  BY ClientFacts
<1>2. Prior(s) = END
  BY DEF Prior
<1>3. \A j \in 1 .. Len(Q) : Q[j] # Address(e)
  <2>1. spc[s] \in 6 .. 10
    OBVIOUS
  <2> QED
    BY <1>1, <2>1, ServerFacts DEF OnceOK
<1>4. \A j \in 1 .. Len(Q) :
         \/ Preceding(END, Q, j) = END
         \/ j - 1 \in 1 .. Len(Q) /\ Preceding(END, Q, j) = Q[j - 1]
  <2>1. PICK n \in Nat : n = Len(Q)
    OBVIOUS
  <2>2. \A j \in 1 .. n : j = 1 \/ j - 1 \in 1 .. n
    OBVIOUS
  <2> QED
    BY <2>1, <2>2 DEF Preceding
<1>5. \A j \in 1 .. Len(Q) : Preceding(END, Q, j) # Address(e)
  BY <1>3, <1>4, WordsAre
<1>6. \A j \in 1 .. Len(Q) : Follows(s, Preceding(END, Q, j), Q[j])
  BY <1>2, ServerFacts DEF StreamOK
<1>7. \A j \in 1 .. Len(Q) : Q[j] # Command(c, cmd[c])
  <2>1. SUFFICES ASSUME NEW j \in 1 .. Len(Q), Q[j] = Command(c, cmd[c]) PROVE FALSE
    OBVIOUS
  <2>2. PICK x, y : x = Preceding(END, Q, j) /\ y = Q[j] /\ Follows(s, x, y)
    BY <1>6
  <2>3. PICK d \in Clients : x = Address(sc[d]) /\ y = Command(d, cmd[d])
    BY <2>1, <2>2, WordsAre DEF Follows
  <2>4. \A m, n : Command(d, m) = Command(c, n) => d = c
    BY WordsAre
  <2>5. d = c
    BY <2>1, <2>2, <2>3, <2>4
  <2> QED
    BY <1>1, <1>5, <2>2, <2>3, <2>5
<1>8. PICK x, y : x = Preceding(END, Q, k) /\ y = Q[k] /\ Follows(s, x, y)
  BY <1>6
<1>9. y # Address(e) /\ x # Address(e) /\ x # Command(c, cmd[c])
  <2>1. x # Command(c, cmd[c])
    BY <1>4, <1>7, <1>8, WordsAre
  <2> QED
    BY <1>3, <1>5, <1>8, <2>1
<1>10. CASE \/ x = First /\ y = Address(1 - s)
            \/ x = Address(1 - s) /\ y = END
  BY <1>8, <1>10 DEF Follows
<1>11. ASSUME NEW d \in Clients, Asks(d, s),
              \/ x = END /\ y = Address(sc[d])
              \/ x = Address(sc[d]) /\ y = Command(d, cmd[d]) /\ cpc[d] \in {5, 6}
              \/ x = Command(d, cmd[d]) /\ y = END /\ cpc[d] = 6
       PROVE  Follows(s, x, y)'
  <2>1. d # c
    BY <1>1, <1>9, <1>11
  <2>2. Asks(d, s)' /\ sc'[d] = sc[d] /\ cmd'[d] = cmd[d] /\ cpc'[d] = cpc[d]
    BY <1>11, <2>1 DEF SameClient, Asks
  <2> QED
    BY <1>11, <2>2 DEF Follows
<1>12. Follows(s, x, y)'
  BY <1>8, <1>10, <1>11 DEF Follows
<1> QED
  BY <1>8, <1>12

\* chanend_server: the response is sent.
LEMMA RespondInv ==
   ASSUME IInv, NEW s \in Servers, spc[s] = 9, Keeps(s), Out(s, Invert(command[s]))
   PROVE  IInv'
<1>1. /\ cpc' = cpc /\ cmd' = cmd /\ sc' = sc /\ sender' = sender /\ command' = command
      /\ spc'[1 - s] = spc[1 - s] /\ spc'[s] = 10
  BY KeepFacts
<1>2. PICK c \in Clients : /\ sc[c] # Zero /\ sender[s] = Address(sc[c]) /\ dest[sc[c]] = s
                           /\ Asks(c, s) /\ cpc[c] = 6 /\ command[s] = Command(c, cmd[c])
                           /\ dest[s] = sc[c]
  <2>1. spc[s] \in 6 .. 10 /\ spc[s] \in 7 .. 10 /\ spc[s] \in {8, 9} /\ spc[s] \in {9, 10}
        /\ ServingOK(s)
    BY ServerFacts
  <2> QED
    BY <2>1 DEF ServingOK
<1>3. PICK e, t, r : e = sc[c] /\ t = 1 - s /\ r = Invert(Command(c, cmd[c]))
  OBVIOUS
<1>4. r \in Word /\ r # END
  <2>1. c \in Nat /\ cmd[c] \in Nat
    BY ClientFacts
  <2> QED
    BY <1>3, <2>1, WordsTyped, WordsAre
<1>5. spc[s] \in {9, 10} /\ spc[s] \in {8, 9} /\ Out(s, r)
  BY <1>2, <1>3
<1>6. /\ ServerActs(s) /\ TypeOK' /\ UnusedOK' /\ OnceOK(s)' /\ AddressOK(s)'
      /\ StreamOK(t)' /\ RouteOK(t)' /\ OnceOK(t)' /\ AddressOK(t)' /\ ServingOK(t)'
      /\ OwnOK(c)' /\ GotOK(c)'
      /\ \A d \in Clients : d # c => SameClient(d) /\ OwnOK(d)' /\ ReplyOK(d)' /\ GotOK(d)'
      /\ q'[e] = Append(q[e], r) /\ holder'[e] = s
      /\ q'[s] = q[s] /\ holder'[s] = holder[s] /\ dest' = dest
  BY <1>2, <1>3, <1>4, <1>5, AnswerFacts
<1>7. q'[e] = <<r>>
  <2>1. q[e] = << >>
    BY <1>2, <1>3 DEF Asks
  <2>2. Append(<< >>, r) = <<r>>
    OBVIOUS
  <2> QED
    BY <1>6, <2>1, <2>2
<1>8. ReplyOK(c)'
  <2>1. Answers(s, c)'
    BY <1>1, <1>2 DEF Answers
  <2>2. sc'[c] = e /\ holder'[sc'[c]] = s /\ cpc'[c] = 6 /\ r = Invert(Command(c, cmd'[c]))
    BY <1>1, <1>2, <1>3, <1>6
  <2> QED
    BY <1>7, <2>1, <2>2 DEF ReplyOK
<1>9. Prior(s) = END /\ Prior(s)' = END
  BY <1>1 DEF Prior
<1>10. PICK Q \in Seq(Word) : Q = q[s]
  BY ServerFacts, ChanendFacts
<1>11. StreamOK(s)'
  <2>1. \A k \in 1 .. Len(Q) : Follows(s, Preceding(END, Q, k), Q[k])'
    BY <1>2, <1>5, <1>6, <1>10, NothingLeft
  <2>2. q'[s] = Q
    BY <1>6, <1>10
  <2> QED
    BY <1>9, <2>1, <2>2 DEF StreamOK
<1>12. RouteOK(s)'
  <2>1. PICK l : l = LastSent(Prior(s), q[s])
    OBVIOUS
  <2>2. LastSent(Prior(s), q[s])' = l
    BY <1>6, <1>9, <2>1
  <2>3. \A d \in Clients : sc[d] # Zero => sc[d] \in Spare
    BY ClientFacts
  <2>4. spc[s] \notin 1 .. 3
    OBVIOUS
  <2>5. ClientsRest /\ RouteOK(s)
    BY <1>6, ServerFacts DEF ServerActs
  <2> QED
    BY <1>1, <1>6, <2>1, <2>2, <2>3, <2>4, <2>5, RouteKept
<1>13. ServingOK(s)'
  <2>1. /\ sc'[c] # Zero /\ sender'[s] = Address(sc'[c]) /\ dest'[sc'[c]] = s
        /\ command'[s] = Command(c, cmd'[c]) /\ dest'[s] = sc'[c]
        /\ holder'[sc'[c]] = s /\ cpc'[c] = 6 /\ q'[sc'[c]] = <<Invert(Command(c, cmd'[c]))>>
    BY <1>1, <1>2, <1>3, <1>6, <1>7
  <2>2. 10 \notin {6, 7, 8, 9}
    OBVIOUS
  <2> QED
    BY <1>1, <2>1, <2>2 DEF ServingOK
<1>14. \A d \in Clients : OwnOK(d)' /\ ReplyOK(d)' /\ GotOK(d)'
  BY <1>6, <1>8
<1> QED
  BY <1>3, <1>6, <1>11, <1>12, <1>13, <1>14, ServerDone

\* chanend_server: the END of the response is sent.
LEMMA FinishInv ==
   ASSUME IInv, NEW s \in Servers, spc[s] = 10, Keeps(s), Out(s, END)
   PROVE  IInv'
<1>1. /\ cpc' = cpc /\ cmd' = cmd /\ sc' = sc /\ sender' = sender /\ command' = command
      /\ spc'[1 - s] = spc[1 - s] /\ (spc'[s] = 11 \/ spc'[s] = 5)
  BY KeepFacts
<1>2. PICK c \in Clients : /\ sc[c] # Zero /\ sender[s] = Address(sc[c]) /\ dest[sc[c]] = s
                           /\ dest[s] = sc[c] /\ holder[sc[c]] = s
                           /\ \/ cpc[c] = 6 /\ q[sc[c]] = <<Invert(Command(c, cmd[c]))>>
                              \/ cpc[c] = 7 /\ q[sc[c]] = << >>
  <2>1. spc[s] \in 6 .. 10 /\ spc[s] \in {9, 10} /\ ServingOK(s)
    BY ServerFacts
  <2> QED
    BY <2>1 DEF ServingOK
<1>3. PICK e, t, r : e = sc[c] /\ t = 1 - s /\ r = Invert(Command(c, cmd[c]))
  OBVIOUS
<1>4. END \in Word /\ spc[s] \in {9, 10}
  BY WordsTyped
<1>5. /\ ServerActs(s) /\ TypeOK' /\ UnusedOK' /\ OnceOK(s)' /\ AddressOK(s)'
      /\ StreamOK(t)' /\ RouteOK(t)' /\ OnceOK(t)' /\ AddressOK(t)' /\ ServingOK(t)'
      /\ OwnOK(c)' /\ GotOK(c)'
      /\ \A d \in Clients : d # c => SameClient(d) /\ OwnOK(d)' /\ ReplyOK(d)' /\ GotOK(d)'
      /\ q'[e] = Append(q[e], END) /\ holder'[e] = Zero
      /\ q'[s] = q[s] /\ holder'[s] = holder[s] /\ dest' = dest
  BY <1>2, <1>3, <1>4, AnswerFacts
<1>6. ReplyOK(c)'
  <2>1. Append(<< >>, END) = <<END>> /\ Append(<<r>>, END) = <<r, END>>
    BY Replies
  <2>2. \/ cpc[c] = 6 /\ q'[e] = <<r, END>>
        \/ cpc[c] = 7 /\ q'[e] = <<END>>
    <3>1. CASE cpc[c] = 6 /\ q[e] = <<r>>
      BY <1>5, <2>1, <3>1
    <3>2. CASE cpc[c] = 7 /\ q[e] = << >>
      BY <1>5, <2>1, <3>2
    <3> QED
      BY <1>2, <1>3, <3>1, <3>2
  <2>3. sc'[c] = e /\ holder'[sc'[c]] = Zero /\ cpc'[c] = cpc[c] /\ r = Invert(Command(c, cmd'[c]))
    BY <1>1, <1>3, <1>5
  <2> QED
    BY <2>2, <2>3 DEF ReplyOK
<1>7. Prior(s) = END /\ Prior(s)' = END
  BY <1>1 DEF Prior
<1>8. AskKept(s)
  <2>1. \A d \in Clients : Asks(d, s) => d # c
    BY <1>2, ChanendsAre DEF Asks
  <2> QED
    BY <1>5, <2>1, AskSame
<1>9. StreamOK(s)' /\ LastSent(Prior(s), q[s])' = LastSent(Prior(s), q[s])
  BY <1>5, <1>7, <1>8, ServerFacts, StreamSame
<1>10. RouteOK(s)'
  <2>1. PICK l : l = LastSent(Prior(s), q[s])
    OBVIOUS
  <2>2. LastSent(Prior(s), q[s])' = l
    BY <1>9, <2>1
  <2>3. \A d \in Clients : sc[d] # Zero => sc[d] \in Spare
    BY ClientFacts
  <2>4. spc[s] \notin 1 .. 3
    OBVIOUS
  <2>5. ClientsRest /\ RouteOK(s)
    BY <1>5, ServerFacts DEF ServerActs
  <2> QED
    BY <1>1, <1>5, <2>1, <2>2, <2>3, <2>4, <2>5, RouteKept
<1>11. ServingOK(s)'
  BY <1>1 DEF ServingOK
<1>12. \A d \in Clients : OwnOK(d)' /\ ReplyOK(d)' /\ GotOK(d)'
  BY <1>5, <1>6
<1> QED
  BY <1>3, <1>5, <1>9, <1>10, <1>11, <1>12, ServerDone

\* Every instruction of a server keeps the invariant.
LEMMA ServerInv ==
   ASSUME IInv, NEW s \in Servers, ServerStep(s)
   PROVE  IInv'
<1>1. spc[s] \in 1 .. Down
  BY ServerFacts, ServerCodeIs
<1>2. /\ UNCHANGED <<prog, client, trapped>>
      /\ InAddress(s) \/ InCommand(s) \/ Exchange(s)
  BY DEF ServerStep
<1>3. 1 - s \in Servers /\ 1 - s # s /\ s \in Chanends /\ s \in Servers
  BY ChanendsAre
<1>4. /\ remote \in [Servers -> Word] /\ sender \in [Servers -> Word]
      /\ command \in [Servers -> Word]
  BY DEF IInv, TypeOK
<1>5. q[s] # << >> => Head(q[s]) \in Word
  <2>1. PICK Q \in Seq(Word) : Q = q[s]
    BY <1>3, ChanendFacts
  <2> QED
    BY <2>1
<1>6. CASE /\ Serve(s, "in_remote") /\ In(s)
           /\ remote' = [remote EXCEPT ![s] = Head(q[s])]
           /\ UNCHANGED <<sender, command>>
  <2>1. spc[s] = 3 /\ Goes(s) /\ Take(s) /\ q[s] # << >>
    BY <1>1, <1>6, ServerAt DEF Serve, In, Goes
  <2>2. Inputs(s) /\ remote'[s] = Head(q[s])
    BY <1>2, <1>3, <1>4, <1>5, <1>6, <2>1 DEF Inputs
  <2> QED
    BY <2>1, <2>2, InRemoteInv
<1>7. CASE /\ Serve(s, "in_sender") /\ In(s)
           /\ sender' = [sender EXCEPT ![s] = Head(q[s])]
           /\ UNCHANGED <<remote, command>>
  <2>1. spc[s] = 5 /\ Goes(s) /\ Take(s) /\ q[s] # << >> /\ Head(q[s]) # END
    BY <1>1, <1>7, ServerAt DEF Serve, In, Goes
  <2>2. Inputs(s) /\ sender'[s] = Head(q[s]) /\ remote' = remote
    BY <1>2, <1>3, <1>4, <1>5, <1>7, <2>1 DEF Inputs
  <2> QED
    BY <2>1, <2>2, InSenderInv
<1>8. CASE InCommand(s)
  <2>1. /\ spc[s] = 6 /\ Goes(s) /\ Take(s) /\ q[s] # << >> /\ Head(q[s]) # END
        /\ command' = [command EXCEPT ![s] = Head(q[s])]
        /\ remote' = remote /\ sender' = sender
    BY <1>1, <1>8, ServerAt DEF InCommand, Serve, In, Goes
  <2>2. Inputs(s) /\ command'[s] = Head(q[s])
    BY <1>2, <1>3, <1>4, <1>5, <2>1 DEF Inputs
  <2> QED
    BY <2>1, <2>2, InCommandInv
<1>9. CASE Exchange(s)
  <2>1. UNCHANGED <<remote, sender, command>>
    BY <1>9 DEF Exchange
  <2>2. CASE Serve(s, "out_own") /\ Out(s, Address(s))
    <3>1. spc[s] = 1 /\ Keeps(s)
      BY <1>1, <1>2, <2>1, <2>2, ServerAt DEF Serve, Goes, Keeps
    <3>2. Address(s) \in Word
      BY <1>3, WordsTyped, ChanendsAre
    <3> QED
      BY <2>2, <3>1, <3>2, IntroduceInv
  <2>3. CASE Serve(s, "out_END") /\ Out(s, END)
    <3>1. (spc[s] = 2 \/ spc[s] = 10) /\ Keeps(s)
      BY <1>1, <1>2, <2>1, <2>3, ServerAt DEF Serve, Goes, Keeps
    <3>2. END \in Word
      BY WordsTyped
    <3>3. CASE spc[s] = 2
      BY <2>3, <3>1, <3>2, <3>3, IntroduceInv
    <3>4. CASE spc[s] = 10
      BY <2>3, <3>1, <3>4, FinishInv
    <3> QED
      BY <3>1, <3>3, <3>4
  <2>4. CASE Serve(s, "check_END") /\ CheckEnd(s)
    <3>1. (spc[s] = 4 \/ spc[s] = 7) /\ Goes(s) /\ Take(s) /\ q[s] # << >> /\ Head(q[s]) = END
      BY <1>1, <2>4, ServerAt DEF Serve, CheckEnd, Goes
    <3>2. Inputs(s)
      BY <1>2, <1>4, <2>1, <3>1 DEF Inputs
    <3>3. CASE spc[s] = 4
      BY <2>1, <3>1, <3>2, <3>3, CheckRemoteInv
    <3>4. CASE spc[s] = 7
      BY <2>1, <3>1, <3>2, <3>4, CheckRequestInv
    <3> QED
      BY <3>1, <3>3, <3>4
  <2>5. CASE Serve(s, "setd") /\ SetDest(s, sender[s][2])
    <3>1. spc[s] = 8 /\ Keeps(s)
      BY <1>1, <1>2, <2>1, <2>5, ServerAt DEF Serve, Goes, Keeps
    <3> QED
      BY <2>5, <3>1, SetSenderInv
  <2>6. CASE Serve(s, "out_response") /\ Out(s, Invert(command[s]))
    <3>1. spc[s] = 9 /\ Keeps(s)
      BY <1>1, <1>2, <2>1, <2>6, ServerAt DEF Serve, Goes, Keeps
    <3> QED
      BY <2>6, <3>1, RespondInv
  <2> QED
    BY <1>9, <2>2, <2>3, <2>4, <2>5, <2>6 DEF Exchange
<1> QED
  BY <1>2, <1>6, <1>7, <1>8, <1>9 DEF InAddress

(***************************************************************************)
(* Exceptions                                                              *)
(***************************************************************************)
\* A client that is not sending holds no route.
LEMMA NotSending ==
   ASSUME IInv, NEW c \in Clients, sc[c] # Zero, cpc[c] \notin {4, 5}, NEW d \in Chanends
   PROVE  holder[d] # sc[c]
<1>1. SUFFICES ASSUME holder[d] = sc[c] PROVE FALSE
  OBVIOUS
<1>2. sc[c] \notin Servers /\ sc[c] # Zero
  BY ClientFacts, ChanendsAre
<1>3. CASE d \in Servers
  <2>1. cpc[c] = 4 \/ cpc[c] = 5
    BY <1>1, <1>3, RouteOf
  <2> QED
    BY <2>1
<1>4. CASE d \in Spare /\ \E x \in Clients : sc[x] = d
  <2>1. PICK x \in Clients : sc[x] = d
    BY <1>4
  <2>2. ReplyOK(x) /\ cpc[x] \in 0 .. 8 /\ sc[x] # Zero
    BY <1>4, <2>1, ClientFacts, ChanendsAre
  <2>3. cpc[x] \in 0 .. 5 \cup {8} \/ cpc[x] = 6 \/ cpc[x] = 7
    BY <2>2
  <2>4. holder[d] = Zero \/ Answers(holder[d], x)
    BY <2>1, <2>2, <2>3 DEF ReplyOK
  <2> QED
    BY <1>1, <1>2, <2>4 DEF Answers
<1>5. CASE d \in Spare /\ \A x \in Clients : sc[x] # d
  <2>1. holder[d] = Zero
    BY <1>5 DEF IInv, UnusedOK
  <2> QED
    BY <1>1, <1>2, <2>1
<1> QED
  BY <1>3, <1>4, <1>5, ChanendsAre

\* A client traps only where it uses the chan-end it did not get.
LEMMA ClientTraps ==
   ASSUME IInv, NEW c \in Clients, cpc[c] > 1, Traps(sc[c], ClientCode[cpc[c]])
   PROVE  sc[c] = Zero /\ cpc[c] = 2
<1>1. /\ cpc[c] \in 0 .. 8 /\ OwnOK(c) /\ ReplyOK(c) /\ sc[c] \in Spare \cup {Zero}
  BY ClientFacts
<1>2. PICK n \in 2 .. 8 : n = cpc[c]
  BY <1>1
<1>3. n \in 3 .. 8 => sc[c] # Zero
  BY <1>1, <1>2 DEF OwnOK
<1>4. n = 2 => ~(ClientCode[n] = "free" \/ ClientCode[n] = "check_END"
                 \/ ClientCode[n] \in {"in_remote", "in_sender", "in_command", "in_response"})
  BY ClientCodeIs
<1>5. n \in 3 .. 5 => ~(ClientCode[n] = "free" \/ ClientCode[n] = "check_END"
                 \/ ClientCode[n] \in {"in_remote", "in_sender", "in_command", "in_response"})
  <2>1. n \in 3 .. 5 => n = 3 \/ n = 4 \/ n = 5
    OBVIOUS
  <2> QED
    BY <2>1, ClientCodeIs
<1>6. CASE n = 2
  BY <1>2, <1>4, <1>6 DEF Traps
<1>7. CASE n \in 3 .. 5
  <2>1. sc[c] # Zero
    BY <1>3, <1>7
  <2> QED
    BY <1>2, <1>5, <1>7, <2>1 DEF Traps
<1>8. CASE n \in 6 .. 8
  <2>1. PICK e \in Spare : e = sc[c] /\ e # Zero
    BY <1>1, <1>3, <1>8
  <2>2. PICK r : r = Invert(Command(c, cmd[c]))
    OBVIOUS
  <2>3. n = 6 => ~Traps(e, ClientCode[n])
    <3>1. n = 6 => q[e] = << >> \/ q[e] = <<r, END>> \/ q[e] = <<r>>
      BY <1>1, <1>2, <2>1, <2>2 DEF ReplyOK
    <3>2. Head(<<r, END>>) = r /\ Head(<<r>>) = r /\ r # END
      BY <2>2, WordsAre
    <3>3. n = 6 => q[e] = << >> \/ Head(q[e]) # END
      BY <3>1, <3>2
    <3> QED
      BY <2>1, <3>3, ClientCodeIs DEF Traps
  <2>4. n = 7 => ~Traps(e, ClientCode[n])
    <3>1. n = 7 => q[e] = << >> \/ q[e] = <<END>>
      BY <1>1, <1>2, <2>1 DEF ReplyOK
    <3>2. Head(<<END>>) = END
      OBVIOUS
    <3>3. n = 7 => q[e] = << >> \/ Head(q[e]) = END
      BY <3>1, <3>2
    <3> QED
      BY <2>1, <3>3, ClientCodeIs DEF Traps
  <2>5. n = 8 => ~Traps(e, ClientCode[n])
    <3>1. n = 8 => q[e] = << >> /\ holder[e] = Zero
      BY <1>1, <1>2, <2>1 DEF ReplyOK
    <3>2. n = 8 => \A d \in Chanends : holder[d] # e
      <4>1. SUFFICES ASSUME n = 8, NEW d \in Chanends PROVE holder[d] # e
        OBVIOUS
      <4>2. sc[c] # Zero /\ cpc[c] \notin {4, 5}
        BY <1>2, <2>1, <4>1
      <4> QED
        BY <2>1, <4>2, NotSending
    <3>3. n = 8 => Clean(e)
      BY <3>1, <3>2 DEF Clean
    <3> QED
      BY <2>1, <3>3, ClientCodeIs DEF Traps
  <2>6. n = 6 \/ n = 7 \/ n = 8
    BY <1>8
  <2> QED
    BY <1>2, <2>1, <2>3, <2>4, <2>5, <2>6
<1>9. n = 2 \/ n \in 3 .. 5 \/ n \in 6 .. 8
  OBVIOUS
<1> QED
  BY <1>6, <1>7, <1>8, <1>9

\* A server does not trap: what it inputs is what it expects.
LEMMA ServerTraps ==
   ASSUME IInv, NEW s \in Servers, spc[s] < Down
   PROVE  ~Traps(s, ServerCode[spc[s]])
<1>1. spc[s] \in 1 .. 11 /\ s \in Chanends /\ s # Zero
  BY ServerFacts, ChanendsAre
<1>2. PICK n \in 1 .. 10 : n = spc[s]
  BY <1>1, ServerCodeIs
<1>3. SUFFICES ASSUME Traps(s, ServerCode[n]) PROVE FALSE
  BY <1>2
<1>4. \/ n = 1 \/ n = 2 \/ n = 3 \/ n = 4 \/ n = 5
      \/ n = 6 \/ n = 7 \/ n = 8 \/ n = 9 \/ n = 10
  OBVIOUS
<1>5. /\ q[s] # << >>
      /\ \/ (n = 4 \/ n = 7) /\ Head(q[s]) # END
         \/ (n = 3 \/ n = 5 \/ n = 6) /\ Head(q[s]) = END
  <2>1. /\ ServerCode[n] # "free"
        /\ ServerCode[n] = "check_END" => n = 4 \/ n = 7
        /\ ServerCode[n] \in {"in_remote", "in_sender", "in_command", "in_response"} =>
              n = 3 \/ n = 5 \/ n = 6
    BY <1>4, ServerCodeIs
  <2> QED
    BY <1>1, <1>3, <2>1 DEF Traps
<1>6. PICK x, y : x = Prior(s) /\ y = Head(q[s]) /\ Follows(s, x, y)
  <2>1. PICK Q \in Seq(Word) : Q = q[s] /\ Q # << >>
    BY <1>1, <1>5, ChanendFacts
  <2>2. PICK p : p = Prior(s)
    OBVIOUS
  <2>3. \A k \in 1 .. Len(Q) : Follows(s, Preceding(p, Q, k), Q[k])
    BY <2>1, <2>2, ServerFacts DEF StreamOK
  <2>4. Head(Q) = Q[1] /\ 1 \in 1 .. Len(Q) /\ Preceding(p, Q, 1) = p
    BY <2>1, Popped
  <2> QED
    BY <2>1, <2>2, <2>3, <2>4
<1>7. CASE n = 3
  <2>1. x = First /\ y = END
    BY <1>2, <1>5, <1>6, <1>7 DEF Prior
  <2> QED
    BY <1>6, <2>1, WordsAre DEF Follows
<1>8. CASE n = 4
  <2>1. x = Address(1 - s) /\ y # END
    <3>1. 4 \in 4 .. Down
      BY ServerCodeIs
    <3>2. AddressOK(s)
      BY ServerFacts
    <3> QED
      BY <1>2, <1>5, <1>6, <1>8, <3>1, <3>2 DEF Prior, AddressOK
  <2>2. \A c \in Clients : Asks(c, s) => sc[c] # 1 - s
    BY ClientFacts, ChanendsAre DEF Asks
  <2> QED
    BY <1>6, <2>1, <2>2, WordsAre DEF Follows
<1>9. CASE n = 5
  <2>1. x = END /\ y = END
    BY <1>2, <1>5, <1>6, <1>9 DEF Prior
  <2> QED
    BY <1>6, <2>1, WordsAre DEF Follows
<1>10. CASE n = 6
  <2>1. PICK e \in Spare : x = Address(e) /\ y = END
    <3>1. spc[s] \in 6 .. 10 /\ ServingOK(s)
      BY <1>2, <1>10, ServerFacts
    <3>2. PICK c \in Clients : sc[c] # Zero /\ sender[s] = Address(sc[c])
      BY <3>1 DEF ServingOK
    <3>3. sc[c] \in Spare
      BY <3>2, ClientFacts
    <3> QED
      BY <1>2, <1>5, <1>6, <1>10, <3>2, <3>3 DEF Prior
  <2>2. Address(e) # Address(1 - s)
    BY WordsAre, ChanendsAre
  <2> QED
    BY <1>6, <2>1, <2>2, WordsAre DEF Follows
<1>11. CASE n = 7
  <2>1. PICK c \in Clients : x = Command(c, cmd[c]) /\ y # END
    <3>1. spc[s] \in 6 .. 10 /\ spc[s] \in 7 .. 10 /\ ServingOK(s)
      BY <1>2, <1>11, ServerFacts
    <3>2. PICK c \in Clients : command[s] = Command(c, cmd[c])
      BY <3>1 DEF ServingOK
    <3> QED
      BY <1>2, <1>5, <1>6, <1>11, <3>2 DEF Prior
  <2> QED
    BY <1>6, <2>1, WordsAre DEF Follows
<1> QED
  BY <1>5, <1>7, <1>8, <1>9, <1>10, <1>11

\* An exception keeps the invariant.
LEMMA TrapInv ==
   ASSUME IInv, Trap
   PROVE  IInv'
<1>1. /\ prog' = prog /\ pool' = pool /\ dest' = dest /\ q' = q /\ holder' = holder
      /\ cpc' = cpc /\ cmd' = cmd /\ sc' = sc /\ got' = got
      /\ spc' = spc /\ remote' = remote /\ sender' = sender /\ command' = command
  BY DEF Trap, network, client, server
<1>2. PICK c \in Clients : /\ trapped' = trapped \cup {<<"client", c>>}
                           /\ sc[c] = Zero /\ cpc[c] = 2
  <2>1. ASSUME NEW s \in Servers, spc[s] < Down, Traps(s, ServerCode[spc[s]]) PROVE FALSE
    BY <2>1, ServerTraps
  <2>2. PICK c \in Clients : /\ cpc[c] > 1 /\ Traps(sc[c], ClientCode[cpc[c]])
                             /\ trapped' = trapped \cup {<<"client", c>>}
    BY <2>1 DEF Trap
  <2> QED
    BY <2>2, ClientTraps
<1>3. TrappedOK'
  <2>1. PICK k : k = <<"client", c>>
    OBVIOUS
  <2>2. k[1] = "client" /\ k[2] = c /\ k = <<"client", k[2]>>
    BY <2>1
  <2>3. \A j \in trapped' : j \in trapped \/ j = k
    BY <1>2, <2>1
  <2> QED
    BY <1>1, <1>2, <2>2, <2>3 DEF IInv, TrappedOK
<1>4. TypeOK' /\ ProgOK' /\ UnusedOK'
  BY <1>1 DEF IInv, TypeOK, ProgOK, UnusedOK
<1>5. ASSUME NEW s \in Servers
      PROVE  StreamOK(s)' /\ RouteOK(s)' /\ OnceOK(s)' /\ AddressOK(s)' /\ ServingOK(s)'
  <2>1. StreamOK(s) /\ RouteOK(s) /\ OnceOK(s) /\ AddressOK(s) /\ ServingOK(s)
    BY ServerFacts
  <2>2. SameServer(s)
    BY <1>1 DEF SameServer
  <2>3. \A d \in Clients : SameClient(d)
    BY <1>1 DEF SameClient
  <2>4. AskKept(s)
    BY <2>3, AskSame
  <2>5. AnswerKept(s) /\ SendKept(s)
    BY <2>3 DEF AnswerKept, SendKept, SameClient
  <2> QED
    BY <1>1, <2>1, <2>2, <2>4, <2>5, ServerRest
<1>6. ASSUME NEW d \in Clients PROVE OwnOK(d)' /\ ReplyOK(d)' /\ GotOK(d)'
  <2>1. OwnOK(d) /\ ReplyOK(d) /\ GotOK(d) /\ cpc[d] \in 0 .. 8
    BY ClientFacts
  <2>2. SameClient(d)
    BY <1>1 DEF SameClient
  <2>3. \A s \in Servers : /\ spc[s] \in 5 .. Down => spc'[s] \in 5 .. Down
                           /\ Answers(s, d) => spc'[s] = 10 /\ sender'[s] = sender[s]
    BY <1>1 DEF Answers
  <2>4. sc[d] \notin pool'
    BY <1>1, <2>1 DEF OwnOK
  <2> QED
    BY <1>1, <2>1, <2>2, <2>3, <2>4, ClientRest
<1> QED
  BY <1>3, <1>4, <1>5, <1>6 DEF IInv

(***************************************************************************)
(* Theorems                                                                *)
(***************************************************************************)
\* Every step keeps the invariant.
LEMMA NextInv == IInv /\ [Next]_vars => IInv'
<1>1. SUFFICES ASSUME IInv, [Next]_vars PROVE IInv'
  OBVIOUS
<1>2. ASSUME NEW c \in Clients, ClientStep(c) PROVE IInv'
  BY <1>1, <1>2, ClientInv
<1>3. ASSUME NEW s \in Servers, ServerStep(s) PROVE IInv'
  BY <1>1, <1>3, ServerInv
<1>4. CASE Trap
  BY <1>1, <1>4, TrapInv
<1>5. CASE UNCHANGED vars
  <2>1. /\ prog' = prog /\ pool' = pool /\ dest' = dest /\ q' = q /\ holder' = holder
        /\ cpc' = cpc /\ cmd' = cmd /\ sc' = sc /\ got' = got /\ trapped' = trapped
        /\ spc' = spc /\ remote' = remote /\ sender' = sender /\ command' = command
    BY <1>5 DEF vars, network, client, server
  <2>2. TypeOK' /\ ProgOK' /\ UnusedOK' /\ TrappedOK'
    BY <1>1, <2>1 DEF IInv, TypeOK, ProgOK, UnusedOK, TrappedOK
  <2>3. \A s \in Servers : SameServer(s)
    BY <2>1 DEF SameServer
  <2>4. \A d \in Clients : SameClient(d)
    BY <2>1 DEF SameClient
  <2>5. ASSUME NEW s \in Servers
        PROVE  StreamOK(s)' /\ RouteOK(s)' /\ OnceOK(s)' /\ AddressOK(s)' /\ ServingOK(s)'
    <3>1. StreamOK(s) /\ RouteOK(s) /\ OnceOK(s) /\ AddressOK(s) /\ ServingOK(s)
      BY <1>1, ServerFacts
    <3>2. AskKept(s)
      BY <2>4, AskSame
    <3>3. AnswerKept(s) /\ SendKept(s)
      BY <2>4 DEF AnswerKept, SendKept, SameClient
    <3> QED
      BY <2>1, <2>3, <3>1, <3>2, <3>3, ServerRest
  <2>6. ASSUME NEW d \in Clients PROVE OwnOK(d)' /\ ReplyOK(d)' /\ GotOK(d)'
    <3>1. OwnOK(d) /\ ReplyOK(d) /\ GotOK(d) /\ cpc[d] \in 0 .. 8
      BY <1>1, ClientFacts
    <3>2. \A s \in Servers : /\ spc[s] \in 5 .. Down => spc'[s] \in 5 .. Down
                             /\ Answers(s, d) => spc'[s] = 10 /\ sender'[s] = sender[s]
      BY <2>1 DEF Answers
    <3>3. sc[d] \notin pool'
      BY <2>1, <3>1 DEF OwnOK
    <3> QED
      BY <2>1, <2>4, <3>1, <3>2, <3>3, ClientRest
  <2> QED
    BY <2>2, <2>5, <2>6 DEF IInv
<1> QED
  BY <1>1, <1>2, <1>3, <1>4, <1>5 DEF Next

\* The servers and the clients start with it.
LEMMA InitInv == Init => IInv
<1>1. SUFFICES ASSUME Init PROVE IInv
  OBVIOUS
<1>2. /\ prog \in [Clients -> UNION {[1 .. n -> Cmd] : n \in 0 .. MaxCommands}]
      /\ pool \in SUBSET Spare
      /\ dest = [e \in Chanends |-> IF e \in Servers THEN 1 - e ELSE Zero]
      /\ q = [e \in Chanends |-> << >>]
      /\ holder = [e \in Chanends |-> Zero]
      /\ cpc = [c \in Clients |-> 0] /\ cmd = [c \in Clients |-> 1]
      /\ sc = [c \in Clients |-> Zero]
      /\ got = [c \in Clients |-> [i \in 1 .. MaxCommands |-> END]]
      /\ spc = [s \in Servers |-> 1]
      /\ remote = [s \in Servers |-> END] /\ sender = remote /\ command = remote
      /\ trapped = {}
  BY <1>1 DEF Init, Start
<1>3. /\ END \in Word /\ Cap \in Nat /\ MaxCommands \in Nat
      /\ \A s \in Servers : 1 - s \in Chanends /\ s \in Chanends /\ 1 - s \in Servers /\ 1 - s # s
      /\ Zero \notin Spare /\ Zero \notin Chanends
      /\ Spare \subseteq Chanends
  BY WordsTyped, ChanendsAre, ClientAssumption
<1>4. TypeOK
  <2>1. ClientTypes
    <3>1. 1 \in 1 .. MaxCommands + 1
      BY <1>3
    <3> QED
      BY <1>2, <1>3, <3>1 DEF ClientTypes
  <2>2. ServerTypes
    BY <1>2, <1>3 DEF ServerTypes
  <2>3. QueueTypes
    <3>1. << >> \in Seq(Word) /\ Len(<< >>) = 0 /\ 0 <= Cap
      BY <1>3
    <3> QED
      BY <1>2, <3>1 DEF QueueTypes
  <2>4. RestTypes
    BY <1>2, <1>3 DEF RestTypes
  <2> QED
    BY <2>1, <2>2, <2>3, <2>4, Types
<1>5. ProgOK
  <2>1. \A p \in UNION {[1 .. n -> Cmd] : n \in 0 .. MaxCommands} :
           p \in Seq(Cmd) /\ Len(p) <= MaxCommands
    <3>1. SUFFICES ASSUME NEW n \in 0 .. MaxCommands, NEW p \in [1 .. n -> Cmd]
                   PROVE  p \in Seq(Cmd) /\ Len(p) <= MaxCommands
      OBVIOUS
    <3>2. n \in Nat /\ n <= MaxCommands
      BY <1>3
    <3>3. p \in Seq(Cmd) /\ Len(p) = n
      BY <3>2
    <3> QED
      BY <3>2, <3>3
  <2> QED
    BY <1>2, <2>1 DEF ProgOK
<1>6. UnusedOK /\ TrappedOK
  BY <1>2, <1>3 DEF UnusedOK, TrappedOK
<1>7. ASSUME NEW s \in Servers
      PROVE  StreamOK(s) /\ RouteOK(s) /\ OnceOK(s) /\ AddressOK(s) /\ ServingOK(s)
  <2>1. /\ q[s] = << >> /\ holder[s] = Zero /\ spc[s] = 1 /\ spc[1 - s] = 1 /\ dest[s] = 1 - s
    BY <1>2, <1>3
  <2>2. \A k : k \notin 1 .. Len(<< >>)
    OBVIOUS
  <2>3. StreamOK(s) /\ OnceOK(s)
    BY <2>1, <2>2 DEF StreamOK, OnceOK
  <2>4. RouteOK(s)
    BY <2>1 DEF RouteOK
  <2>5. AddressOK(s) /\ ServingOK(s)
    BY <2>1 DEF AddressOK, ServingOK
  <2> QED
    BY <2>3, <2>4, <2>5
<1>8. ASSUME NEW c \in Clients PROVE OwnOK(c) /\ ReplyOK(c) /\ GotOK(c)
  <2>1. cpc[c] = 0 /\ sc[c] = Zero /\ cmd[c] = 1 /\ \A d \in Clients : sc[d] = Zero
    BY <1>2
  <2>2. OwnOK(c)
    BY <1>2, <1>3, <2>1 DEF OwnOK
  <2>3. ReplyOK(c)
    BY <2>1 DEF ReplyOK
  <2>4. GotOK(c)
    <3>1. \A i : i \notin 1 .. 1 - 1
      OBVIOUS
    <3> QED
      BY <2>1, <3>1 DEF GotOK
  <2> QED
    BY <2>2, <2>3, <2>4
<1> QED
  BY <1>4, <1>5, <1>6, <1>7, <1>8 DEF IInv

\* Requests arrive whole and in turn at each server, the clients wait on the
\* chan-ends they named, and the replies are theirs: for any number of
\* clients, chan-ends and commands.
THEOREM RequestsAndReplies == Spec => []IInv
<1>1. Init => IInv
  BY InitInv
<1>2. IInv /\ [Next]_vars => IInv'
  BY NextInv
<1> QED
  BY <1>1, <1>2, PTL DEF Spec

\* What a server has input is the request of one client, and every variable
\* has its type.
THEOREM ServersInvariant == Spec => []Inv
<1>1. IInv => Inv
  <2>1. SUFFICES ASSUME IInv, NEW s \in Servers, spc[s] \in Loop + 2 .. Down - 1
                 PROVE  /\ cmd[command[s][2]] = command[s][3]
                        /\ sender[s] = Address(sc[command[s][2]])
                        /\ ClientCode[cpc[command[s][2]]]
                              \in {"out_END", "in_response", "check_END"}
    BY DEF IInv, Inv, RequestWhole
  <2>2. spc[s] \in 7 .. 10 /\ spc[s] \in 6 .. 10 /\ ServingOK(s)
    BY <2>1, ServerFacts, ServerCodeIs DEF Loop
  <2>3. PICK c \in Clients :
         /\ sc[c] # Zero /\ sender[s] = Address(sc[c])
         /\ command[s] = Command(c, cmd[c])
         /\ spc[s] = 7 => cpc[c] \in {5, 6}
         /\ spc[s] \in {8, 9} => cpc[c] = 6
         /\ spc[s] = 10 => cpc[c] = 6 \/ cpc[c] = 7
    BY <2>2 DEF ServingOK
  <2>4. command[s][2] = c /\ command[s][3] = cmd[c]
    BY <2>3, WordsAre
  <2>5. spc[s] = 7 \/ spc[s] = 8 \/ spc[s] = 9 \/ spc[s] = 10
    BY <2>2
  <2>6. cpc[c] = 5 \/ cpc[c] = 6 \/ cpc[c] = 7
    BY <2>3, <2>5
  <2>7. ClientCode[cpc[c]] \in {"out_END", "in_response", "check_END"}
    BY <2>6, ClientCodeIs
  <2> QED
    BY <2>3, <2>4, <2>7
<1> QED
  BY <1>1, RequestsAndReplies, PTL

\* No client or server takes an exception, but a client for which there was no
\* chan-end.
THEOREM NobodyTraps == Spec => []NoTrap
<1>1. IInv => NoTrap
  BY DEF IInv, TrappedOK, NoTrap
<1> QED
  BY <1>1, RequestsAndReplies, PTL

\* Every response a client has received is that to its own command.
THEOREM RepliesAreRight == Spec => []RightReply
<1>1. IInv => RightReply
  BY DEF IInv, GotOK, RightReply
<1> QED
  BY <1>1, RequestsAndReplies, PTL
=============================================================================
