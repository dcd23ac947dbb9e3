-------------------------- MODULE MCClientServer --------------------------
(***************************************************************************)
(* The programs TLC explores.  Two clients of tile 0 share its server with *)
(* a client of tile 1, with or without a chan-end for each of them; the    *)
(* clients of the two tiles run the program of tests/client_server; and a  *)
(* client on each tile sends any command, one of them after another.       *)
(***************************************************************************)
EXTENDS ClientServer, TLC

ASSUME ThreeClients == NumClients = 3 /\ NumSpare = 3 /\ MaxCommands >= 3

Send(r, s) == [remote |-> r, stop |-> s]
Program(x, y, z) == (0 :> x) @@ (1 :> y) @@ (2 :> z)

Rivals == {Program(<<Send(FALSE, FALSE)>>, <<Send(TRUE, x)>>, <<Send(y, FALSE)>>) :
              x \in BOOLEAN, y \in BOOLEAN}
TestProgram == <<Send(FALSE, FALSE), Send(TRUE, FALSE), Send(FALSE, TRUE)>>
Test == {Program(TestProgram, TestProgram, << >>)}
Pairs == {Program(<<Send(x, FALSE), y>>, <<z>>, << >>) : x \in BOOLEAN, y \in Cmd, z \in Cmd}

MCInit == /\ Start
          /\ \/ pool = Spare /\ prog \in Rivals \cup Test \cup Pairs
             \/ pool = {3, 4} /\ prog \in Rivals
MCSpec == MCInit /\ [][Next]_vars /\ Fairness
=============================================================================
