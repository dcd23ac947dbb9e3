--------------------------- MODULE MCTransaction ---------------------------
(***************************************************************************)
(* The conversations TLC explores: two matching transactions, the second   *)
(* of them brief; brief first transactions that need not match, whose ends *)
(* go on with one of at most one run each; first transactions that need    *)
(* not match, of runs that all move data; and two conversations that       *)
(* differ in empty runs by a whole transaction.                            *)
(***************************************************************************)
EXTENDS Transaction

ASSUME TwoTransactions == NumTrans = 2
ASSUME RunsOfShifted == MaxRuns >= 5 /\ MaxLen >= 2

UpTo(m, n) == [role : {"master", "slave"},
               runs : UNION {[1 .. k -> [dir : {"out", "in"}, n : 0 .. n]] : k \in 0 .. m}]
Mirrored(S) == {p \in S \X S : Mirrors(p[1], p[2])}
Moving(S) == {s \in S : Alternating(s) /\ \A i \in 1 .. Len(s.runs) : s.runs[i].n > 0}

Brief == UpTo(2, 1)
LastSide(role) == {s \in UpTo(1, 1) : s.role = role}

Conv(s, t, u, v) == conv = [a |-> <<s, u>>, b |-> <<t, v>>]
MatchedConv == \E p \in Mirrored(UpTo(2, 2)), r \in Mirrored(Brief) : Conv(p[1], p[2], r[1], r[2])
AnyConv == \E s, t \in Brief, u \in LastSide("master"), v \in LastSide("slave") : Conv(s, t, u, v)
MovingConv == \E s, t \in Moving(UpTo(2, 2)), u \in Moving(LastSide("master")),
                 v \in Moving(LastSide("slave")) : Conv(s, t, u, v)

\* The first transaction of b and the second of a are made longer by empty
\* runs: the one token that a outputs in its second is input in b's first.
Empty(dir) == [dir |-> dir, n |-> 0]
One(dir) == [dir |-> dir, n |-> 1]
ShiftedConv ==
   Conv([role |-> "master", runs |-> << >>],
        [role |-> "slave", runs |-> <<Empty("in"), Empty("out"), Empty("in"),
                                      Empty("out"), One("in")>>],
        [role |-> "master", runs |-> <<One("out"), Empty("in"), Empty("out"),
                                       Empty("in"), Empty("out")>>],
        [role |-> "slave", runs |-> << >>])

MCInit == (MatchedConv \/ AnyConv \/ MovingConv \/ ShiftedConv) /\ Start
MCSpec == MCInit /\ [][Next]_vars /\ Fairness
=============================================================================
