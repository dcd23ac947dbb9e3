----------------------------- MODULE MCChannel -----------------------------
(***************************************************************************)
(* The programs TLC explores: every pair of matching programs of NumCalls  *)
(* calls, and pairs that need not match in their first two calls, of at    *)
(* most ShortLen tokens, and make matching empty calls after them.         *)
(***************************************************************************)
EXTENDS Channel

CONSTANT ShortLen  \* bound: tokens in a call that need not be matched

ASSUME ShortAssumption == ShortLen \in 0 .. MaxLen

Opposite(c) == [c EXCEPT !.dir = IF @ = "in" THEN "out" ELSE "in"]
Short == {c \in Call : c.n <= ShortLen}
Empty == {c \in Call : c.n = 0}

MatchedProg == {[a |-> p, b |-> [k \in 1 .. NumCalls |-> Opposite(p[k])]] :
                   p \in [1 .. NumCalls -> Call]}

\* From the third call on, a makes the calls of rest and b meets them.
AnyProg == {[a |-> [k \in 1 .. NumCalls |-> IF k <= 2 THEN p[k] ELSE rest],
             b |-> [k \in 1 .. NumCalls |-> IF k <= 2 THEN r[k] ELSE Opposite(rest)]] :
               p \in [1 .. 2 -> Short], r \in [1 .. 2 -> Short], rest \in Empty}

MCInit == prog \in MatchedProg \cup AnyProg /\ Start
MCSpec == MCInit /\ [][Next]_vars /\ Fairness
=============================================================================
