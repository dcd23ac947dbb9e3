------------------------------ MODULE Dialogue ------------------------------
(***************************************************************************)
(* What a transaction promises when the two ends make matching calls: a    *)
(* conversation over data wires on which one end speaks at a time.  Which  *)
(* end that is follows from the calls alone; there is no control token, no *)
(* capacity and no last_out here.  Of conversations that do not match      *)
(* nothing is said.                                                        *)
(***************************************************************************)
EXTENDS Naturals, Sequences

CONSTANTS NumTrans,  \* transactions each end makes
          MaxRuns,   \* runs in one transaction
          MaxLen     \* tokens in one run

VARIABLES conv,   \* conv[e][t]: the t-th transaction of end e
          trans,  \* trans[e]: the transaction e is in, or starts next
          run,    \* run[e]: its run; 0 before the transaction is initialised
          cnt,    \* cnt[e]: tokens of that run moved so far
          wire    \* wire[e]: data on its way to e

dvars == <<conv, trans, run, cnt, wire>>

Speaker == {"a", "b"}
Partner(e) == IF e = "a" THEN "b" ELSE "a"

Run == [dir : {"out", "in"}, n : 0 .. MaxLen]
Side == [role : {"master", "slave"},
         runs : UNION {[1 .. m -> Run] : m \in 0 .. MaxRuns}]

Meets(r1, r2) == r1.dir # r2.dir /\ r1.n = r2.n
Mirrors(s1, s2) == /\ s1.role # s2.role
                   /\ Len(s1.runs) = Len(s2.runs)
                   /\ \A i \in 1 .. Len(s1.runs) : Meets(s1.runs[i], s2.runs[i])
Matched == \A t \in 1 .. NumTrans : Mirrors(conv["a"][t], conv["b"][t])

DInit == /\ conv \in [Speaker -> [1 .. NumTrans -> Side]]
         /\ trans = [e \in Speaker |-> 1]
         /\ run = [e \in Speaker |-> 0]
         /\ cnt = [e \in Speaker |-> 0]
         /\ wire = [e \in Speaker |-> << >>]

Talking(e) == trans[e] <= NumTrans
Cur(e) == conv[e][trans[e]]
InRun(e) == Talking(e) /\ run[e] \in 1 .. Len(Cur(e).runs)
CurRun(e) == Cur(e).runs[run[e]]
AtEnd(e) == Talking(e) /\ run[e] = Len(Cur(e).runs) + 1
Item(e, m) == <<(trans[e] - 1) * MaxRuns + run[e], m>>

\* The partner has begun the transaction e is in, or is past it.
Followed(e) == \/ trans[Partner(e)] = trans[e] /\ run[Partner(e)] > 0
               \/ trans[Partner(e)] > trans[e]

\* The slave begins after the master.
Begin(e) == /\ Talking(e) /\ run[e] = 0
            /\ Cur(e).role = "slave" => Followed(e)
            /\ run' = [run EXCEPT ![e] = 1]
            /\ UNCHANGED <<conv, trans, cnt, wire>>

\* The first token of an end that was the listener, or of either end in a
\* transaction: the partner has stopped speaking and is in the run that
\* receives it.
TakesTurn(e) == cnt[e] = 0 /\ (run[e] > 1 => Cur(e).runs[run[e] - 1].dir = "in")

Speak(e) == /\ InRun(e) /\ CurRun(e).dir = "out" /\ cnt[e] < CurRun(e).n
            /\ wire[e] = << >>
            /\ trans[Partner(e)] = trans[e]
            /\ TakesTurn(e) => run[Partner(e)] = run[e]
            /\ wire' = [wire EXCEPT ![Partner(e)] = Append(@, Item(e, cnt[e] + 1))]
            /\ cnt' = [cnt EXCEPT ![e] = @ + 1]
            /\ UNCHANGED <<conv, trans, run>>

Listen(e) == /\ InRun(e) /\ CurRun(e).dir = "in" /\ cnt[e] < CurRun(e).n
             /\ wire[e] # << >> /\ Head(wire[e]) = Item(e, cnt[e] + 1)
             /\ wire' = [wire EXCEPT ![e] = Tail(@)]
             /\ cnt' = [cnt EXCEPT ![e] = @ + 1]
             /\ UNCHANGED <<conv, trans, run>>

NextRun(e) == /\ InRun(e) /\ cnt[e] = CurRun(e).n
              /\ run' = [run EXCEPT ![e] = @ + 1]
              /\ cnt' = [cnt EXCEPT ![e] = 0]
              /\ UNCHANGED <<conv, trans, wire>>

\* Neither end leaves before both have moved all of the transaction's data.
Complete(e) == /\ AtEnd(e)
               /\ AtEnd(Partner(e)) \/ trans[Partner(e)] > trans[e]
               /\ \A f \in Speaker : wire[f] = << >>
               /\ trans' = [trans EXCEPT ![e] = @ + 1]
               /\ run' = [run EXCEPT ![e] = 0]
               /\ UNCHANGED <<conv, cnt, wire>>

Unspecified == ~Matched /\ UNCHANGED conv

DNext == \/ \E e \in Speaker : \/ Begin(e) \/ Speak(e) \/ Listen(e)
                               \/ NextRun(e) \/ Complete(e)
         \/ Unspecified

DSpec == DInit /\ [][DNext]_dvars
=============================================================================
