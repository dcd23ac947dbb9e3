----------------------------- MODULE Rendezvous -----------------------------
(***************************************************************************)
(* What chan_out_* and chan_in_* promise when the two ends make matching   *)
(* calls: a synchronous transfer.  Items arrive in order in the buffer the *)
(* receiver passed, and neither call returns before the whole transfer has *)
(* happened.  There is no queue and no control token here.  Of programs    *)
(* that do not match nothing is said.                                      *)
(***************************************************************************)
EXTENDS Naturals

CONSTANTS NumCalls,  \* calls each end makes
          MaxLen     \* data tokens in the longest call

VARIABLES prog,  \* prog[e][k]: the k-th call end e makes
          call,  \* call[e]: the call end e is making (NumCalls + 1: none left)
          buf    \* buf[e][k][m]: the m-th slot of the buffer of e's k-th call

avars == <<prog, call, buf>>

Party == {"a", "b"}
Partner(e) == IF e = "a" THEN "b" ELSE "a"

Call == [dir : {"out", "in"}, n : 0 .. MaxLen]
Item(k, m) == <<k, m>>
Blank == <<0, 1>>     \* a slot no input has written yet

Matched == \A k \in 1 .. NumCalls :
              /\ prog["a"][k].dir # prog["b"][k].dir
              /\ prog["a"][k].n = prog["b"][k].n

RInit == /\ prog \in [Party -> [1 .. NumCalls -> Call]]
         /\ call = [e \in Party |-> 1]
         /\ buf = [e \in Party |-> [k \in 1 .. NumCalls |->
                                      [m \in 1 .. MaxLen |-> Blank]]]

\* The buffer of the receiver of call k holds the whole of the call's data.
Delivered(k) == \A e \in Party : prog[e][k].dir = "in" =>
                   \A m \in 1 .. prog[e][k].n : buf[e][k][m] = Item(k, m)

\* The next item of the call both ends are making reaches the receiver.
Transfer(e) == /\ call[e] <= NumCalls
               /\ call[Partner(e)] = call[e]
               /\ prog[e][call[e]].dir = "in"
               /\ \E m \in 1 .. prog[e][call[e]].n :
                     /\ buf[e][call[e]][m] = Blank
                     /\ \A j \in 1 .. m - 1 : buf[e][call[e]][j] # Blank
                     /\ buf' = [buf EXCEPT ![e][call[e]][m] = Item(call[e], m)]
               /\ UNCHANGED <<prog, call>>

Return(e) == /\ call[e] <= NumCalls
             /\ call[Partner(e)] >= call[e]
             /\ Delivered(call[e])
             /\ call' = [call EXCEPT ![e] = @ + 1]
             /\ UNCHANGED <<prog, buf>>

Unspecified == ~Matched /\ UNCHANGED prog

RNext == (\E e \in Party : Transfer(e) \/ Return(e)) \/ Unspecified

RSpec == RInit /\ [][RNext]_avars
=============================================================================
