----------------------------- MODULE TokenLink -----------------------------
(***************************************************************************)
(* A channel of the xCORE network as xcore_c_chan_impl.h drives it: two    *)
(* chan-ends whose destinations are each other.  A token sent from one end *)
(* lands in the input buffer of the other, which holds Cap tokens; an      *)
(* instruction that finds no room, or no token, pauses its logical core.   *)
(* An input of the wrong kind raises ET_ILLEGAL_RESOURCE.                  *)
(***************************************************************************)
EXTENDS Naturals, Sequences

CONSTANT Cap    \* tokens a chan-end buffers (a chip-dependent number)

ASSUME CapAssumption == Cap \in Nat \ {0}

VARIABLES q,    \* q[e]: tokens buffered at chan-end e and not yet input
          trap  \* trap[e]: the core on e took an exception inside a call

End == {"a", "b"}
Other(e) == IF e = "a" THEN "b" ELSE "a"

\* A data token names the call that sends it and its place in that call, so
\* that no two data tokens are equal; CtEnd is the XS1_CT_END control token.
Token == Nat \X Nat
CtEnd == <<0, 0>>

LinkInit == /\ q = [e \in End |-> << >>]
            /\ trap = [e \in End |-> FALSE]

LinkTypeOK == /\ q \in [End -> Seq(Token)]
              /\ \A e \in End : Len(q[e]) <= Cap
              /\ trap \in [End -> BOOLEAN]

\* outct / outt: append a token to the partner's buffer, when it has room.
OutToken(e, t) == /\ Len(q[Other(e)]) < Cap
                  /\ q' = [q EXCEPT ![Other(e)] = Append(@, t)]
                  /\ UNCHANGED trap

OutCtEnd(e) == OutToken(e, CtEnd)

\* chkct END: consume an END, or trap on a data token.
CheckCtEnd(e) == /\ q[e] # << >>
                 /\ Head(q[e]) = CtEnd
                 /\ q' = [q EXCEPT ![e] = Tail(@)]
                 /\ UNCHANGED trap

CheckCtEndTraps(e) == /\ q[e] # << >>
                      /\ Head(q[e]) # CtEnd
                      /\ trap' = [trap EXCEPT ![e] = TRUE]
                      /\ UNCHANGED q

\* int: consume a data token, or trap on an END.
InToken(e) == /\ q[e] # << >>
              /\ Head(q[e]) # CtEnd
              /\ q' = [q EXCEPT ![e] = Tail(@)]
              /\ UNCHANGED trap

InTokenTraps(e) == /\ q[e] # << >>
                   /\ Head(q[e]) = CtEnd
                   /\ trap' = [trap EXCEPT ![e] = TRUE]
                   /\ UNCHANGED q
=============================================================================
