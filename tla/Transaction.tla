----------------------------- MODULE Transaction -----------------------------
(***************************************************************************)
(* The transacting channel calls of xcore_c_channel_transaction.h, one     *)
(* instruction at a time, by a core on each end of one channel.            *)
(*                                                                         *)
(* conv[e][t] is what end e does in its t-th transaction: it starts it as  *)
(* master or as slave, makes runs of t_chan_out_* or of t_chan_in_* calls  *)
(* and completes it.  Within a run only the first call can change the      *)
(* direction, so a run is a direction and the number of tokens its calls   *)
(* move together (0: only empty buffers), however they divide them.        *)
(***************************************************************************)
EXTENDS TokenLink, FiniteSets

CONSTANTS NumTrans,  \* bound: transactions each end makes
          MaxRuns,   \* bound: runs in one transaction
          MaxLen     \* bound: tokens in one run

ASSUME SizeAssumption ==
   /\ NumTrans \in Nat /\ MaxRuns \in Nat \ {0} /\ MaxLen \in Nat

VARIABLES conv,     \* conv[e][t]: the t-th transaction of end e
          trans,    \* trans[e]: the transaction e is in, or starts next
          run,      \* run[e]: its run; 0 before the transaction is initialised
          cnt,      \* cnt[e]: tokens of that run moved so far
          last_out, \* last_out[e]: that field of e's transacting_chanend_t
          half      \* half[e]: e is past the first instruction of the completion

local == <<conv, trans, run, cnt, last_out, half>>
vars == <<q, trap, conv, trans, run, cnt, last_out, half>>

Run == [dir : {"out", "in"}, n : 0 .. MaxLen]
Side == [role : {"master", "slave"},
         runs : UNION {[1 .. m -> Run] : m \in 0 .. MaxRuns}]

TypeOK == /\ LinkTypeOK
          /\ conv \in [End -> [1 .. NumTrans -> Side]]
          /\ trans \in [End -> 1 .. NumTrans + 1]
          /\ run \in [End -> 0 .. MaxRuns + 1]
          /\ cnt \in [End -> 0 .. MaxLen]
          /\ last_out \in [End -> BOOLEAN]
          /\ half \in [End -> BOOLEAN]

Start == /\ LinkInit
         /\ trans = [e \in End |-> 1]
         /\ run = [e \in End |-> 0]
         /\ cnt = [e \in End |-> 0]
         /\ last_out = [e \in End |-> FALSE]
         /\ half = [e \in End |-> FALSE]
Init == conv \in [End -> [1 .. NumTrans -> Side]] /\ Start

Busy(e) == ~trap[e] /\ trans[e] <= NumTrans
Cur(e) == conv[e][trans[e]]
InRun(e) == Busy(e) /\ run[e] \in 1 .. Len(Cur(e).runs)
CurRun(e) == Cur(e).runs[run[e]]

\* The m-th token of the run e is in.
Item(e, m) == <<(trans[e] - 1) * MaxRuns + run[e], m>>

\* Mutant: the END is input without checking that it is one.
CheckAnyToken(e, A) == /\ q[e] # << >>
                       /\ q' = [q EXCEPT ![e] = Tail(@)]
                       /\ UNCHANGED trap
                       /\ A

\* The check of an END, which traps when data is there instead.
Check(e, A) == \/ CheckCtEnd(e) /\ A
               \/ CheckCtEndTraps(e) /\ UNCHANGED local

(***************************************************************************)
(* The calls                                                               *)
(***************************************************************************)
\* While run[e] # 0, the handle is in tc and *c is 0.
Open(e, out) == /\ run' = [run EXCEPT ![e] = 1]
                /\ last_out' = [last_out EXCEPT ![e] = out]
                /\ UNCHANGED <<conv, trans, cnt, half>>

chan_init_transaction_master(e) ==
   /\ Busy(e) /\ run[e] = 0 /\ Cur(e).role = "master"
   /\ OutCtEnd(e) /\ Open(e, FALSE)

\* Mutant: the slave takes the right to output without the master's END.
SlaveDoesNotWait(e) ==
   /\ Busy(e) /\ run[e] = 0 /\ Cur(e).role = "slave"
   /\ Open(e, TRUE) /\ UNCHANGED <<q, trap>>

chan_init_transaction_slave(e) ==
   /\ Busy(e) /\ run[e] = 0 /\ Cur(e).role = "slave"
   /\ Check(e, Open(e, TRUE))

\* _t_chan_change_to_output and _t_chan_change_to_input.
SetLastOut(e, out) == /\ last_out' = [last_out EXCEPT ![e] = out]
                      /\ UNCHANGED <<conv, trans, run, cnt, half>>
\* Mutants: last_out changes with no END checked, or with none sent.
ChangeToOutputUnchecked(e) == ~last_out[e] /\ SetLastOut(e, TRUE) /\ UNCHANGED <<q, trap>>
ChangeToInputUnsent(e) == last_out[e] /\ SetLastOut(e, FALSE) /\ UNCHANGED <<q, trap>>

ChangeToOutput(e) == ~last_out[e] /\ Check(e, SetLastOut(e, TRUE))
ChangeToInput(e) == last_out[e] /\ OutCtEnd(e) /\ SetLastOut(e, FALSE)

Moved(e) == /\ cnt' = [cnt EXCEPT ![e] = @ + 1]
            /\ UNCHANGED <<conv, trans, run, last_out, half>>

t_chan_out(e) ==
   /\ InRun(e) /\ CurRun(e).dir = "out"
   /\ \/ ChangeToOutput(e)
      \/ /\ last_out[e] /\ cnt[e] < CurRun(e).n
         /\ OutToken(e, Item(e, cnt[e] + 1)) /\ Moved(e)

t_chan_in(e) ==
   /\ InRun(e) /\ CurRun(e).dir = "in"
   /\ \/ ChangeToInput(e)
      \/ /\ ~last_out[e] /\ cnt[e] < CurRun(e).n
         /\ \/ InToken(e) /\ Moved(e)
            \/ InTokenTraps(e) /\ UNCHANGED local

\* The last call of a run returns.
RunReturns(e) == /\ InRun(e)
                 /\ cnt[e] = CurRun(e).n
                 /\ last_out[e] = (CurRun(e).dir = "out")
                 /\ run' = [run EXCEPT ![e] = @ + 1]
                 /\ cnt' = [cnt EXCEPT ![e] = 0]
                 /\ UNCHANGED <<q, trap, conv, trans, last_out, half>>

Halfway(e) == /\ ~half[e]
              /\ half' = [half EXCEPT ![e] = TRUE]
              /\ UNCHANGED <<conv, trans, run, cnt, last_out>>
Close(e) == /\ half[e]
            /\ half' = [half EXCEPT ![e] = FALSE]
            /\ run' = [run EXCEPT ![e] = 0]
            /\ trans' = [trans EXCEPT ![e] = @ + 1]
            /\ UNCHANGED <<conv, cnt, last_out>>

\* Mutant: both ends poll for the other's END before they send their own.
CompletePollsFirst(e) ==
   /\ Busy(e) /\ run[e] = Len(Cur(e).runs) + 1
   /\ \/ half[e] /\ OutCtEnd(e) /\ Close(e)
      \/ ~half[e] /\ Check(e, Halfway(e))
      \/ ~half[e] /\ q[e] = << >> /\ UNCHANGED vars

chan_complete_transaction(e) ==
   /\ Busy(e) /\ run[e] = Len(Cur(e).runs) + 1
   /\ \/ last_out[e] # half[e] /\ OutCtEnd(e) /\ (Halfway(e) \/ Close(e))
      \/ last_out[e] = half[e] /\ Check(e, Halfway(e) \/ Close(e))

Step(e) == \/ chan_init_transaction_master(e)
           \/ chan_init_transaction_slave(e)
           \/ t_chan_out(e)
           \/ t_chan_in(e)
           \/ RunReturns(e)
           \/ chan_complete_transaction(e)

AllDone == \A e \in End : trans[e] = NumTrans + 1
Finished == AllDone /\ UNCHANGED vars

Next == (\E e \in End : Step(e)) \/ Finished

\* Any two conversations.  Cores are issued instructions in rotation: each
\* eventually takes its step.
Spec == Init /\ [][Next]_vars
Fairness == \A e \in End : WF_vars(Step(e))

\* The conversations the API is meant for: one end is master, the other slave,
\* and every output run meets an input run of its length.
Meets(r1, r2) == r1.dir # r2.dir /\ r1.n = r2.n
Mirrors(s1, s2) == /\ s1.role # s2.role
                   /\ Len(s1.runs) = Len(s2.runs)
                   /\ \A i \in 1 .. Len(s1.runs) : Meets(s1.runs[i], s2.runs[i])
Matched == \A t \in 1 .. NumTrans : Mirrors(conv["a"][t], conv["b"][t])

(***************************************************************************)
(* Properties                                                              *)
(***************************************************************************)
\* Matching transactions never raise an exception: the END tokens that change
\* the direction are checked exactly where they are sent (last_out).
NoTrap == Matched => \A e \in End : ~trap[e]

\* In matching transactions the right to output is in one place: with one end of the transaction, or
\* carried to an end by an END token, and then that is the only END in flight.
Holders == {e \in End : last_out[e]}
Carriers == {x \in End \X (1 .. Cap) : x[2] <= Len(q[x[1]]) /\ q[x[1]][x[2]] = CtEnd}
OneOutputRight ==
   (Matched /\ trans["a"] = trans["b"] /\ \A e \in End : run[e] # 0 /\ ~half[e]) =>
      Cardinality(Holders) + Cardinality(Carriers) = 1

\* Once both ends have completed a matching transaction nothing of it is left
\* in either buffer: the chan-ends may be used by chan_* calls again, or freed.
QuiescentBetween ==
   (Matched /\ trans["a"] = trans["b"] /\ \A e \in End : run[e] = 0) =>
      \A e \in End : q[e] = << >>

\* Every variable has its type, the right to output is in one place, and
\* completed transactions leave nothing behind.
Inv == TypeOK /\ OneOutputRight /\ QuiescentBetween

\* The data on a wire is what is in a buffer before the first END.
BeforeEnd(s, n) == /\ \A i \in 1 .. n : s[i] # CtEnd
                   /\ n < Len(s) => s[n + 1] = CtEnd
Payload(s) == SubSeq(s, 1, CHOOSE n \in 0 .. Len(s) : BeforeEnd(s, n))
D == INSTANCE Dialogue WITH wire <- [e \in End |-> Payload(q[e])]

\* Matching transactions are a conversation on data wires: whatever the END
\* tokens do, every token is output in the sender's turn, input in its place,
\* and no end leaves a transaction before both have moved all of its data.
TakesTurns == D!DSpec

\* Matching transactions all complete.
Terminates == Matched => <>AllDone

\* Conversations in which every transaction is started as master by one end and
\* as slave by the other, and every run moves data and turns the direction of
\* the one before it.
Alternating(s) == \A i \in 1 .. Len(s.runs) - 1 : s.runs[i].dir # s.runs[i + 1].dir
Regular == \A t \in 1 .. NumTrans :
              /\ conv["a"][t].role # conv["b"][t].role
              /\ \A e \in End : /\ Alternating(conv[e][t])
                                /\ \A i \in 1 .. Len(conv[e][t].runs) : conv[e][t].runs[i].n > 0

\* Two transactions that both ends completed were a match, run by run, whatever
\* the rest of the conversations is: at a mismatch a core traps or waits inside
\* that transaction for ever.  A run of empty buffers moves nothing, but its
\* ENDs count (_t_chan_change_to_output, _t_chan_change_to_input): with such
\* runs, two ends that disagree on them can be a transaction out of step.
MismatchNeverSilent ==
   Regular => \A t \in 1 .. NumTrans :
                 t < trans["a"] /\ t < trans["b"] => Mirrors(conv["a"][t], conv["b"][t])

\* The lengths of the runs of end e in direction dir that move data, in order.
DataRuns(e, dir) ==
   LET upto[t \in 0 .. NumTrans] ==
          IF t = 0 THEN << >>
          ELSE upto[t - 1] \o SelectSeq(conv[e][t].runs, LAMBDA r : r.dir = dir /\ r.n > 0)
   IN  [i \in DOMAIN upto[NumTrans] |-> upto[NumTrans][i].n]

\* Whatever the ends disagree on, even on who is master: if both programs end
\* without an exception and leave no data in a buffer, though ENDs that are out
\* of step may be left, then every run of data one end output was input by the
\* other as one run, in order.  Data is never lost, split, joined or taken for
\* other data without a trace.
NothingLost ==
   (/\ AllDone /\ \A e \in End : \A i \in DOMAIN q[e] : q[e][i] = CtEnd
    /\ \A e \in End : \A t \in 1 .. NumTrans : Alternating(conv[e][t])) =>
      \A e \in End : DataRuns(e, "out") = DataRuns(Other(e), "in")
=============================================================================
