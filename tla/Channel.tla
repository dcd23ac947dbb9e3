------------------------------ MODULE Channel ------------------------------
(***************************************************************************)
(* The handshaken channel calls of xcore_c_channel.h, one instruction at a *)
(* time, by a core on each end of one channel.  Each end makes NumCalls    *)
(* calls, in the order its program prog[e] gives.  chan_out_word, _byte,   *)
(* _buf_word and _buf_byte differ only in the number of tokens they send,  *)
(* so a call is a direction and a token count (a word is four tokens).     *)
(*                                                                         *)
(*   pc     chan_out_*                   chan_in_*                         *)
(*   0      outct END                    chkct END                         *)
(*   1      chkct END                    outct END                         *)
(*   2      n times outt, outct END      n times int, chkct END            *)
(*   3      chkct END, return            outct END, return                 *)
(***************************************************************************)
EXTENDS TokenLink

CONSTANTS NumCalls,  \* bound: calls each end makes
          MaxLen     \* bound: data tokens in the longest call

ASSUME SizeAssumption == NumCalls \in Nat /\ MaxLen \in Nat

VARIABLES prog,  \* prog[e][k]: the k-th call end e makes
          call,  \* call[e]: the call end e is making (NumCalls + 1: none left)
          pc,    \* pc[e]: progress within that call, as tabled above
          cnt,   \* cnt[e]: data tokens of that call output or input so far
          buf    \* buf[e][k][m]: the m-th slot of the buffer of e's k-th call

local == <<prog, call, pc, cnt, buf>>
vars == <<q, trap, prog, call, pc, cnt, buf>>

Call == [dir : {"out", "in"}, n : 0 .. MaxLen]
Item(k, m) == <<k, m>>
Blank == <<0, 1>>     \* a slot no input has written yet

TypeOK == /\ LinkTypeOK
          /\ prog \in [End -> [1 .. NumCalls -> Call]]
          /\ call \in [End -> 1 .. NumCalls + 1]
          /\ pc \in [End -> 0 .. 3]
          /\ cnt \in [End -> 0 .. MaxLen]
          /\ buf \in [End -> [1 .. NumCalls -> [1 .. MaxLen -> Token]]]

Start == /\ LinkInit
         /\ call = [e \in End |-> 1]
         /\ pc = [e \in End |-> 0]
         /\ cnt = [e \in End |-> 0]
         /\ buf = [e \in End |-> [k \in 1 .. NumCalls |->
                                    [m \in 1 .. MaxLen |-> Blank]]]
Init == prog \in [End -> [1 .. NumCalls -> Call]] /\ Start

(***************************************************************************)
(* Instructions of a call                                                  *)
(***************************************************************************)
Busy(e) == ~trap[e] /\ call[e] <= NumCalls
Cur(e) == prog[e][call[e]]

Advance(e) == /\ pc[e] < 3
              /\ pc' = [pc EXCEPT ![e] = @ + 1]
              /\ UNCHANGED <<prog, call, cnt, buf>>

Return(e) == /\ pc[e] = 3
             /\ pc' = [pc EXCEPT ![e] = 0]
             /\ cnt' = [cnt EXCEPT ![e] = 0]
             /\ call' = [call EXCEPT ![e] = @ + 1]
             /\ UNCHANGED <<prog, buf>>

\* At the first instruction of the call or at the one that follows its data.
AtOpening(e) == pc[e] = 0 \/ (pc[e] = 2 /\ cnt[e] = Cur(e).n)
\* At the second or at the last instruction of the call.
AtAnswer(e) == pc[e] \in {1, 3}
AtData(e) == pc[e] = 2 /\ cnt[e] < Cur(e).n

OutHandshake(e) == OutCtEnd(e) /\ (Advance(e) \/ Return(e))
CheckHandshake(e) == \/ CheckCtEnd(e) /\ (Advance(e) \/ Return(e))
                     \/ CheckCtEndTraps(e) /\ UNCHANGED local

OutData(e) == /\ OutToken(e, Item(call[e], cnt[e] + 1))
              /\ cnt' = [cnt EXCEPT ![e] = @ + 1]
              /\ UNCHANGED <<prog, call, pc, buf>>

\* Mutant: the receiving loop does not advance its buffer index.
InDataSameSlot(e) == \/ /\ InToken(e)
                        /\ buf' = [buf EXCEPT ![e][call[e]][1] = Head(q[e])]
                        /\ cnt' = [cnt EXCEPT ![e] = @ + 1]
                        /\ UNCHANGED <<prog, call, pc>>
                     \/ InTokenTraps(e) /\ UNCHANGED local

InData(e) == \/ /\ InToken(e)
                /\ buf' = [buf EXCEPT ![e][call[e]][cnt[e] + 1] = Head(q[e])]
                /\ cnt' = [cnt EXCEPT ![e] = @ + 1]
                /\ UNCHANGED <<prog, call, pc>>
             \/ InTokenTraps(e) /\ UNCHANGED local

(***************************************************************************)
(* The calls                                                               *)
(***************************************************************************)
\* Mutant: the closing END is sent before the last token.
ChanOutEarlyEnd(e) == /\ Busy(e) /\ Cur(e).dir = "out"
                      /\ \/ /\ pc[e] = 0 \/ (pc[e] = 2 /\ cnt[e] + 1 = Cur(e).n)
                            /\ OutHandshake(e)
                         \/ AtAnswer(e) /\ CheckHandshake(e)
                         \/ AtData(e) /\ OutData(e)

\* Mutant: the output returns without the check that closes the handshake.
ChanOutNoFinalCheck(e) == /\ Busy(e) /\ Cur(e).dir = "out"
                          /\ \/ AtOpening(e) /\ OutHandshake(e)
                             \/ pc[e] = 1 /\ CheckHandshake(e)
                             \/ pc[e] = 3 /\ Return(e) /\ UNCHANGED <<q, trap>>
                             \/ AtData(e) /\ OutData(e)

\* Mutant: the output polls for the input's END before it sends its own.
ChanOutPollsFirst(e) == /\ Busy(e) /\ Cur(e).dir = "out"
                        /\ \/ AtOpening(e) /\ CheckHandshake(e)
                           \/ AtOpening(e) /\ q[e] = << >> /\ UNCHANGED vars
                           \/ AtAnswer(e) /\ OutHandshake(e)
                           \/ AtData(e) /\ OutData(e)

ChanOut(e) == /\ Busy(e) /\ Cur(e).dir = "out"
              /\ \/ AtOpening(e) /\ OutHandshake(e)
                 \/ AtAnswer(e) /\ CheckHandshake(e)
                 \/ AtData(e) /\ OutData(e)

ChanIn(e) == /\ Busy(e) /\ Cur(e).dir = "in"
             /\ \/ AtOpening(e) /\ CheckHandshake(e)
                \/ AtAnswer(e) /\ OutHandshake(e)
                \/ AtData(e) /\ InData(e)

AllDone == \A e \in End : call[e] = NumCalls + 1
Finished == AllDone /\ UNCHANGED vars

Next == \/ \E e \in End : ChanOut(e) \/ ChanIn(e)
        \/ Finished

\* A core is issued instructions in a fixed rotation with the other cores of
\* its tile, so one that can take its next instruction eventually does.
Fairness == \A e \in End : WF_vars(ChanOut(e) \/ ChanIn(e))

\* Any two programs.
Spec == Init /\ [][Next]_vars

\* The programs the API is meant for: every output of one end is met by an
\* input of the same number of tokens at the other.
Matched == \A k \in 1 .. NumCalls :
              /\ prog["a"][k].dir # prog["b"][k].dir
              /\ prog["a"][k].n = prog["b"][k].n

(***************************************************************************)
(* Properties                                                              *)
(***************************************************************************)
\* Matching calls never raise an exception: no check meets data, no input
\* meets an END, whatever the interleaving (chan_out_*, chan_in_*).
NoTrap == Matched => \A e \in End : ~trap[e]

\* When neither end is inside one of its matching calls, both buffers are
\* empty: nothing of a call is left for the next one to read, and chan_free may
\* free both ends without a handshake of its own, as its comment claims.
QuiescentBetweenCalls ==
   (/\ Matched
    /\ call["a"] = call["b"]
    /\ \A e \in End : pc[e] = 0) => \A e \in End : q[e] = << >>

\* Every variable has its type, for any two programs, and matching calls leave
\* nothing behind.
Inv == TypeOK /\ QuiescentBetweenCalls

\* A call that returned error_none moved its data intact: it met a call of the
\* other direction and the same length, and the input's buffer holds exactly
\* what was output.  The one exception is an output that met an empty output:
\* both return only if both are empty, and otherwise the core that made the
\* empty one is left to trap (ET_ILLEGAL_RESOURCE, "channel handshaking
\* corrupted").
Holds(e, k) == \A m \in 1 .. prog[e][k].n : buf[e][k][m] = Item(k, m)
Agree(k) == /\ prog["a"][k].dir # prog["b"][k].dir
            /\ prog["a"][k].n = prog["b"][k].n
            /\ \A e \in End : prog[e][k].dir = "in" => Holds(e, k)
MetEmptyOutput(e, f, k) == /\ prog[e][k].dir = "out"
                           /\ prog[f][k] = [dir |-> "out", n |-> 0]
                           /\ k < call[f] => prog[e][k].n = 0
MismatchNeverSilent ==
   \A e \in End : \A k \in 1 .. NumCalls :
      k < call[e] => Agree(k) \/ MetEmptyOutput(e, Other(e), k)

\* With matching calls, a channel call is a synchronous transfer.
R == INSTANCE Rendezvous WITH prog <- prog, call <- call, buf <- buf
Synchronous == R!RSpec

\* With matching calls, every call eventually returns at both ends.
Terminates == Matched => <>AllDone

(***************************************************************************)
(* The inductive invariant of matching calls, which ChannelProofs proves:  *)
(* the states of the two cores determine what each buffer holds.           *)
(***************************************************************************)
\* The count of each core: zero until the data, all of it after the data.
CountInv ==
   \A e \in End : /\ call[e] = NumCalls + 1 => pc[e] = 0
                  /\ pc[e] < 2 => cnt[e] = 0
                  /\ pc[e] = 2 => cnt[e] <= Cur(e).n
                  /\ pc[e] = 3 => cnt[e] = Cur(e).n

\* What r still has to input of the data that its partner s has output,
\* followed by the closing END when fin is 1.
InFlight(s, r, fin) ==
   /\ cnt[r] <= cnt[s]
   /\ Len(q[r]) = cnt[s] - cnt[r] + fin
   /\ \A m \in 1 .. cnt[s] - cnt[r] : q[r][m] = Item(call[s], cnt[r] + m)
   /\ fin = 1 => q[r][Len(q[r])] = CtEnd

\* Both cores are in the same call, s outputs and r inputs.
Together(s, r) ==
   /\ call[r] = call[s] /\ call[s] <= NumCalls /\ Cur(s).dir = "out"
   /\ \/ pc[s] = 0 /\ pc[r] = 0 /\ q[s] = << >>     /\ q[r] = << >>
      \/ pc[s] = 1 /\ pc[r] = 0 /\ q[s] = << >>     /\ q[r] = <<CtEnd>>
      \/ pc[s] = 1 /\ pc[r] = 1 /\ q[s] = << >>     /\ q[r] = << >>
      \/ pc[s] = 1 /\ pc[r] = 2 /\ q[s] = <<CtEnd>> /\ q[r] = << >> /\ cnt[r] = 0
      \/ pc[s] = 2 /\ pc[r] = 2 /\ q[s] = << >>     /\ InFlight(s, r, 0)
      \/ pc[s] = 3 /\ pc[r] = 2 /\ q[s] = << >>     /\ InFlight(s, r, 1)
      \/ pc[s] = 3 /\ pc[r] = 3 /\ q[s] = << >>     /\ q[r] = << >>

\* r returned from its input; s has yet to consume the END r answered with.
\* r may have opened an output of its own, whose END queues behind that one.
Ahead(s, r) ==
   /\ call[r] = call[s] + 1 /\ Cur(s).dir = "out"
   /\ pc[s] = 3 /\ q[r] = << >>
   /\ \/ pc[r] = 0 /\ q[s] = <<CtEnd>>
      \/ /\ call[r] <= NumCalls /\ Cur(r).dir = "out" /\ pc[r] = 1
         /\ q[s] = <<CtEnd, CtEnd>>

FlowInv == \/ \E s \in End : Together(s, Other(s)) \/ Ahead(s, Other(s))
           \/ AllDone /\ \A e \in End : q[e] = << >>

BufferInv ==
   \A e \in End : \A k \in 1 .. NumCalls : \A m \in 1 .. prog[e][k].n :
      prog[e][k].dir = "in" =>
         buf[e][k][m] = IF k < call[e] \/ (k = call[e] /\ m <= cnt[e])
                        THEN Item(k, m) ELSE Blank

IInv == TypeOK /\ Matched /\ NoTrap /\ CountInv /\ FlowInv /\ BufferInv
=============================================================================
