---------------------------- MODULE ChannelProofs ----------------------------
(***************************************************************************)
(* Theorems about Channel.tla, for every number of calls, every call       *)
(* length and every buffer capacity.                                       *)
(***************************************************************************)
EXTENDS Channel, SequenceTheorems, TLAPS

(***************************************************************************)
(* Queues                                                                  *)
(***************************************************************************)
\* Appending a token: the length grows by one, the old tokens keep their
\* places and the new one comes last (outct, outt).
LEMMA AppendToken ==
   ASSUME NEW s \in Seq(Token), NEW t \in Token
   PROVE  /\ Append(s, t) \in Seq(Token)
          /\ Len(Append(s, t)) = Len(s) + 1
          /\ \A m \in 1 .. Len(s) : Append(s, t)[m] = s[m]
          /\ Append(s, t)[Len(s) + 1] = t
  BY AppendProperties

\* Consuming a token: the rest moves up by one place (chkct, int).
LEMMA ConsumeToken ==
   ASSUME NEW s \in Seq(Token), s # << >>
   PROVE  /\ Head(s) = s[1]
          /\ Head(s) \in Token
          /\ Tail(s) \in Seq(Token)
          /\ Len(s) \in Nat \ {0}
          /\ Len(Tail(s)) = Len(s) - 1
          /\ \A m \in 1 .. Len(s) - 1 : Tail(s)[m] = s[m + 1]
  BY HeadTailProperties, EmptySeq, LenProperties

\* The short queues of the handshake.
LEMMA ShortQueues ==
   /\ CtEnd \in Token
   /\ << >> \in Seq(Token) /\ Len(<< >>) = 0
   /\ <<CtEnd>> # << >> /\ <<CtEnd, CtEnd>> # << >>
   /\ Append(<< >>, CtEnd) = <<CtEnd>>
   /\ Append(<<CtEnd>>, CtEnd) = <<CtEnd, CtEnd>>
   /\ Head(<<CtEnd>>) = CtEnd /\ Tail(<<CtEnd>>) = << >>
   /\ Head(<<CtEnd, CtEnd>>) = CtEnd /\ Tail(<<CtEnd, CtEnd>>) = <<CtEnd>>
<1>1. CtEnd \in Token
  BY DEF CtEnd, Token
<1>2. << >> \in Seq(Token) /\ Len(<< >>) = 0
  BY EmptySeq
<1>3. <<CtEnd>> # << >> /\ <<CtEnd, CtEnd>> # << >>
  OBVIOUS
<1>4. Append(<< >>, CtEnd) = <<CtEnd>>
  OBVIOUS
<1>5. Append(<<CtEnd>>, CtEnd) = <<CtEnd, CtEnd>>
  <2>1. <<CtEnd>> \in Seq(Token) /\ <<CtEnd, CtEnd>> \in Seq(Token)
    BY <1>1
  <2>2. Len(<<CtEnd>>) = 1 /\ Len(<<CtEnd, CtEnd>>) = 2
    OBVIOUS
  <2>3. \A m \in 1 .. 2 : Append(<<CtEnd>>, CtEnd)[m] = <<CtEnd, CtEnd>>[m]
    BY <1>1, <2>1, <2>2, AppendToken
  <2>4. Append(<<CtEnd>>, CtEnd) \in Seq(Token) /\ Len(Append(<<CtEnd>>, CtEnd)) = 2
    BY <1>1, <2>1, <2>2, AppendToken
  <2> HIDE DEF CtEnd, Token
  <2> QED
    BY <2>1, <2>2, <2>3, <2>4, SeqEqual
<1>6. Head(<<CtEnd>>) = CtEnd /\ Head(<<CtEnd, CtEnd>>) = CtEnd
  OBVIOUS
<1>7. Tail(<<CtEnd>>) = << >>
  OBVIOUS
<1>8. Tail(<<CtEnd, CtEnd>>) = <<CtEnd>>
  OBVIOUS
<1> QED
  BY <1>1, <1>2, <1>3, <1>4, <1>5, <1>6, <1>7, <1>8

(***************************************************************************)
(* Types                                                                   *)
(***************************************************************************)
\* The two ends are each other's partners, and there is no third.
LEMMA EndFacts == \A e \in End : /\ Other(e) \in End /\ Other(e) # e
                                 /\ Other(Other(e)) = e
                                 /\ \A f \in End : f = e \/ f = Other(e)
  BY DEF End, Other

\* The call a busy core makes is one of the API's.
LEMMA CurrentCall ==
   ASSUME TypeOK, NEW e \in End, Busy(e)
   PROVE  /\ call[e] \in 1 .. NumCalls
          /\ Cur(e) \in Call
          /\ Cur(e).dir \in {"out", "in"} /\ Cur(e).n \in 0 .. MaxLen
  BY SizeAssumption DEF TypeOK, Busy, Cur, Call

\* Each instruction of a call keeps the types.
LEMMA TypeStep ==
   ASSUME TypeOK, NEW e \in End, Busy(e),
          \/ OutHandshake(e)
          \/ CheckHandshake(e)
          \/ AtData(e) /\ OutData(e)
          \/ AtData(e) /\ InData(e)
   PROVE  TypeOK'
<1> USE SizeAssumption, CapAssumption
<1>0. /\ Other(e) \in End /\ Other(e) # e
      /\ call[e] \in 1 .. NumCalls /\ Cur(e).n \in 0 .. MaxLen
  BY CurrentCall, EndFacts
<1>1. ASSUME NEW t \in Token, OutToken(e, t) PROVE LinkTypeOK'
  <2>1. /\ q[Other(e)] \in Seq(Token) /\ Len(q[Other(e)]) < Cap
        /\ q' = [q EXCEPT ![Other(e)] = Append(@, t)] /\ trap' = trap
    BY <1>0, <1>1 DEF TypeOK, LinkTypeOK, OutToken
  <2>2. /\ Append(q[Other(e)], t) \in Seq(Token)
        /\ Len(Append(q[Other(e)], t)) <= Cap
    BY <2>1, AppendToken, LenProperties
  <2> QED
    BY <1>0, <2>1, <2>2 DEF TypeOK, LinkTypeOK
<1>2. ASSUME CheckCtEnd(e) \/ InToken(e) PROVE LinkTypeOK'
  <2>1. /\ q[e] \in Seq(Token) /\ q[e] # << >> /\ Len(q[e]) <= Cap
        /\ q' = [q EXCEPT ![e] = Tail(@)] /\ trap' = trap
    BY <1>2 DEF TypeOK, LinkTypeOK, CheckCtEnd, InToken
  <2>2. Tail(q[e]) \in Seq(Token) /\ Len(Tail(q[e])) <= Cap
    BY <2>1, ConsumeToken
  <2> QED
    BY <2>1, <2>2 DEF TypeOK, LinkTypeOK
<1>3. (CheckCtEndTraps(e) \/ InTokenTraps(e)) => LinkTypeOK'
  BY DEF TypeOK, LinkTypeOK, CheckCtEndTraps, InTokenTraps
<1>4. ASSUME Advance(e) \/ Return(e), LinkTypeOK' PROVE TypeOK'
  <2>1. CASE Advance(e)
    <3>0. pc[e] \in 0 .. 3 /\ pc[e] < 3
      BY <2>1 DEF TypeOK, Advance
    <3>1. pc[e] + 1 \in 0 .. 3
      BY <3>0
    <3>2. pc' \in [End -> 0 .. 3]
      BY <2>1, <3>1 DEF TypeOK, Advance
    <3> QED
      BY <1>4, <2>1, <3>2 DEF TypeOK, Advance
  <2>2. CASE Return(e)
    <3>1. pc' \in [End -> 0 .. 3] /\ cnt' \in [End -> 0 .. MaxLen]
      BY <2>2 DEF TypeOK, Return
    <3>2. call' \in [End -> 1 .. NumCalls + 1]
      BY <1>0, <2>2 DEF TypeOK, Return
    <3> QED
      BY <1>4, <2>2, <3>1, <3>2 DEF TypeOK, Return
  <2> QED
    BY <1>4, <2>1, <2>2
<1>5. LinkTypeOK' /\ UNCHANGED local => TypeOK'
  BY DEF TypeOK, local
<1>6. OutHandshake(e) => TypeOK'
  BY <1>1, <1>4, ShortQueues DEF OutHandshake, OutCtEnd
<1>7. CheckHandshake(e) => TypeOK'
  BY <1>2, <1>3, <1>4, <1>5 DEF CheckHandshake
<1>8. CASE AtData(e) /\ OutData(e)
  <2>1. Item(call[e], cnt[e] + 1) \in Token
    BY <1>0 DEF TypeOK, Item, Token
  <2>2. cnt' \in [End -> 0 .. MaxLen]
    BY <1>0, <1>8 DEF TypeOK, AtData, OutData
  <2> QED
    BY <1>1, <1>8, <2>1, <2>2 DEF TypeOK, OutData
<1>9. CASE AtData(e) /\ InData(e)
  <2>1. CASE InTokenTraps(e) /\ UNCHANGED local
    BY <1>3, <1>5, <2>1
  <2>2. CASE InToken(e)
    <3>1. Head(q[e]) \in Token
      BY <2>2, ConsumeToken DEF TypeOK, LinkTypeOK, InToken
    <3>2. cnt[e] + 1 \in 1 .. MaxLen
      BY <1>0, <1>9 DEF TypeOK, AtData
    <3>3. buf' = [buf EXCEPT ![e][call[e]][cnt[e] + 1] = Head(q[e])]
          /\ cnt' = [cnt EXCEPT ![e] = @ + 1] /\ UNCHANGED <<prog, call, pc>>
      BY <1>9, <2>2 DEF InData, InToken, InTokenTraps
    <3>4. buf' \in [End -> [1 .. NumCalls -> [1 .. MaxLen -> Token]]]
      BY <1>0, <3>1, <3>2, <3>3 DEF TypeOK
    <3>5. cnt' \in [End -> 0 .. MaxLen]
      BY <3>2, <3>3 DEF TypeOK
    <3> QED
      BY <1>2, <2>2, <3>3, <3>4, <3>5 DEF TypeOK
  <2> QED
    BY <1>9, <2>1, <2>2 DEF InData
<1> QED
  BY <1>6, <1>7, <1>8, <1>9

\* TypeOK is inductive as it stands, whatever the two programs are.
LEMMA TypeInductive == TypeOK /\ [Next]_vars => TypeOK'
<1>1. ASSUME TypeOK, UNCHANGED vars PROVE TypeOK'
  BY <1>1 DEF TypeOK, LinkTypeOK, vars
<1>2. ASSUME TypeOK, NEW e \in End, ChanOut(e) \/ ChanIn(e) PROVE TypeOK'
  BY <1>2, TypeStep DEF ChanOut, ChanIn
<1> QED
  BY <1>1, <1>2 DEF Next, Finished

\* The initial state has the types, whatever the two programs are.
LEMMA TypeInitially == Init => TypeOK
<1> SUFFICES ASSUME Init PROVE TypeOK
  OBVIOUS
<1>1. LinkTypeOK
  BY ShortQueues, CapAssumption DEF Init, Start, LinkInit, LinkTypeOK
<1>2. Blank \in Token
  BY DEF Blank, Token
<1> QED
  BY <1>1, <1>2, SizeAssumption DEF Init, Start, TypeOK

\* Type correctness, for any two programs: no buffer exceeds its capacity, no
\* call writes past the end of the buffer it was given (chan_in_*), and every
\* program counter stays within its call.
THEOREM TypeCorrect == Spec => []TypeOK
  BY TypeInitially, TypeInductive, PTL DEF Spec

(***************************************************************************)
(* Matching calls: the invariant                                           *)
(***************************************************************************)
\* A busy core is in one of four positions relative to its partner.
LEMMA Positions ==
   ASSUME FlowInv, NEW e \in End, Busy(e)
   PROVE  \/ Together(e, Other(e)) \/ Ahead(e, Other(e))
          \/ Together(Other(e), e) \/ Ahead(Other(e), e)
<1>1. ~ AllDone
  BY SizeAssumption DEF Busy, AllDone
<1>2. PICK s \in End : Together(s, Other(s)) \/ Ahead(s, Other(s))
  BY <1>1 DEF FlowInv
<1> QED
  BY <1>2, EndFacts

\* When two matching calls are in progress, one outputs and the other inputs
\* the same number of tokens.
LEMMA MatchedPair ==
   ASSUME TypeOK, Matched, NEW e \in End, call[Other(e)] = call[e],
          call[e] <= NumCalls
   PROVE  /\ Cur(e).n = Cur(Other(e)).n
          /\ Cur(e).dir = "out" <=> Cur(Other(e)).dir = "in"
          /\ Cur(e).dir = "in" <=> Cur(Other(e)).dir = "out"
<1>1. call[e] \in 1 .. NumCalls
  BY SizeAssumption DEF TypeOK
<1>2. \A f \in End : prog[f][call[e]].dir \in {"out", "in"}
  BY <1>1 DEF TypeOK, Call
<1> QED
  BY <1>1, <1>2 DEF Matched, End, Other, Cur

\* What an output changes: the cases of its five instructions.
LEMMA OutInstructions ==
   ASSUME NEW e \in End, ChanOut(e), TypeOK, CountInv
   PROVE  \/ pc[e] = 0 /\ OutCtEnd(e) /\ Advance(e)
          \/ pc[e] = 1 /\ CheckCtEnd(e) /\ Advance(e)
          \/ pc[e] = 2 /\ cnt[e] < Cur(e).n /\ OutData(e)
          \/ pc[e] = 2 /\ cnt[e] = Cur(e).n /\ OutCtEnd(e) /\ Advance(e)
          \/ pc[e] = 3 /\ CheckCtEnd(e) /\ Return(e)
          \/ pc[e] \in {1, 3} /\ CheckCtEndTraps(e)
  BY DEF ChanOut, AtOpening, AtAnswer, AtData, OutHandshake, CheckHandshake,
         Advance, Return

\* What an input changes: the cases of its instructions.
LEMMA InInstructions ==
   ASSUME NEW e \in End, ChanIn(e), TypeOK, CountInv
   PROVE  \/ pc[e] = 0 /\ CheckCtEnd(e) /\ Advance(e)
          \/ pc[e] = 1 /\ OutCtEnd(e) /\ Advance(e)
          \/ pc[e] = 2 /\ cnt[e] < Cur(e).n /\ InData(e)
          \/ pc[e] = 2 /\ cnt[e] = Cur(e).n /\ CheckCtEnd(e) /\ Advance(e)
          \/ pc[e] = 3 /\ OutCtEnd(e) /\ Return(e)
          \/ pc[e] = 0 /\ CheckCtEndTraps(e)
          \/ pc[e] = 2 /\ cnt[e] = Cur(e).n /\ CheckCtEndTraps(e)
  BY DEF ChanIn, AtOpening, AtAnswer, AtData, OutHandshake, CheckHandshake,
         Advance, Return

\* An output keeps the queues as the invariant says, and never traps.
LEMMA OutFlow ==
   ASSUME IInv, NEW e \in End, ChanOut(e)
   PROVE  FlowInv' /\ trap' = trap
<1> DEFINE f == Other(e)
<1>0. /\ Busy(e) /\ Cur(e).dir = "out" /\ TypeOK /\ TypeOK' /\ CountInv
      /\ f \in End /\ f # e /\ Other(f) = e
      /\ call[e] \in 1 .. NumCalls /\ Cur(e).n \in 0 .. MaxLen
  BY CurrentCall, EndFacts, TypeInductive DEF ChanOut, IInv, Next
<1>1. \/ Together(e, f) \/ Ahead(e, f) \/ Ahead(f, e)
  <2>1. ~ Together(f, e)
    BY <1>0, MatchedPair DEF Together, IInv
  <2> QED
    BY <1>0, <2>1, Positions DEF IInv
<1>2. \/ Together(e, f)' \/ Ahead(e, f)' \/ Together(f, e)' \/ Ahead(f, e)'
      => FlowInv'
  BY <1>0 DEF FlowInv
<1> HIDE DEF f
<1>3. CASE pc[e] = 0 /\ OutCtEnd(e) /\ Advance(e)
  <2>1. /\ q' = [q EXCEPT ![f] = Append(q[f], CtEnd)] /\ trap' = trap
        /\ pc' = [pc EXCEPT ![e] = 1] /\ UNCHANGED <<prog, call, cnt>>
    BY <1>0, <1>3 DEF OutCtEnd, OutToken, Advance, TypeOK, f
  <2>2. CASE Together(e, f)
    <3>1. pc[f] = 0 /\ q[e] = << >> /\ q[f] = << >>
      BY <1>3, <2>2 DEF Together
    <3> QED
      BY <1>0, <1>2, <2>1, <2>2, <3>1, ShortQueues DEF Together, TypeOK, LinkTypeOK, Cur
  <2>3. CASE Ahead(f, e)
    <3>1. q[e] = << >> /\ q[f] = <<CtEnd>>
      BY <1>3, <2>3 DEF Ahead
    <3> QED
      BY <1>0, <1>2, <2>1, <2>3, <3>1, ShortQueues DEF Ahead, TypeOK, LinkTypeOK, Cur
  <2> QED
    BY <1>1, <1>3, <2>1, <2>2, <2>3 DEF Ahead
<1>4. CASE pc[e] = 1 /\ ((CheckCtEnd(e) /\ Advance(e)) \/ CheckCtEndTraps(e))
  <2>1. Together(e, f) /\ pc[f] = 2 /\ cnt[f] = 0 /\ q[e] = <<CtEnd>> /\ q[f] = << >>
    BY <1>1, <1>4 DEF Together, Ahead, CheckCtEnd, CheckCtEndTraps
  <2>2. CheckCtEnd(e) /\ Advance(e)
    BY <1>4, <2>1, ShortQueues DEF CheckCtEndTraps
  <2>3. /\ q' = [q EXCEPT ![e] = Tail(q[e])] /\ trap' = trap
        /\ pc' = [pc EXCEPT ![e] = 2] /\ UNCHANGED <<prog, call, cnt>>
    BY <1>0, <1>4, <2>2 DEF CheckCtEnd, Advance, TypeOK
  <2>4. InFlight(e, f, 0)'
    <3>1. cnt'[e] = 0 /\ cnt'[f] = 0 /\ q'[f] = << >>
      BY <1>0, <1>4, <2>1, <2>3 DEF CountInv, TypeOK, LinkTypeOK
    <3> QED
      BY <3>1, ShortQueues DEF InFlight
  <2> QED
    BY <1>0, <1>2, <2>1, <2>3, <2>4, ShortQueues DEF Together, TypeOK, LinkTypeOK, Cur
<1>5. CASE pc[e] = 2 /\ cnt[e] < Cur(e).n /\ OutData(e)
  <2>1. Together(e, f) /\ pc[f] = 2 /\ q[e] = << >> /\ InFlight(e, f, 0)
    BY <1>1, <1>5 DEF Together, Ahead
  <2>2. Item(call[e], cnt[e] + 1) \in Token /\ q[f] \in Seq(Token)
    BY <1>0 DEF Item, Token, TypeOK, LinkTypeOK
  <2>3. /\ q' = [q EXCEPT ![f] = Append(q[f], Item(call[e], cnt[e] + 1))]
        /\ trap' = trap
        /\ cnt' = [cnt EXCEPT ![e] = cnt[e] + 1] /\ UNCHANGED <<prog, call, pc>>
    BY <1>0, <1>5 DEF OutData, OutToken, f
  <2>4. InFlight(e, f, 0)'
    <3>1. cnt[e] \in Nat /\ cnt[f] \in Nat /\ cnt'[f] = cnt[f] /\ cnt'[e] = cnt[e] + 1
      BY <1>0, <2>3 DEF TypeOK
    <3>2. /\ q'[f] = Append(q[f], Item(call[e], cnt[e] + 1))
          /\ call'[e] = call[e]
      BY <1>0, <2>3 DEF TypeOK, LinkTypeOK
    <3>3. Len(q[f]) = cnt[e] - cnt[f] /\ cnt[f] <= cnt[e]
      BY <2>1, <3>1 DEF InFlight
    <3>4. \A t \in Token : /\ Len(Append(q[f], t)) = Len(q[f]) + 1
                           /\ \A m \in 1 .. Len(q[f]) : Append(q[f], t)[m] = q[f][m]
                           /\ Append(q[f], t)[Len(q[f]) + 1] = t
      BY <2>2, AppendToken
    <3>5. /\ Len(q'[f]) = cnt'[e] - cnt[f]
          /\ \A m \in 1 .. cnt[e] - cnt[f] : q'[f][m] = q[f][m]
          /\ q'[f][cnt[e] - cnt[f] + 1] = Item(call[e], cnt[e] + 1)
      BY <2>2, <3>1, <3>2, <3>3, <3>4
    <3>6. \A m \in 1 .. cnt'[e] - cnt'[f] : q'[f][m] = Item(call'[e], cnt'[f] + m)
      <4> SUFFICES ASSUME NEW m \in 1 .. cnt'[e] - cnt'[f]
                   PROVE  q'[f][m] = Item(call'[e], cnt'[f] + m)
        OBVIOUS
      <4>1. CASE m \in 1 .. cnt[e] - cnt[f]
        BY <2>1, <3>1, <3>2, <3>5, <4>1 DEF InFlight
      <4>2. CASE m = cnt[e] - cnt[f] + 1
        <5>1. cnt[f] + m = cnt[e] + 1
          BY <3>1, <4>2
        <5> QED
          BY <3>1, <3>2, <3>5, <4>2, <5>1
      <4> QED
        BY <3>1, <3>3, <4>1, <4>2
    <3> QED
      BY <3>1, <3>3, <3>5, <3>6 DEF InFlight
  <2> QED
    BY <1>0, <1>2, <1>5, <2>1, <2>3, <2>4 DEF Together, TypeOK, LinkTypeOK, Cur
<1>6. CASE pc[e] = 2 /\ cnt[e] = Cur(e).n /\ OutCtEnd(e) /\ Advance(e)
  <2>1. Together(e, f) /\ pc[f] = 2 /\ q[e] = << >> /\ InFlight(e, f, 0)
    BY <1>1, <1>6 DEF Together, Ahead
  <2>2. /\ q' = [q EXCEPT ![f] = Append(q[f], CtEnd)] /\ trap' = trap
        /\ pc' = [pc EXCEPT ![e] = 3] /\ UNCHANGED <<prog, call, cnt>>
    BY <1>0, <1>6 DEF OutCtEnd, OutToken, Advance, TypeOK, f
  <2>3. InFlight(e, f, 1)'
    <3>1. /\ cnt[e] \in Nat /\ cnt[f] \in Nat /\ q[f] \in Seq(Token)
          /\ q'[f] = Append(q[f], CtEnd)
      BY <1>0, <2>2 DEF TypeOK, LinkTypeOK
    <3>2. Len(q[f]) = cnt[e] - cnt[f] /\ cnt[f] <= cnt[e]
      BY <2>1, <3>1 DEF InFlight
    <3>3. /\ Len(q'[f]) = cnt[e] - cnt[f] + 1
          /\ \A m \in 1 .. cnt[e] - cnt[f] : q'[f][m] = q[f][m]
          /\ q'[f][Len(q'[f])] = CtEnd
      BY <3>1, <3>2, AppendToken, ShortQueues
    <3> QED
      BY <2>1, <2>2, <3>2, <3>3 DEF InFlight
  <2> QED
    BY <1>0, <1>2, <2>1, <2>2, <2>3 DEF Together, TypeOK, LinkTypeOK, Cur
<1>7. CASE pc[e] = 3 /\ ((CheckCtEnd(e) /\ Return(e)) \/ CheckCtEndTraps(e))
  <2>1. Ahead(e, f)
    BY <1>1, <1>7 DEF Together, Ahead, CheckCtEnd, CheckCtEndTraps
  <2>2. CheckCtEnd(e) /\ Return(e)
    BY <1>7, <2>1, ShortQueues DEF CheckCtEndTraps, Ahead
  <2>3. /\ q' = [q EXCEPT ![e] = Tail(q[e])] /\ trap' = trap
        /\ pc' = [pc EXCEPT ![e] = 0] /\ call' = [call EXCEPT ![e] = call[e] + 1]
        /\ cnt' = [cnt EXCEPT ![e] = 0] /\ prog' = prog
    BY <2>2 DEF CheckCtEnd, Return
  <2>4. /\ call'[e] = call'[f] /\ pc'[e] = 0 /\ pc'[f] = pc[f] /\ q'[f] = << >>
        /\ Cur(e)' = prog[e][call'[e]] /\ Cur(f)' = Cur(f)
    BY <1>0, <2>1, <2>3 DEF Ahead, TypeOK, LinkTypeOK, Cur
  <2>5. CASE pc[f] = 1
    <3>1. q[e] = <<CtEnd, CtEnd>> /\ call[f] <= NumCalls /\ Cur(f).dir = "out"
      BY <2>1, <2>5 DEF Ahead
    <3>2. q'[e] = <<CtEnd>>
      BY <1>0, <2>3, <3>1, ShortQueues DEF TypeOK, LinkTypeOK
    <3>3. Together(f, e)'
      BY <1>0, <2>3, <2>4, <2>5, <3>1, <3>2 DEF Together, TypeOK
    <3> QED
      BY <1>2, <2>3, <3>3
  <2>6. CASE pc[f] = 0
    <3>0. q[e] = <<CtEnd>>
      BY <2>1, <2>6 DEF Ahead
    <3>1. q'[e] = << >>
      BY <1>0, <2>3, <3>0, ShortQueues DEF TypeOK, LinkTypeOK
    <3>2. CASE call'[e] = NumCalls + 1
      BY <1>0, <2>3, <2>4, <3>1, <3>2 DEF FlowInv, AllDone, End, Other, f
    <3>3. CASE call'[e] <= NumCalls
      <4>1. Cur(e)'.dir = "out" \/ Cur(f)'.dir = "out"
        <5>1. call'[e] \in 1 .. NumCalls
          BY <1>0, <3>3, SizeAssumption DEF TypeOK
        <5>2. /\ \A g \in End : prog[g][call'[e]].dir \in {"out", "in"}
              /\ prog["a"][call'[e]].dir # prog["b"][call'[e]].dir
          BY <1>0, <5>1 DEF TypeOK, Call, IInv, Matched
        <5>3. Cur(f)' = prog[f][call'[e]]
          BY <2>3, <2>4 DEF Cur
        <5> QED
          BY <1>0, <2>4, <5>2, <5>3 DEF End, Other, f
      <4>2. Together(e, f)' \/ Together(f, e)'
        BY <2>4, <2>6, <3>1, <3>3, <4>1 DEF Together
      <4> QED
        BY <1>2, <2>3, <4>2
    <3> QED
      BY <1>0, <2>3, <3>2, <3>3, SizeAssumption DEF TypeOK
  <2> QED
    BY <2>1, <2>5, <2>6 DEF Ahead
<1> QED
  BY <1>0, <1>3, <1>4, <1>5, <1>6, <1>7, OutInstructions

\* So does an input, and what it writes is the next item of the partner's call.
LEMMA InFlow ==
   ASSUME IInv, NEW e \in End, ChanIn(e)
   PROVE  /\ FlowInv' /\ trap' = trap
          /\ pc[e] = 2 /\ cnt[e] < Cur(e).n =>
                buf' = [buf EXCEPT ![e][call[e]][cnt[e] + 1] = Item(call[e], cnt[e] + 1)]
<1> DEFINE f == Other(e)
<1>0. /\ Busy(e) /\ Cur(e).dir = "in" /\ TypeOK /\ TypeOK' /\ CountInv
      /\ f \in End /\ f # e /\ Other(f) = e
      /\ call[e] \in 1 .. NumCalls /\ Cur(e).n \in 0 .. MaxLen
  BY CurrentCall, EndFacts, TypeInductive DEF ChanIn, IInv, Next
<1>1. Together(f, e) \/ (Ahead(f, e) /\ pc[e] = 0)
  <2>1. ~ Together(e, f) /\ ~ Ahead(e, f)
    BY <1>0 DEF Together, Ahead
  <2> QED
    BY <1>0, <2>1, Positions DEF IInv, Ahead
<1>2. Together(f, e)' \/ Ahead(f, e)' => FlowInv'
  BY <1>0 DEF FlowInv
<1>3. Together(f, e) => Cur(f).n = Cur(e).n /\ call[f] = call[e]
  BY <1>0, MatchedPair DEF Together, IInv
<1> HIDE DEF f
<1>4. CASE pc[e] = 0 /\ ((CheckCtEnd(e) /\ Advance(e)) \/ CheckCtEndTraps(e))
  <2>1. Together(f, e) /\ pc[f] = 1 /\ q[f] = << >> /\ q[e] = <<CtEnd>>
    BY <1>1, <1>4 DEF Together, Ahead, CheckCtEnd, CheckCtEndTraps
  <2>2. CheckCtEnd(e) /\ Advance(e)
    BY <1>4, <2>1, ShortQueues DEF CheckCtEndTraps
  <2>3. /\ q' = [q EXCEPT ![e] = Tail(q[e])] /\ trap' = trap
        /\ pc' = [pc EXCEPT ![e] = 1] /\ UNCHANGED <<prog, call, cnt>>
    BY <1>0, <1>4, <2>2 DEF CheckCtEnd, Advance, TypeOK
  <2> QED
    BY <1>0, <1>2, <1>4, <2>1, <2>3, ShortQueues DEF Together, TypeOK, LinkTypeOK, Cur
<1>5. CASE pc[e] = 1 /\ OutCtEnd(e) /\ Advance(e)
  <2>1. Together(f, e) /\ pc[f] = 1 /\ q[f] = << >> /\ q[e] = << >>
    BY <1>1, <1>5 DEF Together
  <2>2. /\ q' = [q EXCEPT ![f] = Append(q[f], CtEnd)] /\ trap' = trap
        /\ pc' = [pc EXCEPT ![e] = 2] /\ UNCHANGED <<prog, call, cnt>>
    BY <1>0, <1>5 DEF OutCtEnd, OutToken, Advance, TypeOK, f
  <2>3. cnt[e] = 0
    BY <1>5 DEF CountInv, IInv
  <2> QED
    BY <1>0, <1>2, <1>5, <2>1, <2>2, <2>3, ShortQueues DEF Together, TypeOK, LinkTypeOK, Cur
<1>6. CASE pc[e] = 2 /\ cnt[e] < Cur(e).n /\ InData(e)
  <2> DEFINE fin == IF pc[f] = 3 THEN 1 ELSE 0
  <2>1. /\ Together(f, e) /\ pc[f] \in {2, 3} /\ q[f] = << >> /\ InFlight(f, e, fin)
        /\ q[e] # << >>
    BY <1>0, <1>1, <1>6 DEF Together, InData, InToken, InTokenTraps
  <2>2. cnt[e] \in Nat /\ cnt[f] \in Nat /\ q[e] \in Seq(Token) /\ fin \in {0, 1}
    BY <1>0 DEF TypeOK, LinkTypeOK
  <2>3. cnt[f] - cnt[e] >= 1
    <3>1. CASE pc[f] = 3
      BY <1>0, <1>3, <1>6, <2>1, <2>2, <3>1 DEF CountInv
    <3>2. CASE pc[f] = 2
      BY <2>1, <2>2, <3>2, ConsumeToken DEF InFlight
    <3> QED
      BY <2>1, <3>1, <3>2
  <2>4. Head(q[e]) = Item(call[e], cnt[e] + 1)
    <3>1. q[e][1] = Item(call[f], cnt[e] + 1)
      BY <2>1, <2>2, <2>3 DEF InFlight
    <3> QED
      BY <1>3, <2>1, <2>2, <3>1, ConsumeToken
  <2>5. Head(q[e]) # CtEnd
    BY <1>0, <2>4 DEF Item, CtEnd
  <2>6. /\ q' = [q EXCEPT ![e] = Tail(q[e])] /\ trap' = trap
        /\ cnt' = [cnt EXCEPT ![e] = cnt[e] + 1] /\ UNCHANGED <<prog, call, pc>>
        /\ buf' = [buf EXCEPT ![e][call[e]][cnt[e] + 1] = Head(q[e])]
    BY <1>6, <2>5 DEF InData, InToken, InTokenTraps
  <2>7. InFlight(f, e, fin)'
    <3>1. /\ cnt'[e] = cnt[e] + 1 /\ cnt'[f] = cnt[f] /\ call'[f] = call[f]
          /\ q'[e] = Tail(q[e]) /\ fin' = fin
      BY <1>0, <2>6 DEF TypeOK, LinkTypeOK
    <3>2. /\ Len(q[e]) = cnt[f] - cnt[e] + fin
          /\ \A m \in 1 .. cnt[f] - cnt[e] : q[e][m] = Item(call[f], cnt[e] + m)
          /\ fin = 1 => q[e][Len(q[e])] = CtEnd
      BY <2>1 DEF InFlight
    <3>3. /\ Len(q'[e]) = Len(q[e]) - 1
          /\ \A m \in 1 .. Len(q[e]) - 1 : q'[e][m] = q[e][m + 1]
      BY <2>1, <2>2, <3>1, ConsumeToken
    <3>4. \A m \in 1 .. cnt'[f] - cnt'[e] : q'[e][m] = Item(call'[f], cnt'[e] + m)
      <4> SUFFICES ASSUME NEW m \in 1 .. cnt'[f] - cnt'[e]
                   PROVE  q'[e][m] = Item(call'[f], cnt'[e] + m)
        OBVIOUS
      <4>1. m + 1 \in 1 .. cnt[f] - cnt[e] /\ m \in 1 .. Len(q[e]) - 1
        BY <2>2, <3>1, <3>2
      <4>2. cnt'[e] + m = cnt[e] + (m + 1)
        <5>1. m \in Int /\ cnt[e] \in Nat /\ cnt'[e] = cnt[e] + 1
          BY <2>2, <3>1
        <5> QED
          BY <5>1
      <4> QED
        BY <3>1, <3>2, <3>3, <4>1, <4>2
    <3>5. fin = 1 => q'[e][Len(q'[e])] = CtEnd
      <4> SUFFICES ASSUME fin = 1 PROVE q'[e][Len(q'[e])] = CtEnd
        OBVIOUS
      <4>1. Len(q[e]) \in Nat /\ Len(q[e]) - 1 \in 1 .. Len(q[e]) - 1
        BY <2>2, <2>3, <3>2
      <4>2. q'[e][Len(q[e]) - 1] = q[e][(Len(q[e]) - 1) + 1]
        BY <3>3, <4>1
      <4> QED
        BY <3>2, <3>3, <4>1, <4>2
    <3>6. cnt'[e] <= cnt'[f] /\ Len(q'[e]) = cnt'[f] - cnt'[e] + fin
      BY <2>2, <2>3, <3>1, <3>2, <3>3
    <3> QED
      BY <3>1, <3>4, <3>5, <3>6 DEF InFlight
  <2>8. Together(f, e)'
    BY <1>0, <1>6, <2>1, <2>6, <2>7 DEF Together, TypeOK, LinkTypeOK, Cur
  <2> QED
    BY <1>2, <2>4, <2>6, <2>8
<1>7. CASE pc[e] = 2 /\ cnt[e] = Cur(e).n /\ ((CheckCtEnd(e) /\ Advance(e)) \/ CheckCtEndTraps(e))
  <2>1. /\ Together(f, e) /\ q[f] = << >> /\ q[e] # << >>
        /\ \/ pc[f] = 2 /\ InFlight(f, e, 0)
           \/ pc[f] = 3 /\ InFlight(f, e, 1)
    BY <1>1, <1>7 DEF Together, CheckCtEnd, CheckCtEndTraps
  <2>2. /\ cnt[e] \in Nat /\ cnt[f] \in Nat /\ q[e] \in Seq(Token)
        /\ cnt[f] <= cnt[e]
    <3>1. pc[f] \in {2, 3} => cnt[f] <= Cur(f).n
      BY <1>0 DEF CountInv, TypeOK
    <3> QED
      BY <1>0, <1>3, <1>7, <2>1, <3>1 DEF TypeOK, LinkTypeOK
  <2>3. pc[f] = 3 /\ Len(q[e]) = 1 /\ q[e][1] = CtEnd
    <3>1. Len(q[e]) \in Nat \ {0}
      BY <2>1, <2>2, ConsumeToken
    <3>2. pc[f] # 2
      BY <2>1, <2>2, <3>1 DEF InFlight
    <3>3. InFlight(f, e, 1) /\ pc[f] = 3
      BY <2>1, <3>2
    <3>4. Len(q[e]) = 1
      BY <2>2, <3>1, <3>3 DEF InFlight
    <3> QED
      BY <3>3, <3>4 DEF InFlight
  <2>4. Head(q[e]) = CtEnd /\ Tail(q[e]) = << >>
    <3>1. Head(q[e]) = q[e][1] /\ Tail(q[e]) \in Seq(Token) /\ Len(Tail(q[e])) = 0
      BY <2>1, <2>2, <2>3, ConsumeToken
    <3> QED
      BY <2>3, <3>1, EmptySeq
  <2>5. CheckCtEnd(e) /\ Advance(e)
    BY <1>7, <2>4 DEF CheckCtEndTraps
  <2>6. /\ q' = [q EXCEPT ![e] = Tail(q[e])] /\ trap' = trap
        /\ pc' = [pc EXCEPT ![e] = 3] /\ UNCHANGED <<prog, call, cnt>>
    BY <1>0, <1>7, <2>5 DEF CheckCtEnd, Advance, TypeOK
  <2>7. Together(f, e)'
    BY <1>0, <2>1, <2>3, <2>4, <2>6 DEF Together, TypeOK, LinkTypeOK, Cur
  <2>8. ~ (cnt[e] < Cur(e).n)
    BY <1>7, <2>2
  <2> QED
    BY <1>2, <2>6, <2>7, <2>8
<1>8. CASE pc[e] = 3 /\ OutCtEnd(e) /\ Return(e)
  <2>1. Together(f, e) /\ pc[f] = 3 /\ q[f] = << >> /\ q[e] = << >>
    BY <1>1, <1>8 DEF Together
  <2>2. /\ q' = [q EXCEPT ![f] = Append(q[f], CtEnd)] /\ trap' = trap
        /\ pc' = [pc EXCEPT ![e] = 0] /\ call' = [call EXCEPT ![e] = call[e] + 1]
        /\ prog' = prog
    BY <1>0, <1>8 DEF OutCtEnd, OutToken, Return, f
  <2>3. Ahead(f, e)'
    BY <1>0, <1>8, <2>1, <2>2, ShortQueues DEF Together, Ahead, TypeOK, LinkTypeOK, Cur
  <2> QED
    BY <1>2, <1>8, <2>2, <2>3
<1>9. \/ pc[e] = 0 /\ ((CheckCtEnd(e) /\ Advance(e)) \/ CheckCtEndTraps(e))
      \/ pc[e] = 1 /\ OutCtEnd(e) /\ Advance(e)
      \/ pc[e] = 2 /\ cnt[e] < Cur(e).n /\ InData(e)
      \/ pc[e] = 2 /\ cnt[e] = Cur(e).n
                   /\ ((CheckCtEnd(e) /\ Advance(e)) \/ CheckCtEndTraps(e))
      \/ pc[e] = 3 /\ OutCtEnd(e) /\ Return(e)
  BY <1>0, InInstructions
<1> QED
  BY <1>4, <1>5, <1>6, <1>7, <1>8, <1>9

\* What either call does to its own core: it moves on to the next
\* instruction, returns, or transfers an item.
InItem(e) ==
   /\ cnt' = [cnt EXCEPT ![e] = @ + 1] /\ UNCHANGED <<prog, call, pc>>
   /\ buf' = [buf EXCEPT ![e][call[e]][cnt[e] + 1] = Item(call[e], cnt[e] + 1)]

\* How an instruction moves its core within and between calls: the five ways
\* in which it changes pc, cnt, call and buf.
Moves(e) == \/ pc[e] < 2 /\ Advance(e)
            \/ pc[e] = 2 /\ cnt[e] = Cur(e).n /\ Advance(e)
            \/ pc[e] = 3 /\ Return(e)
            \/ pc[e] = 2 /\ cnt[e] < Cur(e).n /\ Cur(e).dir = "out" /\ OutData(e)
            \/ pc[e] = 2 /\ cnt[e] < Cur(e).n /\ Cur(e).dir = "in" /\ InItem(e)

\* Matching calls move in these ways only: none of them traps.
LEMMA LocalStep ==
   ASSUME IInv, NEW e \in End, ChanOut(e) \/ ChanIn(e)
   PROVE  FlowInv' /\ trap' = trap /\ Moves(e)
<1>0. TypeOK /\ CountInv /\ Busy(e) /\ FlowInv' /\ trap' = trap
  BY OutFlow, InFlow DEF ChanOut, ChanIn, IInv
<1>1. ~ CheckCtEndTraps(e) /\ ~ InTokenTraps(e)
  BY <1>0 DEF CheckCtEndTraps, InTokenTraps, TypeOK, LinkTypeOK, Busy
<1>2. CASE ChanOut(e)
  <2>1. Cur(e).dir = "out"
    BY <1>2 DEF ChanOut
  <2> QED
    BY <1>0, <1>1, <1>2, <2>1, OutInstructions DEF Moves
<1>3. CASE ChanIn(e)
  <2>1. Cur(e).dir = "in"
    BY <1>3 DEF ChanIn
  <2>2. pc[e] = 2 /\ cnt[e] < Cur(e).n /\ InData(e) => InItem(e)
    BY <1>1, <1>3, InFlow DEF InData, InItem
  <2>3. \/ pc[e] = 0 /\ Advance(e)
        \/ pc[e] = 1 /\ Advance(e)
        \/ pc[e] = 2 /\ cnt[e] < Cur(e).n /\ InItem(e)
        \/ pc[e] = 2 /\ cnt[e] = Cur(e).n /\ Advance(e)
        \/ pc[e] = 3 /\ Return(e)
    BY <1>0, <1>1, <1>3, <2>2, InInstructions
  <2> QED
    BY <1>0, <2>1, <2>3 DEF Moves
<1> QED
  BY <1>2, <1>3

\* The count of each core stays within the data of its call.
LEMMA CountStep ==
   ASSUME TypeOK, TypeOK', CountInv, NEW e \in End, Busy(e), Moves(e)
   PROVE  CountInv'
<1>0. /\ TypeOK /\ TypeOK' /\ CountInv /\ call[e] \in 1 .. NumCalls
      /\ Cur(e).n \in 0 .. MaxLen
  BY CurrentCall
<1>1. \/ pc[e] < 2 /\ Advance(e)
      \/ pc[e] = 2 /\ cnt[e] = Cur(e).n /\ Advance(e)
      \/ pc[e] = 3 /\ Return(e)
      \/ /\ pc[e] = 2 /\ cnt[e] < Cur(e).n
         /\ cnt' = [cnt EXCEPT ![e] = @ + 1] /\ UNCHANGED <<prog, call, pc>>
  BY DEF Moves, OutData, InItem
<1>2. \A g \in End \ {e} : /\ call'[g] = call[g] /\ pc'[g] = pc[g] /\ cnt'[g] = cnt[g]
                           /\ Cur(g)' = Cur(g)
  BY <1>0, <1>1 DEF TypeOK, Advance, Return, Cur
<1>3. \A g \in End \ {e} : /\ call'[g] = NumCalls + 1 => pc'[g] = 0
                           /\ pc'[g] < 2 => cnt'[g] = 0
                           /\ pc'[g] = 2 => cnt'[g] <= Cur(g)'.n
                           /\ pc'[g] = 3 => cnt'[g] = Cur(g)'.n
  BY <1>0, <1>2 DEF CountInv
<1>4. /\ call'[e] = NumCalls + 1 => pc'[e] = 0
      /\ pc'[e] < 2 => cnt'[e] = 0
      /\ pc'[e] = 2 => cnt'[e] <= Cur(e)'.n
      /\ pc'[e] = 3 => cnt'[e] = Cur(e)'.n
  <2>1. CASE Advance(e)
    <3>1. /\ pc'[e] = pc[e] + 1 /\ cnt'[e] = cnt[e] /\ call'[e] = call[e]
          /\ Cur(e)' = Cur(e) /\ pc[e] \in 0 .. 3 /\ cnt[e] \in Nat
      BY <1>0, <2>1 DEF Advance, TypeOK, Cur
    <3>2. (pc[e] < 2 /\ cnt[e] = 0) \/ (pc[e] = 2 /\ cnt[e] = Cur(e).n)
      BY <1>0, <1>1, <2>1 DEF Advance, Return, CountInv, TypeOK
    <3> QED
      BY <1>0, <3>1, <3>2, SizeAssumption
  <2>2. CASE Return(e)
    BY <1>0, <2>2 DEF Return, TypeOK
  <2>3. CASE /\ pc[e] = 2 /\ cnt[e] < Cur(e).n
             /\ cnt' = [cnt EXCEPT ![e] = @ + 1] /\ UNCHANGED <<prog, call, pc>>
    BY <1>0, <2>3, SizeAssumption DEF TypeOK, Cur
  <2> QED
    BY <1>1, <2>1, <2>2, <2>3
<1> QED
  BY <1>3, <1>4 DEF CountInv

\* Every slot of a buffer is blank until it is input, and its item after.
LEMMA BufferStep ==
   ASSUME TypeOK, TypeOK', CountInv, BufferInv, NEW e \in End, Busy(e), Moves(e)
   PROVE  BufferInv'
<1>0. /\ TypeOK /\ TypeOK' /\ CountInv /\ BufferInv /\ call[e] \in 1 .. NumCalls
      /\ Cur(e).n \in 0 .. MaxLen /\ prog' = prog
  BY CurrentCall DEF Moves, Advance, Return, OutData, InItem
<1> SUFFICES ASSUME NEW g \in End, NEW k \in 1 .. NumCalls,
                    NEW m \in 1 .. prog[g][k].n, prog[g][k].dir = "in"
             PROVE  buf'[g][k][m] = IF k < call'[g] \/ (k = call'[g] /\ m <= cnt'[g])
                                    THEN Item(k, m) ELSE Blank
  BY <1>0 DEF BufferInv
<1>1. /\ prog[g][k].n \in 0 .. MaxLen /\ m \in 1 .. MaxLen
      /\ call[g] \in 1 .. NumCalls + 1 /\ cnt[g] \in 0 .. MaxLen
      /\ buf[g][k][m] = IF k < call[g] \/ (k = call[g] /\ m <= cnt[g])
                        THEN Item(k, m) ELSE Blank
  <2>0. prog \in [End -> [1 .. NumCalls -> Call]]
    BY <1>0 DEF TypeOK
  <2>1. prog[g][k].n \in 0 .. MaxLen
    BY <2>0 DEF Call
  <2> QED
    BY <1>0, <2>1, SizeAssumption DEF BufferInv, TypeOK
<1>2. CASE Advance(e)
  BY <1>1, <1>2 DEF Advance
<1>3. CASE pc[e] = 3 /\ Return(e)
  <2>1. buf' = buf /\ (g # e => call'[g] = call[g] /\ cnt'[g] = cnt[g])
    BY <1>0, <1>3 DEF Return, TypeOK
  <2>2. CASE g = e
    <3>1. call'[e] = call[e] + 1 /\ cnt'[e] = 0 /\ cnt[e] = prog[e][call[e]].n
      BY <1>0, <1>3 DEF Return, TypeOK, CountInv, Cur
    <3> QED
      BY <1>1, <2>1, <2>2, <3>1, SizeAssumption
  <2> QED
    BY <1>1, <2>1, <2>2
<1>4. CASE Cur(e).dir = "out" /\ OutData(e)
  <2>1. /\ buf' = buf /\ call' = call /\ (g # e => cnt'[g] = cnt[g])
        /\ cnt'[e] = cnt[e] + 1
    BY <1>0, <1>4 DEF OutData, TypeOK
  <2>2. g = e => k # call[e]
    BY <1>4 DEF Cur
  <2> QED
    BY <1>1, <2>1, <2>2
<1>5. CASE pc[e] = 2 /\ cnt[e] < Cur(e).n /\ InItem(e)
  <2>1. /\ call' = call /\ (g # e => cnt'[g] = cnt[g]) /\ cnt'[e] = cnt[e] + 1
        /\ cnt[e] + 1 \in 1 .. MaxLen
    BY <1>0, <1>5, SizeAssumption DEF InItem, TypeOK
  <2>2. CASE g = e /\ k = call[e] /\ m = cnt[e] + 1
    <3>1. buf'[g][k][m] = Item(k, m)
      BY <1>0, <1>5, <2>1, <2>2 DEF InItem, TypeOK
    <3> QED
      BY <1>1, <2>1, <2>2, <3>1
  <2>3. CASE ~ (g = e /\ k = call[e] /\ m = cnt[e] + 1)
    <3>1. buf'[g][k][m] = buf[g][k][m]
      BY <1>0, <1>1, <1>5, <2>1, <2>3 DEF InItem, TypeOK
    <3>2. (k = call'[g] /\ m <= cnt'[g]) <=> (k = call[g] /\ m <= cnt[g])
      BY <1>1, <2>1, <2>3
    <3> QED
      BY <1>1, <2>1, <3>1, <3>2
  <2> QED
    BY <2>2, <2>3
<1> QED
  BY <1>2, <1>3, <1>4, <1>5 DEF Moves

\* Nothing is counted or input initially.
LEMMA BuffersInitially == Init => CountInv /\ BufferInv
<1> SUFFICES ASSUME Init PROVE CountInv /\ BufferInv
  OBVIOUS
<1>1. TypeOK
  BY TypeInitially
<1>2. CountInv
  BY SizeAssumption DEF CountInv, Init, Start
<1>3. BufferInv
  <2>1. \A e \in End, k \in 1 .. NumCalls : prog[e][k].n \in 0 .. MaxLen
    BY <1>1 DEF TypeOK, Call
  <2> SUFFICES ASSUME NEW e \in End, NEW k \in 1 .. NumCalls, NEW m \in 1 .. prog[e][k].n
               PROVE  buf[e][k][m] = Blank /\ ~ (k < call[e]) /\ ~ (m <= cnt[e])
    BY DEF BufferInv
  <2>2. m \in 1 .. MaxLen
    BY <2>1, SizeAssumption
  <2> QED
    BY <2>2 DEF Init, Start
<1> QED
  BY <1>2, <1>3

\* The invariant holds in the initial states of matching programs.
LEMMA InvInitially == Init /\ Matched => IInv
<1> SUFFICES ASSUME Init, Matched PROVE IInv
  OBVIOUS
<1>1. TypeOK /\ Matched /\ NoTrap
  BY TypeInitially DEF NoTrap, Init, Start, LinkInit
<1>2. CountInv /\ BufferInv
  BY BuffersInitially
<1>4. FlowInv
  <2>1. CASE NumCalls = 0
    BY <2>1 DEF FlowInv, AllDone, Init, Start, LinkInit
  <2>2. CASE NumCalls # 0
    <3>1. PICK s \in End : prog[s][1].dir = "out"
      BY <1>1, <2>2, SizeAssumption DEF TypeOK, Matched, Call, End
    <3>2. Together(s, Other(s))
      BY <2>2, <3>1, EndFacts, SizeAssumption
         DEF Together, Cur, Init, Start, LinkInit
    <3> QED
      BY <3>2 DEF FlowInv
  <2> QED
    BY <2>1, <2>2
<1> QED
  BY <1>1, <1>2, <1>4 DEF IInv

\* The invariant is inductive: every instruction of either core preserves it.
LEMMA InvInductive == IInv /\ [Next]_vars => IInv'
<1>1. ASSUME IInv, UNCHANGED vars PROVE IInv'
  BY <1>1 DEF IInv, vars, TypeOK, LinkTypeOK, Matched, NoTrap, CountInv, FlowInv,
              BufferInv, Together, Ahead, InFlight, AllDone, Cur
<1>2. ASSUME IInv, NEW e \in End, ChanOut(e) \/ ChanIn(e) PROVE IInv'
  <2>1. TypeOK'
    BY <1>2, TypeInductive DEF IInv, Next
  <2>2. prog' = prog /\ trap' = trap /\ FlowInv'
    BY <1>2, LocalStep DEF Moves, Advance, Return, OutData, InItem
  <2>3. Matched' /\ NoTrap'
    BY <1>2, <2>2 DEF IInv, Matched, NoTrap
  <2>4. CountInv' /\ BufferInv'
    BY <1>2, <2>1, LocalStep, CountStep, BufferStep DEF IInv, ChanOut, ChanIn
  <2> QED
    BY <2>1, <2>2, <2>3, <2>4 DEF IInv
<1> QED
  BY <1>1, <1>2 DEF Next, Finished

\* Programs are fixed, so whether they match is too.
LEMMA ProgStays == [Next]_vars => prog' = prog
  BY DEF Next, Finished, vars, local, ChanOut, ChanIn, OutHandshake, CheckHandshake,
         OutData, InData, Advance, Return

\* In every state that matching programs reach, the progress of the two cores
\* determines what each buffer holds and what each input has received.
THEOREM MatchedInvariant == Spec => [](Matched => IInv)
<1>1. Init => (Matched => IInv)
  BY InvInitially
<1>2. (Matched => IInv) /\ [Next]_vars => (Matched => IInv)'
  BY InvInductive, ProgStays DEF Matched
<1> QED
  BY <1>1, <1>2, PTL DEF Spec

\* Matching calls never trap: every check meets its END and every input meets
\* data, for any number of calls, any lengths and any buffer capacity.
THEOREM MatchedNeverTraps == Spec => []NoTrap
<1>1. (Matched => IInv) => NoTrap
  BY DEF IInv, NoTrap
<1> QED
  BY <1>1, MatchedInvariant, PTL

\* Between calls both buffers are empty, so chan_free needs no handshake.
THEOREM Quiescence == Spec => []QuiescentBetweenCalls
<1>1. (Matched => IInv) => QuiescentBetweenCalls
  <2> SUFFICES ASSUME IInv, call["a"] = call["b"], \A e \in End : pc[e] = 0
               PROVE  \A e \in End : q[e] = << >>
    BY DEF QuiescentBetweenCalls
  <2>1. ASSUME NEW s \in End PROVE ~ Ahead(s, Other(s))
    BY <2>1, EndFacts DEF Ahead
  <2>2. ASSUME NEW s \in End, Together(s, Other(s)) PROVE \A e \in End : q[e] = << >>
    BY <2>2, EndFacts DEF Together
  <2> QED
    BY <2>1, <2>2 DEF IInv, FlowInv
<1> QED
  BY <1>1, MatchedInvariant, PTL

\* No call writes past its buffer or a chan-end's, whatever it meets, and between
\* matching calls nothing is left in a buffer (chan_out_*, chan_in_*).
THEOREM ChannelInvariant == Spec => []Inv
BY TypeCorrect, Quiescence, PTL DEF Inv

(***************************************************************************)
(* Refinement                                                              *)
(***************************************************************************)
\* The parties of the abstract transfer are the two ends of the channel.
LEMMA SameParties == R!Party = End /\ \A e \in End : R!Partner(e) = Other(e)
  BY DEF R!Party, R!Partner, End, Other

\* The initial states of matching programs are initial states of Rendezvous.
LEMMA InitRefines == Init => R!RInit
  BY SameParties DEF Init, Start, Matched, Call, Blank, R!RInit, R!Matched,
                     R!Call, R!Blank

\* A call returns only when the receiver's buffer holds all of its data.
LEMMA ReturnDelivered ==
   ASSUME IInv, NEW e \in End, ChanOut(e) \/ ChanIn(e), pc[e] = 3, Return(e)
   PROVE  call[Other(e)] >= call[e] /\ R!Delivered(call[e])
<1> DEFINE f == Other(e)
<1>0. /\ TypeOK /\ CountInv /\ BufferInv /\ Busy(e) /\ f \in End /\ f # e /\ Other(f) = e
      /\ call[e] \in 1 .. NumCalls /\ call[f] \in Nat
  BY CurrentCall, EndFacts, SizeAssumption DEF ChanOut, ChanIn, IInv, TypeOK
<1> HIDE DEF f
<1>1. \/ call[f] = call[e] /\ pc[f] = 3
      \/ call[f] = call[e] + 1
  <2>1. ~ Ahead(f, e)
    BY <1>0 DEF Ahead
  <2>2. ASSUME Together(e, f) PROVE pc[f] # 2
    <3>1. ChanOut(e)
      BY <2>2 DEF Together, ChanIn
    <3>2. q[e] # << >>
      BY <1>0, <3>1, OutInstructions DEF CheckCtEnd, CheckCtEndTraps
    <3> QED
      BY <2>2, <3>2 DEF Together
  <2>3. Together(e, f) \/ Ahead(e, f) \/ Together(f, e)
    BY <1>0, <2>1, Positions DEF IInv, f
  <2> QED
    BY <2>2, <2>3 DEF Together, Ahead
<1>2. ASSUME NEW g \in End, prog[g][call[e]].dir = "in",
             NEW m \in 1 .. prog[g][call[e]].n
      PROVE  buf[g][call[e]][m] = Item(call[e], m)
  <2>1. call[e] < call[g] \/ (call[g] = call[e] /\ cnt[g] = prog[g][call[e]].n)
    <3>1. g = e \/ g = f
      BY EndFacts DEF f
    <3> QED
      BY <1>0, <1>1, <3>1 DEF CountInv, Cur, Return
  <2> QED
    BY <1>0, <1>2, <2>1 DEF BufferInv
<1> QED
  BY <1>0, <1>1, <1>2, SameParties DEF R!Delivered, R!Item, Item, f

\* An item is input while the partner is in the same call, into the first
\* slot of the buffer that is still blank.
LEMMA ItemTransferred ==
   ASSUME IInv, NEW e \in End, Busy(e), pc[e] = 2, cnt[e] < Cur(e).n,
          Cur(e).dir = "in", InItem(e)
   PROVE  R!Transfer(e)
<1> DEFINE k == call[e]
           m == cnt[e] + 1
<1>0. /\ TypeOK /\ CountInv /\ BufferInv
      /\ k \in 1 .. NumCalls /\ Cur(e).n \in 0 .. MaxLen /\ cnt[e] \in Nat
  BY CurrentCall DEF IInv, TypeOK
<1>1. call[Other(e)] = call[e]
  BY Positions DEF IInv, Together, Ahead
<1>2. m \in 1 .. prog[e][k].n
  BY <1>0 DEF Cur
<1>3. buf[e][k][m] = Blank
  BY <1>0, <1>2 DEF BufferInv, Cur
<1>4. \A j \in 1 .. m - 1 : buf[e][k][j] # Blank
  <2> SUFFICES ASSUME NEW j \in 1 .. m - 1 PROVE buf[e][k][j] # Blank
    OBVIOUS
  <2>0. prog[e][k].n \in Nat
    BY <1>0, SizeAssumption DEF Cur
  <2>1. j \in 1 .. prog[e][k].n /\ j <= cnt[e]
    BY <1>0, <1>2, <2>0
  <2>2. buf[e][k][j] = Item(k, j)
    BY <1>0, <2>1 DEF BufferInv, Cur
  <2> QED
    BY <1>0, <2>2 DEF Item, Blank
<1>5. /\ call[e] <= NumCalls /\ prog[e][call[e]].dir = "in"
      /\ buf' = [buf EXCEPT ![e][call[e]][m] = Item(call[e], m)]
      /\ UNCHANGED <<prog, call>>
  BY <1>0 DEF InItem, Cur
<1> QED
  BY <1>1, <1>2, <1>3, <1>4, <1>5, SameParties
     DEF R!Transfer, R!Item, R!Blank, Item, Blank

\* Every instruction is a transfer of one item, the return of one call, or
\* invisible to Rendezvous.
LEMMA StepRefines == IInv /\ [Next]_vars => [R!RNext]_(R!avars)
<1>1. ASSUME UNCHANGED vars PROVE UNCHANGED R!avars
  BY <1>1 DEF vars, R!avars
<1>2. ASSUME IInv, NEW e \in End, ChanOut(e) \/ ChanIn(e)
      PROVE  R!RNext \/ UNCHANGED R!avars
  <2>1. CASE Advance(e) \/ OutData(e)
    BY <2>1 DEF Advance, OutData, R!avars
  <2>2. CASE pc[e] = 3 /\ Return(e)
    <3>1. call[e] <= NumCalls
      BY <1>2 DEF ChanOut, ChanIn, Busy
    <3>2. R!Return(e)
      BY <1>2, <2>2, <3>1, ReturnDelivered, SameParties DEF Return, R!Return
    <3> QED
      BY <3>2, SameParties DEF R!RNext
  <2>3. CASE pc[e] = 2 /\ cnt[e] < Cur(e).n /\ Cur(e).dir = "in" /\ InItem(e)
    <3>1. R!Transfer(e)
      BY <1>2, <2>3, ItemTransferred DEF ChanOut, ChanIn
    <3> QED
      BY <3>1, SameParties DEF R!RNext
  <2> QED
    BY <1>2, <2>1, <2>2, <2>3, LocalStep DEF Moves
<1> QED
  BY <1>1, <1>2 DEF Next, Finished

\* Matching calls implement a synchronous transfer: items reach the buffer in
\* order, and no call of either end returns before all of them have.
THEOREM SynchronousTransfer == Spec => Synchronous
<1>1. (Matched => IInv) /\ [Next]_vars => [R!RNext]_(R!avars)
  <2>1. CASE Matched
    BY <2>1, StepRefines
  <2>2. CASE ~Matched
    BY <2>2, ProgStays DEF R!RNext, R!Unspecified, R!Matched, Matched
  <2> QED
    BY <2>1, <2>2
<1> QED
  BY <1>1, InitRefines, MatchedInvariant, PTL DEF Spec, Synchronous, R!RSpec


(***************************************************************************)
(* Any two programs: the invariant                                         *)
(***************************************************************************)
\* The tokens that a core has output and input in its call: the stream of an
\* output is an END, its data and an END, and the input answers with one END
\* before the data and one after it.
Position(e) == IF pc[e] = 0 THEN 0 ELSE 1 + cnt[e] + (IF pc[e] = 3 THEN 1 ELSE 0)
Answer(e) == IF pc[e] < 2 THEN 0 ELSE 1
Sent(e) == IF Cur(e).dir = "out" THEN Position(e) ELSE Answer(e)
Used(e) == IF Cur(e).dir = "out" THEN Answer(e) ELSE Position(e)
SentToken(e, i) == IF Cur(e).dir = "out" /\ i \in 2 .. cnt[e] + 1
                   THEN Item(call[e], i - 1) ELSE CtEnd

\* What e has yet to input of the tokens that o has output is in its buffer.
Carried(o, e) == /\ Used(e) <= Sent(o)
                 /\ Len(q[e]) = Sent(o) - Used(e)
                 /\ \A i \in 1 .. Len(q[e]) : q[e][i] = SentToken(o, Used(e) + i)

\* Two inputs do not start, and an input that has checked the END after its
\* data has met an output of that length.
Progress(e, o) == /\ Cur(e).dir = "in" /\ Cur(o).dir = "in" => pc[e] = 0
                  /\ Cur(e).dir = "in" /\ pc[e] = 3 => pc[o] = 3 /\ Cur(e).n = Cur(o).n

SameCall(e, o) == /\ call[e] = call[o] /\ call[e] <= NumCalls
                  /\ Carried(o, e) /\ Carried(e, o)
                  /\ Progress(e, o) /\ Progress(o, e)

\* e returned first.  When o has yet to read data, because it made an empty
\* output and e another, it stays behind for ever.
Rest(e, k) == IF prog[e][k].dir = "in" THEN 0 ELSE prog[e][k].n
OneAhead(o, e) ==
   /\ call[e] = call[o] + 1 /\ call[o] <= NumCalls
   /\ Cur(o).dir = "out" /\ pc[o] = 3 /\ q[e] = << >>
   /\ Len(q[o]) = Rest(e, call[o]) + 1 + pc[e]
   /\ \A i \in 1 .. Len(q[o]) :
         q[o][i] = IF i <= Rest(e, call[o]) THEN Item(call[o], i) ELSE CtEnd
   /\ pc[e] = 0 \/ (pc[e] = 1 /\ call[e] <= NumCalls /\ Cur(e).dir = "out")
   /\ IF prog[e][call[o]].dir = "in" THEN prog[e][call[o]].n = Cur(o).n ELSE Cur(o).n = 0

StreamInv == \/ \E e \in End : SameCall(e, Other(e)) \/ OneAhead(Other(e), e)
             \/ AllDone /\ \A e \in End : q[e] = << >>

\* The calls from which both ends have returned.
Met(k) == /\ prog["a"][k].n = prog["b"][k].n
          /\ prog["a"][k].dir = prog["b"][k].dir => prog["a"][k].dir = "out" /\ prog["a"][k].n = 0
MetInv == \A k \in 1 .. NumCalls : k < call["a"] /\ k < call["b"] => Met(k)

AnyInv == TypeOK /\ CountInv /\ BufferInv /\ StreamInv /\ MetInv

\* The ranges of what a busy core has sent and used.
LEMMA StreamTypes ==
   ASSUME TypeOK, CountInv, NEW e \in End, call[e] <= NumCalls
   PROVE  /\ call[e] \in 1 .. NumCalls /\ call[e] \in Nat
          /\ pc[e] \in 0 .. 3 /\ cnt[e] \in Nat
          /\ Cur(e).n \in Nat /\ Cur(e).dir \in {"out", "in"}
          /\ Position(e) \in Nat /\ Answer(e) \in 0 .. 1
          /\ Sent(e) \in Nat /\ Used(e) \in Nat
          /\ pc[e] < 2 => cnt[e] = 0
          /\ pc[e] = 2 => cnt[e] <= Cur(e).n
          /\ pc[e] = 3 => cnt[e] = Cur(e).n
          /\ q[e] \in Seq(Token) /\ Len(q[e]) \in Nat
<1>1. call[e] \in 1 .. NumCalls /\ pc[e] \in 0 .. 3 /\ cnt[e] \in Nat /\ call[e] \in Nat
  BY SizeAssumption DEF TypeOK
<1>2. Cur(e) \in Call
  BY <1>1 DEF TypeOK, Cur
<1>3. Cur(e).n \in Nat /\ Cur(e).dir \in {"out", "in"}
  BY <1>2, SizeAssumption DEF Call
<1>4. Position(e) \in Nat /\ Answer(e) \in 0 .. 1
  BY <1>1 DEF Position, Answer
<1>5. q[e] \in Seq(Token) /\ Len(q[e]) \in Nat
  BY LenProperties DEF TypeOK, LinkTypeOK
<1> QED
  BY <1>1, <1>3, <1>4, <1>5 DEF Sent, Used, CountInv

\* A token is output: the partner's buffer carries it after the others.
LEMMA SendsOne ==
   ASSUME TypeOK, NEW e \in End, NEW o \in End, o = Other(e), NEW t \in Token, OutToken(e, t),
          NEW n \in Nat, n = Sent(e), NEW u \in Nat, u = Used(o),
          Carried(e, o), Sent(e)' = n + 1, Used(o)' = u, t = SentToken(e, n + 1)',
          \A i \in 1 .. n : SentToken(e, i)' = SentToken(e, i)
   PROVE  Carried(e, o)' /\ q'[e] = q[e]
<1>1. o # e /\ q \in [End -> Seq(Token)]
  BY EndFacts DEF TypeOK, LinkTypeOK
<1>2. q'[o] = Append(q[o], t) /\ q'[e] = q[e]
  BY <1>1 DEF OutToken
<1>3. /\ q[o] \in Seq(Token) /\ Len(q[o]) \in Nat /\ Len(q'[o]) = Len(q[o]) + 1
      /\ \A m \in 1 .. Len(q[o]) : q'[o][m] = q[o][m]
      /\ q'[o][Len(q[o]) + 1] = t
  BY <1>1, <1>2, AppendToken, LenProperties
<1>4. u <= n /\ Len(q[o]) = n - u
  BY DEF Carried
<1>9. PICK l \in Nat : l = Len(q[o]) /\ l = n - u
  BY <1>3, <1>4
<1>5. ASSUME NEW i \in 1 .. Len(q'[o]) PROVE q'[o][i] = SentToken(e, u + i)'
  <2>1. CASE i \in 1 .. Len(q[o])
    <3>0. i \in 1 .. l
      BY <1>9, <2>1
    <3>1. u + i \in 1 .. n
      BY <1>4, <1>9, <3>0
    <3>2. q[o][i] = SentToken(e, u + i)
      BY <2>1 DEF Carried
    <3> QED
      BY <1>3, <2>1, <3>1, <3>2
  <2>2. CASE i = Len(q[o]) + 1
    <3>1. u + i = n + 1
      BY <1>3, <1>4, <2>2
    <3>2. q'[o][i] = t
      BY <1>3, <2>2
    <3> QED
      BY <3>1, <3>2
  <2> QED
    BY <1>3, <2>1, <2>2
<1>6. Used(o)' <= Sent(e)' /\ Len(q'[o]) = Sent(e)' - Used(o)'
  BY <1>3, <1>4
<1>7. \A i \in 1 .. Len(q'[o]) : q'[o][i] = SentToken(e, Used(o) + i)'
  BY <1>5
<1> QED
  BY <1>2, <1>6, <1>7 DEF Carried

\* The token that a core comes to is the next of its partner's stream.
LEMMA NextToken ==
   ASSUME TypeOK, NEW e \in End, NEW o \in End, Carried(o, e), q[e] # << >>,
          Sent(o) \in Nat, Used(e) \in Nat
   PROVE  Used(e) + 1 <= Sent(o) /\ Head(q[e]) = SentToken(o, Used(e) + 1)
<1>1. q[e] \in Seq(Token) /\ Head(q[e]) = q[e][1] /\ Len(q[e]) \in Nat \ {0}
  BY ConsumeToken DEF TypeOK, LinkTypeOK
<1> QED
  BY <1>1 DEF Carried

\* A token is consumed.
LEMMA UsesOne ==
   ASSUME TypeOK, NEW e \in End, NEW o \in End, o = Other(e), q[e] # << >>,
          q' = [q EXCEPT ![e] = Tail(@)],
          NEW n \in Nat, n = Sent(o), NEW u \in Nat, u = Used(e),
          Carried(o, e), Used(e)' = u + 1, Sent(o)' = n,
          \A i : SentToken(o, i)' = SentToken(o, i)
   PROVE  Carried(o, e)' /\ q'[o] = q[o]
<1>1. o # e /\ q \in [End -> Seq(Token)]
  BY EndFacts DEF TypeOK, LinkTypeOK
<1>2. q'[e] = Tail(q[e]) /\ q'[o] = q[o]
  BY <1>1
<1>3. /\ Len(q[e]) \in Nat \ {0} /\ Len(q'[e]) = Len(q[e]) - 1
      /\ \A m \in 1 .. Len(q[e]) - 1 : q'[e][m] = q[e][m + 1]
  BY <1>1, <1>2, ConsumeToken
<1>4. u <= n /\ Len(q[e]) = n - u
  BY DEF Carried
<1>9. PICK l \in Nat \ {0} : l = Len(q[e])
  BY <1>3
<1>5. ASSUME NEW i \in 1 .. Len(q'[e]) PROVE q'[e][i] = SentToken(o, u + 1 + i)'
  <2>0. i \in 1 .. l - 1
    BY <1>3, <1>9
  <2>1. i + 1 \in 1 .. l /\ u + (i + 1) = u + 1 + i
    BY <2>0
  <2>2. q[e][i + 1] = SentToken(o, u + (i + 1))
    BY <1>9, <2>1 DEF Carried
  <2> QED
    BY <1>3, <1>9, <2>0, <2>1, <2>2
<1>6. Used(e)' <= Sent(o)' /\ Len(q'[e]) = Sent(o)' - Used(e)'
  BY <1>3, <1>4
<1>7. \A i \in 1 .. Len(q'[e]) : q'[e][i] = SentToken(o, Used(e) + i)'
  BY <1>5
<1> QED
  BY <1>2, <1>6, <1>7 DEF Carried

\* A buffer that is left alone, and the stream it is filled from.
LEMMA KeepsAll ==
   ASSUME NEW e \in End, NEW o \in End, Carried(o, e), q'[e] = q[e],
          NEW n \in Nat, n = Sent(o), NEW u \in Nat, u = Used(e),
          Used(e)' = u, Sent(o)' = n,
          \A i \in 1 .. n : SentToken(o, i)' = SentToken(o, i), Len(q[e]) \in Nat
   PROVE  Carried(o, e)'
<1>1. \A i \in 1 .. Len(q[e]) : u + i \in 1 .. n
  BY DEF Carried
<1> QED
  BY <1>1 DEF Carried

\* The instructions of a call but its last: each outputs the next token of its
\* stream or consumes one.
Sends(e) ==
   /\ pc[e] < 3 /\ prog' = prog /\ call' = call /\ Used(e)' = Used(e)
   /\ \E n \in Nat : \E t \in Token :
         /\ n = Sent(e) /\ Sent(e)' = n + 1
         /\ t = SentToken(e, n + 1)' /\ OutToken(e, t)
         /\ \A i \in 1 .. n : SentToken(e, i)' = SentToken(e, i)
Takes(e) ==
   /\ pc[e] < 3 /\ prog' = prog /\ call' = call /\ Used(e)' = Used(e) + 1 /\ Sent(e)' = Sent(e)
   /\ q[e] # << >> /\ q' = [q EXCEPT ![e] = Tail(@)]
   /\ \A i \in 1 .. Sent(e) : SentToken(e, i)' = SentToken(e, i)
Stops(e) == UNCHANGED <<q, local>>

\* What a core does not change.
Elsewhere(o) == /\ call'[o] = call[o] /\ pc'[o] = pc[o] /\ cnt'[o] = cnt[o]
                /\ Cur(o)' = Cur(o) /\ Sent(o)' = Sent(o) /\ Used(o)' = Used(o)
                /\ \A i : SentToken(o, i)' = SentToken(o, i)

LEMMA LeavesOther ==
   ASSUME TypeOK, NEW e \in End, NEW o \in End, o # e, prog' = prog,
          call'[o] = call[o], pc'[o] = pc[o], cnt'[o] = cnt[o]
   PROVE  Elsewhere(o)
<1>1. Cur(o)' = Cur(o)
  BY DEF Cur
<1>2. Position(o)' = Position(o) /\ Answer(o)' = Answer(o)
  BY DEF Position, Answer
<1>3. Sent(o)' = Sent(o) /\ Used(o)' = Used(o)
  BY <1>1, <1>2 DEF Sent, Used
<1>4. \A i : SentToken(o, i)' = SentToken(o, i)
  BY <1>1 DEF SentToken
<1> QED
  BY <1>1, <1>3, <1>4 DEF Elsewhere

\* An output without its return.
LEMMA OutStream ==
   ASSUME TypeOK, CountInv, NEW e \in End, ChanOut(e), ~ (pc[e] = 3 /\ CheckCtEnd(e))
   PROVE  (Sends(e) \/ Takes(e) \/ Stops(e)) /\ (Moves(e) \/ UNCHANGED local)
<1>0. /\ Busy(e) /\ Cur(e).dir = "out" /\ call[e] <= NumCalls /\ call[e] \in Nat
      /\ pc[e] \in 0 .. 3 /\ cnt[e] \in Nat /\ Cur(e).n \in Nat
      /\ pc[e] < 2 => cnt[e] = 0
      /\ pc \in [End -> 0 .. 3] /\ cnt \in [End -> 0 .. MaxLen]
  BY StreamTypes DEF ChanOut, Busy, TypeOK
<1>1. Sent(e) = Position(e) /\ Used(e) = Answer(e)
  BY <1>0 DEF Sent, Used
<1>2. \A i : SentToken(e, i) = IF i \in 2 .. cnt[e] + 1 THEN Item(call[e], i - 1) ELSE CtEnd
  BY <1>0 DEF SentToken
<1>3. prog' = prog /\ call' = call =>
         /\ Cur(e)' = Cur(e) /\ Cur(e)'.dir = "out"
         /\ Sent(e)' = Position(e)' /\ Used(e)' = Answer(e)'
         /\ \A i : SentToken(e, i)' = IF i \in 2 .. cnt'[e] + 1 THEN Item(call[e], i - 1) ELSE CtEnd
  BY <1>0 DEF Sent, Used, SentToken, Cur
<1>4. CASE pc[e] \in {0, 2} /\ OutCtEnd(e) /\ Advance(e) /\ (pc[e] = 2 => cnt[e] = Cur(e).n)
  <2>1. /\ prog' = prog /\ call' = call /\ cnt' = cnt /\ pc'[e] = pc[e] + 1 /\ OutToken(e, CtEnd)
    BY <1>0, <1>4 DEF Advance, OutCtEnd
  <2>2. Position(e) \in Nat /\ Position(e)' = Position(e) + 1 /\ Answer(e)' = Answer(e)
    BY <1>0, <1>4, <2>1 DEF Position, Answer
  <2>3. PICK n \in Nat : n = Position(e)
    BY <2>2
  <2>4. n + 1 \notin 2 .. cnt[e] + 1
    BY <1>0, <1>4, <2>3 DEF Position
  <2>5. CtEnd = SentToken(e, n + 1)' /\ \A i \in 1 .. n : SentToken(e, i)' = SentToken(e, i)
    BY <1>2, <1>3, <2>1, <2>4
  <2>6. Sends(e)
    BY <1>0, <1>1, <1>3, <1>4, <2>1, <2>2, <2>3, <2>5, ShortQueues DEF Sends
  <2> QED
    BY <1>4, <2>6 DEF Moves
<1>5. CASE pc[e] = 1 /\ CheckCtEnd(e) /\ Advance(e)
  <2>1. /\ prog' = prog /\ call' = call /\ cnt' = cnt /\ pc'[e] = pc[e] + 1
        /\ q[e] # << >> /\ q' = [q EXCEPT ![e] = Tail(@)]
    BY <1>0, <1>5 DEF Advance, CheckCtEnd
  <2>2. Position(e)' = Position(e) /\ Answer(e)' = Answer(e) + 1
    BY <1>0, <1>5, <2>1 DEF Position, Answer
  <2>3. \A i : SentToken(e, i)' = SentToken(e, i)
    BY <1>2, <1>3, <2>1
  <2>4. Takes(e)
    BY <1>1, <1>3, <1>5, <2>1, <2>2, <2>3 DEF Takes
  <2> QED
    BY <1>5, <2>4 DEF Moves
<1>6. CASE pc[e] = 2 /\ cnt[e] < Cur(e).n /\ OutData(e)
  <2>1. /\ prog' = prog /\ call' = call /\ pc' = pc /\ cnt'[e] = cnt[e] + 1
        /\ OutToken(e, Item(call[e], cnt[e] + 1))
    BY <1>0, <1>6 DEF OutData
  <2>2. Position(e) = cnt[e] + 1 /\ Position(e)' = cnt[e] + 2 /\ Answer(e)' = Answer(e)
    BY <1>0, <1>6, <2>1 DEF Position, Answer
  <2>3. PICK c \in Nat : c = cnt[e]
    BY <1>0
  <2>4. /\ Item(call[e], c + 1) = SentToken(e, c + 2)'
        /\ \A i \in 1 .. c + 1 : SentToken(e, i)' = SentToken(e, i)
    <3>1. c + 2 \in 2 .. cnt'[e] + 1 /\ c + 2 - 1 = c + 1
      BY <2>1, <2>3
    <3>2. \A i \in 1 .. c + 1 : i \in 2 .. cnt'[e] + 1 <=> i \in 2 .. cnt[e] + 1
      BY <2>1, <2>3
    <3> QED
      BY <1>2, <1>3, <2>1, <3>1, <3>2
  <2>5. Item(call[e], c + 1) \in Token
    BY <1>0 DEF Item, Token
  <2>6. c + 1 \in Nat /\ c + 1 + 1 = c + 2 /\ Sent(e) = c + 1 /\ Sent(e)' = c + 2
    BY <1>1, <1>3, <2>1, <2>2, <2>3
  <2>7. Sends(e)
    BY <1>1, <1>3, <1>6, <2>1, <2>2, <2>3, <2>4, <2>5, <2>6 DEF Sends
  <2> QED
    BY <1>0, <1>6, <2>7 DEF Moves
<1>7. CASE pc[e] \in {1, 3} /\ CheckCtEndTraps(e)
  <2>1. UNCHANGED local
    BY <1>7 DEF ChanOut, AtOpening, AtAnswer, AtData, CheckHandshake, CheckCtEndTraps, CheckCtEnd
  <2> QED
    BY <1>7, <2>1 DEF Stops, CheckCtEndTraps
<1> QED
  BY <1>4, <1>5, <1>6, <1>7, OutInstructions

\* An input without its return, of data that is in place.
LEMMA InStream ==
   ASSUME TypeOK, CountInv, NEW e \in End, ChanIn(e), ~ (pc[e] = 3 /\ OutCtEnd(e)),
          pc[e] = 2 /\ q[e] # << >> /\ Head(q[e]) # CtEnd => Head(q[e]) = Item(call[e], cnt[e] + 1)
   PROVE  /\ Sends(e) \/ Takes(e) \/ Stops(e)
          /\ Moves(e) \/ UNCHANGED local
          /\ Sends(e) \/ Takes(e) => q[e] # << >> \/ pc[e] = 1
          /\ pc'[e] = 3 => UNCHANGED local \/ (/\ pc[e] = 2 /\ cnt[e] = Cur(e).n
                                               /\ CheckCtEnd(e) /\ Advance(e))
<1>0. /\ Busy(e) /\ Cur(e).dir = "in" /\ call[e] <= NumCalls /\ call[e] \in Nat
      /\ pc[e] \in 0 .. 3 /\ cnt[e] \in Nat /\ Cur(e).n \in Nat
      /\ pc[e] < 2 => cnt[e] = 0
      /\ pc \in [End -> 0 .. 3] /\ cnt \in [End -> 0 .. MaxLen]
  BY StreamTypes DEF ChanIn, Busy, TypeOK
<1>1. Sent(e) = Answer(e) /\ Used(e) = Position(e)
  BY <1>0 DEF Sent, Used
<1>2. \A i : SentToken(e, i) = CtEnd
  BY <1>0 DEF SentToken
<1>3. prog' = prog /\ call' = call =>
         /\ Cur(e)' = Cur(e) /\ Cur(e)'.dir = "in"
         /\ Sent(e)' = Answer(e)' /\ Used(e)' = Position(e)'
         /\ \A i : SentToken(e, i)' = CtEnd
  BY <1>0 DEF Sent, Used, SentToken, Cur
<1>4. CASE pc[e] = 1 /\ OutCtEnd(e) /\ Advance(e)
  <2>1. /\ prog' = prog /\ call' = call /\ cnt' = cnt /\ pc'[e] = 2 /\ OutToken(e, CtEnd)
    BY <1>0, <1>4 DEF Advance, OutCtEnd
  <2>2. Position(e)' = Position(e) /\ Answer(e) = 0 /\ Answer(e)' = 1
    BY <1>0, <1>4, <2>1 DEF Position, Answer
  <2>3. Sends(e)
    BY <1>1, <1>2, <1>3, <1>4, <2>1, <2>2, ShortQueues DEF Sends
  <2> QED
    BY <1>4, <2>1, <2>3 DEF Moves
<1>5. CASE pc[e] \in {0, 2} /\ CheckCtEnd(e) /\ Advance(e) /\ (pc[e] = 2 => cnt[e] = Cur(e).n)
  <2>1. /\ prog' = prog /\ call' = call /\ cnt' = cnt /\ pc'[e] = pc[e] + 1
        /\ q[e] # << >> /\ q' = [q EXCEPT ![e] = Tail(@)]
    BY <1>0, <1>5 DEF Advance, CheckCtEnd
  <2>2. Position(e)' = Position(e) + 1 /\ Answer(e)' = Answer(e)
    BY <1>0, <1>5, <2>1 DEF Position, Answer
  <2>3. Takes(e)
    BY <1>1, <1>2, <1>3, <1>5, <2>1, <2>2 DEF Takes
  <2> QED
    BY <1>5, <2>1, <2>3 DEF Moves
<1>6. CASE pc[e] = 2 /\ cnt[e] < Cur(e).n /\ InData(e) /\ InToken(e)
  <2>1. /\ prog' = prog /\ call' = call /\ pc' = pc /\ cnt'[e] = cnt[e] + 1
        /\ q[e] # << >> /\ q' = [q EXCEPT ![e] = Tail(@)] /\ Head(q[e]) # CtEnd
        /\ cnt' = [cnt EXCEPT ![e] = @ + 1]
        /\ buf' = [buf EXCEPT ![e][call[e]][cnt[e] + 1] = Head(q[e])]
    BY <1>0, <1>6 DEF InData, InToken, InTokenTraps
  <2>2. Position(e)' = Position(e) + 1 /\ Answer(e)' = Answer(e)
    BY <1>0, <1>6, <2>1 DEF Position, Answer
  <2>3. Takes(e)
    BY <1>1, <1>2, <1>3, <1>6, <2>1, <2>2 DEF Takes
  <2>4. InItem(e)
    BY <1>6, <2>1 DEF InItem
  <2> QED
    BY <1>0, <1>6, <2>1, <2>3, <2>4 DEF Moves
<1>7. CASE CheckCtEndTraps(e) \/ InTokenTraps(e)
  <2>1. q' = q /\ q[e] # << >> /\ trap' # trap
    BY <1>0, <1>7 DEF CheckCtEndTraps, InTokenTraps, Busy, TypeOK, LinkTypeOK
  <2>2. ~ OutCtEnd(e) /\ ~ CheckCtEnd(e) /\ ~ InToken(e)
    BY <2>1 DEF OutCtEnd, OutToken, CheckCtEnd, InToken
  <2>3. CheckHandshake(e) \/ OutHandshake(e) \/ InData(e)
    BY DEF ChanIn
  <2>4. UNCHANGED local
    BY <2>2, <2>3 DEF CheckHandshake, OutHandshake, InData
  <2> QED
    BY <2>1, <2>4 DEF Stops, local
<1>8. InData(e) => InToken(e) \/ InTokenTraps(e)
  BY DEF InData
<1> QED
  BY <1>4, <1>5, <1>6, <1>7, <1>8, InInstructions

\* A core that is not at its return stays in the same call as its partner.
LEMMA WithinCall ==
   ASSUME TypeOK, CountInv, NEW e \in End, NEW o \in End, o = Other(e), SameCall(e, o),
          Elsewhere(o), Sends(e) \/ Takes(e), pc'[e] \in Nat,
          Cur(e).dir = "in" /\ Cur(o).dir = "in" => FALSE,
          Cur(e).dir = "in" /\ pc'[e] = 3 => pc[o] = 3 /\ Cur(e).n = Cur(o).n
   PROVE  SameCall(e, o)'
<1>0. /\ e # o /\ e = Other(o) /\ call[e] <= NumCalls /\ call[o] <= NumCalls
      /\ Carried(o, e) /\ Carried(e, o) /\ Progress(e, o) /\ Progress(o, e)
      /\ call[e] = call[o]
  BY EndFacts DEF SameCall
<1>1. /\ Sent(e) \in Nat /\ Used(e) \in Nat /\ Sent(o) \in Nat /\ Used(o) \in Nat
      /\ Len(q[e]) \in Nat /\ Len(q[o]) \in Nat
  BY <1>0, StreamTypes
<1>2. PICK ne \in Nat, ue \in Nat, no \in Nat, uo \in Nat :
         ne = Sent(e) /\ ue = Used(e) /\ no = Sent(o) /\ uo = Used(o)
  BY <1>1
<1>3. /\ prog' = prog /\ call' = call /\ pc[e] < 3
      /\ Sent(o)' = no /\ Used(o)' = uo /\ \A i : SentToken(o, i)' = SentToken(o, i)
  BY <1>2 DEF Sends, Takes, Elsewhere
<1>4. Carried(o, e)' /\ Carried(e, o)'
  <2>1. CASE Sends(e)
    <3>1. PICK n \in Nat, t \in Token :
             /\ n = Sent(e) /\ Sent(e)' = n + 1
             /\ t = SentToken(e, n + 1)' /\ OutToken(e, t)
             /\ \A i \in 1 .. n : SentToken(e, i)' = SentToken(e, i)
      BY <2>1 DEF Sends
    <3>2. Used(e)' = ue
      BY <1>2, <2>1 DEF Sends
    <3>3. Carried(e, o)' /\ q'[e] = q[e]
      BY <1>0, <1>2, <1>3, <3>1, SendsOne
    <3> QED
      BY <1>0, <1>1, <1>2, <1>3, <3>2, <3>3, KeepsAll
  <2>2. CASE Takes(e)
    <3>1. /\ Used(e)' = ue + 1 /\ Sent(e)' = ne
          /\ q[e] # << >> /\ q' = [q EXCEPT ![e] = Tail(@)]
          /\ \A i \in 1 .. ne : SentToken(e, i)' = SentToken(e, i)
      BY <1>2, <2>2 DEF Takes
    <3>2. Carried(o, e)' /\ q'[o] = q[o]
      BY <1>0, <1>2, <1>3, <3>1, UsesOne
    <3> QED
      BY <1>0, <1>1, <1>2, <1>3, <3>1, <3>2, KeepsAll
  <2> QED
    BY <2>1, <2>2
<1>5. Cur(e)' = Cur(e) /\ Cur(o)' = Cur(o) /\ pc'[o] = pc[o]
  BY <1>3 DEF Cur, Elsewhere
<1>6. Progress(e, o)'
  BY <1>5 DEF Progress
<1>7. Progress(o, e)'
  BY <1>0, <1>3, <1>5 DEF Progress
<1> QED
  BY <1>0, <1>3, <1>4, <1>6, <1>7 DEF SameCall

\* An input finds the data of its partner's output in place, and the END after
\* it only if both have the same length.
LEMMA FindsData ==
   ASSUME TypeOK, CountInv, NEW e \in End, NEW o \in End, o = Other(e), SameCall(e, o),
          Cur(e).dir = "in", q[e] # << >>
   PROVE  /\ Cur(o).dir = "out"
          /\ pc[e] = 2 /\ Head(q[e]) # CtEnd => Head(q[e]) = Item(call[e], cnt[e] + 1)
          /\ pc[e] = 2 /\ cnt[e] = Cur(e).n /\ Head(q[e]) = CtEnd =>
                pc[o] = 3 /\ Cur(e).n = Cur(o).n
<1>0. /\ e # o /\ e = Other(o) /\ call[e] <= NumCalls /\ call[o] <= NumCalls
      /\ Carried(o, e) /\ Carried(e, o) /\ Progress(e, o) /\ Progress(o, e)
      /\ call[e] = call[o]
  BY EndFacts DEF SameCall
<1>1. /\ Sent(e) \in Nat /\ Used(e) \in Nat /\ Sent(o) \in Nat /\ Used(o) \in Nat
      /\ cnt[e] \in Nat /\ cnt[o] \in Nat /\ Cur(e).n \in Nat /\ Cur(o).n \in Nat
      /\ pc[o] \in 0 .. 3 /\ Cur(o).dir \in {"out", "in"} /\ call[o] \in 1 .. NumCalls
      /\ call[o] \in Nat
      /\ pc[o] < 2 => cnt[o] = 0
      /\ pc[o] = 3 => cnt[o] = Cur(o).n
  BY <1>0, StreamTypes
<1>2. Used(e) + 1 <= Sent(o) /\ Head(q[e]) = SentToken(o, Used(e) + 1)
  BY <1>0, <1>1, NextToken
<1>3. Cur(o).dir = "out"
  <2>1. SUFFICES ASSUME Cur(o).dir = "in" PROVE FALSE
    BY <1>1
  <2>2. pc[o] = 0
    BY <1>0, <2>1 DEF Progress
  <2>3. Sent(o) = 0
    BY <2>1, <2>2 DEF Sent, Answer
  <2> QED
    BY <1>1, <1>2, <2>3
<1>4. Sent(o) = Position(o) /\ Used(e) = Position(e)
  BY <1>3 DEF Sent, Used
<1>5. ASSUME pc[e] = 2 PROVE Used(e) = cnt[e] + 1
  BY <1>1, <1>4, <1>5 DEF Position
<1>6. PICK c \in Nat, d \in Nat : c = cnt[e] /\ d = cnt[o]
  BY <1>1
<1>7. ASSUME pc[e] = 2, Head(q[e]) # CtEnd PROVE Head(q[e]) = Item(call[e], cnt[e] + 1)
  <2>1. Head(q[e]) = SentToken(o, c + 2)
    BY <1>2, <1>5, <1>6, <1>7
  <2>2. Head(q[e]) = Item(call[o], c + 2 - 1)
    BY <1>7, <2>1 DEF SentToken
  <2>3. c + 2 - 1 = c + 1
    OBVIOUS
  <2> QED
    BY <1>0, <1>6, <2>2, <2>3
<1>8. ASSUME pc[e] = 2, cnt[e] = Cur(e).n, Head(q[e]) = CtEnd
      PROVE  pc[o] = 3 /\ Cur(e).n = Cur(o).n
  <2>1. Head(q[e]) = SentToken(o, c + 2) /\ c + 2 <= Sent(o)
    BY <1>1, <1>2, <1>5, <1>6, <1>8
  <2>2. c + 2 \notin 2 .. d + 1
    <3>1. ASSUME c + 2 \in 2 .. d + 1 PROVE FALSE
      <4>1. SentToken(o, c + 2) = Item(call[o], c + 2 - 1)
        BY <1>3, <1>6, <3>1 DEF SentToken
      <4>2. c + 2 - 1 = c + 1 /\ c + 1 # 0
        OBVIOUS
      <4>3. Item(call[o], c + 1) # CtEnd
        BY <4>2 DEF Item, CtEnd
      <4> QED
        BY <1>8, <2>1, <4>1, <4>2, <4>3
    <3> QED
      BY <3>1
  <2>3. pc[o] # 0 /\ Sent(o) = 1 + d + (IF pc[o] = 3 THEN 1 ELSE 0)
    <3>1. pc[o] = 0 => Sent(o) = 0
      BY <1>4 DEF Position
    <3>2. Sent(o) # 0
      BY <1>6, <2>1
    <3> QED
      BY <1>4, <1>6, <3>1, <3>2 DEF Position
  <2>4. pc[o] = 3 /\ c = d
    BY <1>6, <2>1, <2>2, <2>3
  <2> QED
    BY <1>1, <1>6, <1>8, <2>4
<1> QED
  BY <1>3, <1>7, <1>8

\* A call changes nothing of the partner but its buffer.
LEMMA LocalChange ==
   ASSUME TypeOK, NEW e \in End, NEW o \in End, o = Other(e), Moves(e) \/ UNCHANGED local
   PROVE  Elsewhere(o)
<1>1. o # e /\ call \in [End -> 1 .. NumCalls + 1] /\ pc \in [End -> 0 .. 3] /\ cnt \in [End -> 0 .. MaxLen]
  BY EndFacts DEF TypeOK
<1>2. prog' = prog /\ call'[o] = call[o] /\ pc'[o] = pc[o] /\ cnt'[o] = cnt[o]
  BY <1>1 DEF Moves, Advance, Return, OutData, InItem, local
<1> QED
  BY <1>1, <1>2, LeavesOther

\* A core that stops leaves everything as it was.
LEMMA Stopped ==
   ASSUME AnyInv, UNCHANGED <<q, local>>, TypeOK'
   PROVE  AnyInv'
<1>1. CountInv' /\ BufferInv'
  BY DEF AnyInv, CountInv, BufferInv, local, Cur
<1>2. StreamInv'
  <2>1. q' = q /\ prog' = prog /\ call' = call /\ pc' = pc /\ cnt' = cnt
    BY DEF local
  <2>2. \A e : Cur(e)' = Cur(e)
    BY <2>1 DEF Cur
  <2>3. \A e : Position(e)' = Position(e) /\ Answer(e)' = Answer(e)
    BY <2>1 DEF Position, Answer
  <2>4. \A e : Sent(e)' = Sent(e) /\ Used(e)' = Used(e)
    BY <2>2, <2>3 DEF Sent, Used
  <2>5. \A e, i : SentToken(e, i)' = SentToken(e, i)
    BY <2>1, <2>2 DEF SentToken
  <2>6. ASSUME NEW e \in End, NEW o \in End, Carried(o, e) PROVE Carried(o, e)'
    <3>1. \A i \in 1 .. Len(q[e]) : q[e][i] = SentToken(o, Used(e) + i)'
      BY <2>4, <2>5, <2>6 DEF Carried
    <3> QED
      BY <2>1, <2>4, <2>6, <3>1 DEF Carried
  <2>7. ASSUME NEW e \in End, NEW o \in End, SameCall(e, o) PROVE SameCall(e, o)'
    BY <2>1, <2>2, <2>6, <2>7 DEF SameCall, Progress
  <2>8. ASSUME NEW e \in End, NEW o \in End, OneAhead(o, e) PROVE OneAhead(o, e)'
    BY <2>1, <2>2, <2>8 DEF OneAhead, Rest
  <2>9. AllDone /\ (\A e \in End : q[e] = << >>) => StreamInv'
    BY <2>1 DEF AllDone, StreamInv
  <2> QED
    BY <2>7, <2>8, <2>9, EndFacts DEF AnyInv, StreamInv
<1>3. MetInv'
  BY DEF AnyInv, MetInv, Met, local
<1> QED
  BY <1>1, <1>2, <1>3 DEF AnyInv

\* Both ends are in the same call and e comes to another instruction of it.
LEMMA SameCallStep ==
   ASSUME TypeOK, TypeOK', CountInv, NEW e \in End, NEW o \in End, o = Other(e), SameCall(e, o),
          ChanOut(e) \/ ChanIn(e),
          ~ (ChanOut(e) /\ pc[e] = 3 /\ CheckCtEnd(e)), ~ (ChanIn(e) /\ pc[e] = 3 /\ OutCtEnd(e))
   PROVE  \/ UNCHANGED <<q, local>>
          \/ SameCall(e, o)' /\ Moves(e) /\ call' = call /\ prog' = prog
<1>0. /\ Cur(e).dir \in {"out", "in"} /\ pc'[e] \in Nat /\ pc[e] \in 0 .. 3
      /\ Cur(e).dir = "out" <=> ChanOut(e)
      /\ Cur(e).dir = "in" <=> ChanIn(e)
  <2>1. pc'[e] \in 0 .. 3
    BY DEF TypeOK
  <2> QED
    BY <2>1, StreamTypes DEF SameCall, ChanOut, ChanIn
<1>1. ASSUME Sends(e) \/ Takes(e) PROVE ~ UNCHANGED local
  <2>1. Sent(e) \in Nat /\ Used(e) \in Nat
    BY StreamTypes DEF SameCall
  <2>2. UNCHANGED local => Sent(e)' = Sent(e) /\ Used(e)' = Used(e)
    BY DEF local, Sent, Used, Position, Answer, Cur
  <2>3. PICK n \in Nat, u \in Nat : n = Sent(e) /\ u = Used(e)
    BY <2>1
  <2>4. Sent(e)' = n + 1 \/ Used(e)' = u + 1
    BY <1>1, <2>3 DEF Sends, Takes
  <2> QED
    BY <2>2, <2>3, <2>4
<1>2. CASE ChanOut(e)
  <2>1. (Sends(e) \/ Takes(e) \/ Stops(e)) /\ (Moves(e) \/ UNCHANGED local)
    BY <1>2, OutStream
  <2>2. CASE Sends(e) \/ Takes(e)
    <3>1. Moves(e) /\ Elsewhere(o) /\ Cur(e).dir = "out"
      BY <1>0, <1>1, <1>2, <2>1, <2>2, LocalChange
    <3>2. SameCall(e, o)'
      BY <1>0, <2>2, <3>1, WithinCall
    <3> QED
      BY <2>2, <3>1, <3>2 DEF Sends, Takes
  <2> QED
    BY <2>1, <2>2 DEF Stops
<1>3. CASE ChanIn(e)
  <2>0. Cur(e).dir = "in"
    BY <1>0, <1>3
  <2>1. /\ Sends(e) \/ Takes(e) \/ Stops(e)
        /\ Moves(e) \/ UNCHANGED local
        /\ Sends(e) \/ Takes(e) => q[e] # << >> \/ pc[e] = 1
        /\ pc'[e] = 3 => UNCHANGED local \/ (/\ pc[e] = 2 /\ cnt[e] = Cur(e).n
                                             /\ CheckCtEnd(e) /\ Advance(e))
    BY <1>3, <2>0, FindsData, InStream
  <2>2. CASE Sends(e) \/ Takes(e)
    <3>1. Moves(e) /\ Elsewhere(o)
      BY <1>1, <2>1, <2>2, LocalChange
    <3>2. Cur(o).dir # "in"
      <4>1. pc[e] = 1 => Cur(o).dir # "in"
        BY <2>0 DEF SameCall, Progress
      <4> QED
        BY <2>0, <2>1, <2>2, <4>1, FindsData
    <3>3. pc'[e] = 3 => pc[o] = 3 /\ Cur(e).n = Cur(o).n
      BY <1>1, <2>0, <2>1, <2>2, FindsData DEF CheckCtEnd
    <3>4. SameCall(e, o)'
      BY <1>0, <2>0, <2>2, <3>1, <3>2, <3>3, WithinCall
    <3> QED
      BY <2>2, <3>1, <3>4 DEF Sends, Takes
  <2> QED
    BY <2>1, <2>2 DEF Stops
<1> QED
  BY <1>2, <1>3

\* An output returns first only from an empty output: it has checked the END
\* that closes the partner's.
LEMMA OutReturnsFirst ==
   ASSUME TypeOK, CountInv, NEW e \in End, NEW o \in End, o = Other(e), SameCall(e, o),
          ChanOut(e), pc[e] = 3, CheckCtEnd(e), Return(e)
   PROVE  OneAhead(o, e)'
<1>0. /\ e # o /\ e = Other(o) /\ call[e] <= NumCalls /\ call[o] <= NumCalls
      /\ Carried(o, e) /\ Carried(e, o) /\ call[e] = call[o]
      /\ Cur(e).dir = "out"
  BY EndFacts DEF SameCall, ChanOut
<1>1. /\ Sent(e) \in Nat /\ Used(e) \in Nat /\ Sent(o) \in Nat /\ Used(o) \in Nat
      /\ cnt[e] = Cur(e).n /\ cnt[o] \in Nat /\ Cur(e).n \in Nat /\ Cur(o).n \in Nat
      /\ pc[o] \in 0 .. 3 /\ Cur(o).dir \in {"out", "in"} /\ call[o] \in 1 .. NumCalls
      /\ call[o] \in Nat /\ Answer(o) \in 0 .. 1
      /\ pc[o] = 3 => cnt[o] = Cur(o).n
      /\ q[e] \in Seq(Token) /\ Len(q[e]) \in Nat /\ Len(q[o]) \in Nat
  BY <1>0, StreamTypes
<1>2. q[e] # << >> /\ Head(q[e]) = CtEnd /\ q'[e] = Tail(q[e]) /\ q'[o] = q[o]
  BY <1>0 DEF CheckCtEnd, TypeOK, LinkTypeOK
<1>3. Used(e) = 1 /\ Sent(e) = cnt[e] + 2
  BY <1>0, <1>1 DEF Used, Sent, Answer, Position
<1>4. 2 <= Sent(o) /\ SentToken(o, 2) = CtEnd
  <2>1. Used(e) + 1 <= Sent(o) /\ Head(q[e]) = SentToken(o, Used(e) + 1)
    BY <1>0, <1>1, <1>2, NextToken
  <2>2. 1 + 1 = 2
    OBVIOUS
  <2> QED
    BY <1>2, <1>3, <2>1, <2>2
<1>5. Cur(o).dir = "out"
  BY <1>1, <1>4 DEF Sent
<1>6. cnt[o] = 0
  <2>1. ASSUME cnt[o] # 0 PROVE FALSE
    <3>1. 2 \in 2 .. cnt[o] + 1
      BY <1>1, <2>1
    <3>2. CtEnd = Item(call[o], 2 - 1) /\ 2 - 1 = 1
      BY <1>4, <1>5, <3>1 DEF SentToken
    <3> QED
      BY <3>2 DEF CtEnd, Item
  <2> QED
    BY <2>1
<1>7. pc[o] = 3 /\ Sent(o) = 2 /\ Cur(o).n = 0 /\ Used(o) = 1
  BY <1>1, <1>4, <1>5, <1>6 DEF Sent, Position, Used, Answer
<1>8. Len(q[e]) = 1 /\ q'[e] = << >>
  <2>1. Len(q[e]) = 1
    BY <1>0, <1>3, <1>7 DEF Carried
  <2>2. Tail(q[e]) \in Seq(Token) /\ Len(Tail(q[e])) = 0
    BY <1>1, <1>2, <2>1, ConsumeToken
  <2> QED
    BY <1>2, <2>1, <2>2, EmptySeq
<1>9. PICK n \in Nat : n = cnt[e] /\ n = Cur(e).n
  BY <1>1
<1>10. /\ Len(q[o]) = n + 1
       /\ \A i \in 1 .. Len(q[o]) : q[o][i] = IF i <= n THEN Item(call[o], i) ELSE CtEnd
  <2>1. Len(q[o]) = n + 1
    BY <1>0, <1>3, <1>7, <1>9 DEF Carried
  <2>2. ASSUME NEW i \in 1 .. n + 1
        PROVE  q[o][i] = IF i <= n THEN Item(call[o], i) ELSE CtEnd
    <3>1. q[o][i] = SentToken(e, 1 + i)
      BY <1>0, <1>7, <2>1, <2>2 DEF Carried
    <3>2. (1 + i \in 2 .. n + 1 <=> i <= n) /\ 1 + i - 1 = i
      BY <2>2
    <3>3. SentToken(e, 1 + i) = IF 1 + i \in 2 .. n + 1 THEN Item(call[e], 1 + i - 1) ELSE CtEnd
      BY <1>0, <1>9 DEF SentToken
    <3> QED
      BY <1>0, <3>1, <3>2, <3>3
  <2> QED
    BY <2>1, <2>2
<1>11. /\ prog' = prog /\ call'[e] = call[e] + 1 /\ call'[o] = call[o]
       /\ pc'[e] = 0 /\ pc'[o] = pc[o] /\ Cur(o)' = Cur(o)
  BY <1>0 DEF Return, TypeOK, Cur
<1>12. prog[e][call[o]] = Cur(e)
  BY <1>0 DEF Cur
<1>13. Rest(e, call[o])' = n
  BY <1>0, <1>9, <1>11, <1>12 DEF Rest
<1>14. prog'[e][call'[o]].dir = "out" /\ Cur(o)'.n = 0 /\ Cur(o)'.dir = "out"
  BY <1>0, <1>5, <1>7, <1>11, <1>12
<1>15. /\ Len(q'[o]) = n + 1 + pc'[e]
       /\ \A i \in 1 .. Len(q'[o]) : q'[o][i] = IF i <= n THEN Item(call'[o], i) ELSE CtEnd
  BY <1>2, <1>10, <1>11
<1> QED
  BY <1>0, <1>1, <1>7, <1>8, <1>11, <1>13, <1>14, <1>15 DEF OneAhead

\* An input returns first: it outputs the END that its partner awaits.
LEMMA InReturnsFirst ==
   ASSUME TypeOK, CountInv, NEW e \in End, NEW o \in End, o = Other(e), SameCall(e, o),
          ChanIn(e), pc[e] = 3, OutCtEnd(e), Return(e)
   PROVE  OneAhead(o, e)'
<1>0. /\ e # o /\ e = Other(o) /\ call[e] <= NumCalls /\ call[o] <= NumCalls
      /\ Carried(o, e) /\ Carried(e, o) /\ Progress(e, o) /\ call[e] = call[o]
      /\ Cur(e).dir = "in"
  BY EndFacts DEF SameCall, ChanIn
<1>1. /\ Sent(e) \in Nat /\ Used(e) \in Nat /\ Sent(o) \in Nat /\ Used(o) \in Nat
      /\ cnt[e] = Cur(e).n /\ Cur(e).n \in Nat /\ Cur(o).n \in Nat
      /\ Cur(o).dir \in {"out", "in"} /\ call[o] \in 1 .. NumCalls /\ call[o] \in Nat
      /\ pc[o] = 3 => cnt[o] = Cur(o).n
      /\ q[e] \in Seq(Token) /\ q[o] \in Seq(Token)
  BY <1>0, StreamTypes
<1>2. Cur(o).dir = "out" /\ pc[o] = 3 /\ Cur(e).n = Cur(o).n /\ cnt[o] = cnt[e]
  BY <1>0, <1>1 DEF Progress
<1>3. Used(e) = cnt[e] + 2 /\ Sent(e) = 1 /\ Used(o) = 1 /\ Sent(o) = cnt[e] + 2
  BY <1>0, <1>1, <1>2 DEF Used, Sent, Answer, Position
<1>4. q[e] = << >> /\ q[o] = << >>
  <2>1. Len(q[e]) = 0 /\ Len(q[o]) = 0
    BY <1>0, <1>1, <1>3 DEF Carried
  <2> QED
    BY <1>1, <2>1, EmptySeq
<1>5. q'[e] = << >> /\ q'[o] = <<CtEnd>>
  BY <1>0, <1>4, ShortQueues DEF OutCtEnd, OutToken, TypeOK, LinkTypeOK
<1>6. /\ prog' = prog /\ call'[e] = call[e] + 1 /\ call'[o] = call[o]
      /\ pc'[e] = 0 /\ pc'[o] = pc[o] /\ Cur(o)' = Cur(o)
  BY <1>0 DEF Return, TypeOK, Cur
<1>7. prog[e][call[o]] = Cur(e)
  BY <1>0 DEF Cur
<1>8. Rest(e, call[o])' = 0
  BY <1>0, <1>6, <1>7 DEF Rest
<1>9. Len(q'[o]) = 1 /\ \A i \in 1 .. 1 : q'[o][i] = CtEnd /\ ~ (i <= 0)
  <2>1. Len(<<CtEnd>>) = 1 /\ <<CtEnd>>[1] = CtEnd
    OBVIOUS
  <2> QED
    BY <1>5, <2>1
<1>10. /\ Len(q'[o]) = 0 + 1 + pc'[e]
       /\ \A i \in 1 .. Len(q'[o]) : q'[o][i] = IF i <= 0 THEN Item(call'[o], i) ELSE CtEnd
  BY <1>6, <1>9
<1>11. prog'[e][call'[o]].dir = "in" /\ prog'[e][call'[o]].n = Cur(o)'.n /\ Cur(o)'.dir = "out"
  BY <1>0, <1>2, <1>6, <1>7
<1>12. call'[e] = call'[o] + 1 /\ call'[o] <= NumCalls /\ pc'[o] = 3 /\ pc'[e] = 0
  BY <1>0, <1>2, <1>6
<1> QED
  BY <1>5, <1>8, <1>10, <1>11, <1>12 DEF OneAhead

\* The end that returned first can do no more than open an output.
LEMMA AheadStep ==
   ASSUME TypeOK, CountInv, NEW e \in End, NEW o \in End, o = Other(e), OneAhead(o, e),
          ChanOut(e) \/ ChanIn(e)
   PROVE  OneAhead(o, e)' /\ Moves(e) /\ call' = call /\ prog' = prog
<1>0. /\ e # o /\ e = Other(o) /\ q[e] = << >> /\ call[e] <= NumCalls /\ pc[e] \in {0, 1}
      /\ Busy(e) /\ call[o] <= NumCalls
      /\ pc[e] = 1 => Cur(e).dir = "out"
  BY EndFacts DEF OneAhead, ChanOut, ChanIn, Busy
<1>1. ~ CheckCtEnd(e) /\ ~ CheckCtEndTraps(e)
  BY <1>0 DEF CheckCtEnd, CheckCtEndTraps
<1>2. ChanOut(e)
  <2>1. ASSUME ChanIn(e) PROVE FALSE
    <3>1. Cur(e).dir = "in"
      BY <2>1 DEF ChanIn
    <3>2. pc[e] = 0
      BY <1>0, <3>1
    <3> QED
      BY <1>1, <2>1, <3>2, InInstructions
  <2> QED
    BY <2>1
<1>3. pc[e] = 0 /\ OutCtEnd(e) /\ Advance(e)
  BY <1>0, <1>1, <1>2, OutInstructions
<1>4. /\ prog' = prog /\ call' = call /\ pc'[e] = 1 /\ pc'[o] = pc[o] /\ Cur(e).dir = "out"
      /\ Cur(e)' = Cur(e) /\ Cur(o)' = Cur(o) /\ q'[e] = q[e] /\ q'[o] = Append(q[o], CtEnd)
  BY <1>0, <1>2, <1>3 DEF Advance, OutCtEnd, OutToken, TypeOK, LinkTypeOK, Cur, ChanOut
<1>5. PICK j : j = Rest(e, call[o])
  OBVIOUS
<1>6. j \in Nat /\ Rest(e, call[o])' = j
  <2>1. call[o] \in 1 .. NumCalls
    BY <1>0, StreamTypes
  <2>2. prog[e][call[o]] \in Call
    BY <2>1 DEF TypeOK
  <2>3. prog[e][call[o]].n \in Nat
    BY <2>2, SizeAssumption DEF Call
  <2>4. j \in Nat
    BY <1>5, <2>3 DEF Rest
  <2> QED
    BY <1>4, <1>5, <2>4 DEF Rest
<1>7. /\ Len(q[o]) = j + 1 /\ q[o] \in Seq(Token)
      /\ \A i \in 1 .. Len(q[o]) : q[o][i] = IF i <= j THEN Item(call[o], i) ELSE CtEnd
  BY <1>3, <1>5, <1>6 DEF OneAhead, TypeOK, LinkTypeOK
<1>8. /\ Len(q'[o]) = j + 2
      /\ \A i \in 1 .. j + 2 : q'[o][i] = IF i <= j THEN Item(call[o], i) ELSE CtEnd
  <2>1. /\ Len(q'[o]) = Len(q[o]) + 1 /\ q'[o][Len(q[o]) + 1] = CtEnd
        /\ \A m \in 1 .. Len(q[o]) : q'[o][m] = q[o][m]
    BY <1>4, <1>7, AppendToken, ShortQueues
  <2>2. ASSUME NEW i \in 1 .. j + 2
        PROVE  q'[o][i] = IF i <= j THEN Item(call[o], i) ELSE CtEnd
    <3>1. i \in 1 .. j + 1 \/ (i = j + 2 /\ ~ (i <= j))
      BY <1>6, <2>2
    <3>2. j + 1 + 1 = j + 2
      BY <1>6
    <3> QED
      BY <1>7, <2>1, <3>1, <3>2
  <2> QED
    BY <1>6, <1>7, <2>1, <2>2
<1>9. Len(q'[o]) = j + 1 + pc'[e]
  BY <1>4, <1>6, <1>8
<1>10. OneAhead(o, e)'
  BY <1>0, <1>3, <1>4, <1>6, <1>8, <1>9 DEF OneAhead
<1> QED
  BY <1>3, <1>4, <1>10 DEF Moves

\* The end that is behind returns when it finds the END it awaits; then both
\* have returned from matching calls, or from two empty outputs.
LEMMA BehindReturns ==
   ASSUME TypeOK, CountInv, NEW e \in End, NEW o \in End, o = Other(e), OneAhead(e, o),
          CheckCtEnd(e), Return(e), Busy(e)
   PROVE  StreamInv' /\ Met(call[e])
<1>0. /\ e # o /\ e = Other(o) /\ call[e] <= NumCalls /\ call[e] \in 1 .. NumCalls
      /\ call[o] = call[e] + 1 /\ call[o] \in 1 .. NumCalls + 1
      /\ Cur(e).dir = "out" /\ pc[e] = 3 /\ q[o] = << >>
      /\ pc[o] \in {0, 1}
  BY EndFacts, StreamTypes DEF OneAhead, TypeOK
<1>1. /\ q[e] \in Seq(Token) /\ q[e] # << >> /\ Head(q[e]) = CtEnd
      /\ q'[e] = Tail(q[e]) /\ q'[o] = q[o]
  BY <1>0 DEF CheckCtEnd, TypeOK, LinkTypeOK
<1>2. PICK j : j = Rest(o, call[e])
  OBVIOUS
<1>3. j \in Nat /\ prog[o][call[e]] \in Call /\ prog[o][call[e]].dir \in {"out", "in"}
  <2>1. prog[o][call[e]] \in Call
    BY <1>0 DEF TypeOK
  <2>2. prog[o][call[e]].n \in Nat /\ prog[o][call[e]].dir \in {"out", "in"}
    BY <2>1, SizeAssumption DEF Call
  <2> QED
    BY <1>2, <2>1, <2>2 DEF Rest
<1>4. j = 0
  <2>1. q[e][1] = CtEnd /\ 1 \in 1 .. Len(q[e])
    BY <1>1, ConsumeToken
  <2>2. q[e][1] = IF 1 <= j THEN Item(call[e], 1) ELSE CtEnd
    BY <1>2, <2>1 DEF OneAhead
  <2>3. Item(call[e], 1) # CtEnd
    BY DEF Item, CtEnd
  <2> QED
    BY <1>3, <2>1, <2>2, <2>3
<1>5. /\ prog[o][call[e]].n = Cur(e).n
      /\ prog[o][call[e]].dir = "out" => Cur(e).n = 0
  <2>1. CASE prog[o][call[e]].dir = "in"
    BY <2>1 DEF OneAhead
  <2>2. CASE prog[o][call[e]].dir = "out"
    <3>1. prog[o][call[e]].n = 0
      BY <1>2, <1>4, <2>2 DEF Rest
    <3>2. Cur(e).n = 0
      BY <2>2 DEF OneAhead
    <3> QED
      BY <3>1, <3>2
  <2> QED
    BY <1>3, <2>1, <2>2
<1>6. Met(call[e])
  <2>1. Cur(e) = prog[e][call[e]]
    BY DEF Cur
  <2>2. CASE e = "a" /\ o = "b"
    BY <1>0, <1>5, <2>1, <2>2 DEF Met
  <2>3. CASE e = "b" /\ o = "a"
    BY <1>0, <1>5, <2>1, <2>3 DEF Met
  <2> QED
    BY <1>0, <2>2, <2>3 DEF End
<1>7. /\ prog' = prog /\ call'[e] = call[o] /\ call'[o] = call[o]
      /\ pc'[e] = 0 /\ cnt'[e] = 0 /\ pc'[o] = pc[o] /\ cnt'[o] = cnt[o]
  BY <1>0 DEF Return, TypeOK
<1>8. /\ Len(q[e]) = 1 + pc[o]
      /\ \A i \in 1 .. Len(q[e]) : q[e][i] = CtEnd
  <2>1. Len(q[e]) = 1 + pc[o]
    BY <1>0, <1>2, <1>4 DEF OneAhead
  <2>2. ASSUME NEW i \in 1 .. Len(q[e]) PROVE q[e][i] = CtEnd
    <3>1. q[e][i] = IF i <= 0 THEN Item(call[e], i) ELSE CtEnd
      BY <1>2, <1>4, <2>2 DEF OneAhead
    <3>2. ~ (i <= 0)
      BY <1>0, <2>1, <2>2
    <3> QED
      BY <3>1, <3>2
  <2> QED
    BY <2>1, <2>2
<1>9. /\ Len(q'[e]) = pc[o] /\ q'[e] \in Seq(Token)
      /\ \A i \in 1 .. Len(q'[e]) : q'[e][i] = CtEnd
  <2>1. /\ Len(q'[e]) = Len(q[e]) - 1 /\ q'[e] \in Seq(Token)
        /\ \A i \in 1 .. Len(q[e]) - 1 : q'[e][i] = q[e][i + 1]
    BY <1>1, ConsumeToken
  <2>0. PICK p \in {0, 1} : p = pc[o]
    BY <1>0
  <2>2. Len(q'[e]) = pc[o] /\ Len(q[e]) - 1 = pc[o]
    <3>1. Len(q[e]) = 1 + p
      BY <1>8, <2>0
    <3>2. Len(q'[e]) = (1 + p) - 1
      BY <2>1, <3>1
    <3>3. (1 + p) - 1 = p
      BY <2>0
    <3> QED
      BY <2>0, <3>1, <3>2, <3>3
  <2>3. ASSUME NEW i \in 1 .. pc[o] PROVE q[e][i + 1] = CtEnd
    <3>1. i \in 1 .. p
      BY <2>0, <2>3
    <3>2. i + 1 \in 1 .. 1 + p
      BY <2>0, <3>1
    <3>3. Len(q[e]) = 1 + p
      BY <1>8, <2>0
    <3> QED
      BY <1>8, <3>2, <3>3
  <2> QED
    BY <2>1, <2>2, <2>3
<1>10. CASE call[o] = NumCalls + 1
  <2>1. pc[o] = 0
    BY <1>10 DEF CountInv
  <2>2. q'[e] = << >>
    BY <1>9, <2>1, EmptySeq
  <2>3. AllDone' /\ \A f \in End : q'[f] = << >>
    BY <1>0, <1>1, <1>7, <1>10, <2>2, EndFacts DEF AllDone
  <2> QED
    BY <1>6, <2>3 DEF StreamInv
<1>11. CASE call[o] # NumCalls + 1
  <2>0. call[o] <= NumCalls /\ call[o] \in 1 .. NumCalls
    BY <1>0, <1>11, SizeAssumption
  <2>1. Cur(o)' = Cur(o) /\ (pc[o] = 1 => Cur(o).dir = "out" /\ cnt[o] = 0)
    BY <1>0, <1>7 DEF Cur, OneAhead, CountInv
  <2>2. Sent(e)' = 0 /\ Used(e)' = 0 /\ Used(o)' = 0
    BY <1>0, <1>7, <2>1 DEF Sent, Used, Position, Answer
  <2>3. Sent(o)' = pc[o]
    BY <1>0, <1>7, <2>1 DEF Sent, Position, Answer
  <2>4. Carried(e, o)'
    BY <1>0, <1>1, <2>2, ShortQueues DEF Carried
  <2>5. Carried(o, e)'
    <3>1. ASSUME NEW i \in 1 .. Len(q'[e]) PROVE q'[e][i] = SentToken(o, 0 + i)'
      <4>1. i = 1 /\ pc[o] = 1 /\ cnt'[o] = 0
        <5>1. PICK p \in {0, 1} : p = pc[o]
          BY <1>0
        <5>2. i \in 1 .. p
          BY <1>9, <3>1, <5>1
        <5>3. i = 1 /\ p = 1
          BY <5>1, <5>2
        <5> QED
          BY <1>7, <2>1, <5>1, <5>3
      <4>2. SentToken(o, 0 + i)' = CtEnd
        BY <4>1 DEF SentToken
      <4> QED
        BY <1>9, <3>1, <4>2
    <3>2. Len(q'[e]) = Sent(o)' - Used(e)' /\ Used(e)' <= Sent(o)'
      <4>1. PICK p \in {0, 1} : p = pc[o]
        BY <1>0
      <4>2. p = p - 0 /\ 0 <= p
        BY <4>1
      <4>3. Len(q'[e]) = p /\ Sent(o)' = p
        BY <1>9, <2>3, <4>1
      <4> QED
        BY <2>2, <4>2, <4>3
    <3> QED
      BY <2>2, <3>1, <3>2 DEF Carried
  <2>6. Progress(e, o)'
    BY <1>7 DEF Progress
  <2>7. Progress(o, e)'
    BY <1>0, <1>7, <2>1 DEF Progress
  <2>8. SameCall(e, o)'
    BY <1>7, <2>0, <2>4, <2>5, <2>6, <2>7 DEF SameCall
  <2> QED
    BY <1>0, <1>6, <2>8 DEF StreamInv
<1> QED
  BY <1>6, <1>10, <1>11

\* An instruction of either end, whatever calls the two make.
LEMMA AnyStep ==
   ASSUME AnyInv, TypeOK', NEW e \in End, ChanOut(e) \/ ChanIn(e)
   PROVE  AnyInv'
<1> DEFINE o == Other(e)
<1>0. /\ o \in End /\ e # o /\ Other(o) = e /\ TypeOK /\ CountInv /\ BufferInv /\ MetInv
      /\ Busy(e) /\ call[e] <= NumCalls /\ call[e] \in 1 .. NumCalls
      /\ \A f \in End : f = e \/ f = o
      /\ call \in [End -> 1 .. NumCalls + 1]
  BY EndFacts, StreamTypes DEF AnyInv, ChanOut, ChanIn, Busy, TypeOK
<1>1. SameCall(e, o) \/ OneAhead(o, e) \/ OneAhead(e, o)
  <2>1. ~ AllDone
    BY <1>0, SizeAssumption DEF AllDone
  <2>2. SameCall(o, e) => SameCall(e, o)
    BY DEF SameCall
  <2> QED
    BY <1>0, <2>1, <2>2 DEF AnyInv, StreamInv
<1> HIDE DEF o
<1>2. ASSUME Moves(e), StreamInv', MetInv' PROVE AnyInv'
  BY <1>0, <1>2, CountStep, BufferStep DEF AnyInv
<1>3. ASSUME SameCall(e, o)' \/ OneAhead(o, e)' PROVE StreamInv'
  <2>1. o = Other(e)
    BY DEF o
  <2> QED
    BY <1>0, <1>3, <2>1 DEF StreamInv
<1>4. ASSUME prog' = prog, call' = call PROVE MetInv'
  BY <1>0, <1>4 DEF MetInv, Met
<1>5. o = Other(e)
  BY DEF o
<1>6. ASSUME SameCall(e, o), pc[e] = 3, Return(e),
             (ChanOut(e) /\ CheckCtEnd(e)) \/ (ChanIn(e) /\ OutCtEnd(e))
      PROVE  AnyInv'
  <2>1. StreamInv'
    BY <1>0, <1>3, <1>5, <1>6, OutReturnsFirst, InReturnsFirst
  <2>2. prog' = prog /\ call'[e] = call[e] + 1 /\ call'[o] = call[o] /\ call[o] = call[e]
    BY <1>0, <1>6 DEF Return, SameCall
  <2>3. MetInv'
    <3>1. \A k \in 1 .. NumCalls : k < call'[e] /\ k < call'[o] => k < call[e] /\ k < call[o]
      BY <2>2
    <3>2. (e = "a" /\ o = "b") \/ (e = "b" /\ o = "a")
      BY <1>0 DEF End
    <3> QED
      BY <1>0, <2>2, <3>1, <3>2 DEF MetInv, Met
  <2>4. Moves(e)
    BY <1>6 DEF Moves
  <2> QED
    BY <1>2, <2>1, <2>3, <2>4
<1>7. ASSUME SameCall(e, o), ~ (ChanOut(e) /\ pc[e] = 3 /\ CheckCtEnd(e)),
             ~ (ChanIn(e) /\ pc[e] = 3 /\ OutCtEnd(e))
      PROVE  AnyInv'
  <2>1. \/ UNCHANGED <<q, local>>
        \/ SameCall(e, o)' /\ Moves(e) /\ call' = call /\ prog' = prog
    BY <1>0, <1>5, <1>7, SameCallStep
  <2> QED
    BY <1>2, <1>3, <1>4, <2>1, Stopped
<1>8. CASE SameCall(e, o)
  <2>1. ChanOut(e) /\ pc[e] = 3 /\ CheckCtEnd(e) => Return(e)
    <3>1. CheckCtEnd(e) => ~ CheckCtEndTraps(e)
      BY DEF CheckCtEnd, CheckCtEndTraps
    <3> QED
      BY <1>0, <3>1, OutInstructions
  <2>2. ChanIn(e) /\ pc[e] = 3 /\ OutCtEnd(e) => Return(e)
    BY <1>0, InInstructions
  <2> QED
    BY <1>6, <1>7, <1>8, <2>1, <2>2
<1>9. CASE OneAhead(o, e)
  BY <1>0, <1>2, <1>3, <1>4, <1>5, <1>9, AheadStep
<1>10. CASE OneAhead(e, o)
  <2>1. Cur(e).dir = "out" /\ pc[e] = 3 /\ call[o] = call[e] + 1
    BY <1>10 DEF OneAhead
  <2>2. ChanOut(e)
    BY <2>1 DEF ChanIn
  <2>3. CASE CheckCtEnd(e) /\ Return(e)
    <3>1. StreamInv' /\ Met(call[e])
      BY <1>0, <1>5, <1>10, <2>3, BehindReturns
    <3>2. prog' = prog /\ call'[e] = call[e] + 1 /\ call'[o] = call[o]
      BY <1>0, <2>3 DEF Return
    <3>3. MetInv'
      <4>1. \A k \in 1 .. NumCalls :
               k < call'[e] /\ k < call'[o] => (k < call[e] /\ k < call[o]) \/ k = call[e]
        BY <1>0, <2>1, <3>2
      <4>2. (e = "a" /\ o = "b") \/ (e = "b" /\ o = "a")
        BY <1>0 DEF End
      <4> QED
        BY <1>0, <3>1, <3>2, <4>1, <4>2 DEF MetInv, Met
    <3>4. Moves(e)
      BY <2>1, <2>3 DEF Moves
    <3> QED
      BY <1>2, <3>1, <3>3, <3>4
  <2>4. CASE CheckCtEndTraps(e)
    <3>1. q' = q
      BY <2>4 DEF CheckCtEndTraps
    <3>2. ~ CheckCtEnd(e) /\ ~ AtOpening(e) /\ ~ AtData(e)
      BY <2>1, <2>4 DEF CheckCtEnd, CheckCtEndTraps, AtOpening, AtData
    <3>3. UNCHANGED local
      BY <2>2, <3>2 DEF ChanOut, CheckHandshake
    <3> QED
      BY <3>1, <3>3, Stopped
  <2> QED
    BY <1>0, <2>1, <2>2, <2>3, <2>4, OutInstructions
<1> QED
  BY <1>1, <1>8, <1>9, <1>10

\* Before the first call both cores are at its start and nothing is in flight.
LEMMA AnyInitially == Init => AnyInv
<1> SUFFICES ASSUME Init PROVE AnyInv
  OBVIOUS
<1>0. TypeOK /\ CountInv /\ BufferInv
  BY TypeInitially, BuffersInitially
<1>1. \A e \in End : call[e] = 1 /\ pc[e] = 0 /\ cnt[e] = 0 /\ q[e] = << >> /\ Other(e) \in End
  BY EndFacts DEF Init, Start, LinkInit
<1>2. MetInv
  <2>1. "a" \in End
    BY DEF End
  <2>2. call["a"] = 1
    BY <1>1, <2>1
  <2> QED
    BY <2>2 DEF MetInv
<1>3. StreamInv
  <2>1. CASE NumCalls = 0
    BY <1>1, <2>1 DEF StreamInv, AllDone
  <2>2. CASE NumCalls # 0
    <3>1. \A e \in End : Sent(e) = 0 /\ Used(e) = 0
      BY <1>1 DEF Sent, Used, Position, Answer
    <3>2. ASSUME NEW e \in End PROVE Carried(e, Other(e)) /\ Carried(Other(e), e)
      BY <1>1, <3>1, ShortQueues, EndFacts DEF Carried
    <3>3. ASSUME NEW e \in End PROVE Progress(e, Other(e)) /\ Progress(Other(e), e)
      BY <1>1 DEF Progress
    <3>4. ASSUME NEW e \in End PROVE SameCall(e, Other(e))
      BY <1>1, <2>2, <3>2, <3>3, SizeAssumption DEF SameCall
    <3> QED
      BY <3>4 DEF StreamInv, End
  <2> QED
    BY <2>1, <2>2
<1> QED
  BY <1>0, <1>2, <1>3 DEF AnyInv

\* Every step preserves the invariant, whatever the two programs.
LEMMA AnyInductive == AnyInv /\ [Next]_vars => AnyInv'
<1> SUFFICES ASSUME AnyInv, [Next]_vars PROVE AnyInv'
  OBVIOUS
<1>1. TypeOK'
  BY TypeInductive DEF AnyInv
<1>2. CASE UNCHANGED vars
  <2>1. UNCHANGED <<q, local>>
    BY <1>2 DEF vars, local
  <2> QED
    BY <1>1, <2>1, Stopped
<1>3. ASSUME NEW e \in End, ChanOut(e) \/ ChanIn(e) PROVE AnyInv'
  BY <1>1, <1>3, AnyStep
<1> QED
  BY <1>2, <1>3 DEF Next, Finished

\* In every state that any two programs reach, at most one core is a call ahead
\* of its partner, the progress of both determines what each buffer holds, and
\* two calls that have both returned had met.
THEOREM AnyProgramsInvariant == Spec => []AnyInv
BY AnyInitially, AnyInductive, PTL DEF Spec

\* A call from which one end has returned met a call it could meet.
LEMMA ReturnedCall ==
   ASSUME AnyInv, NEW e \in End, NEW k \in 1 .. NumCalls, k < call[e]
   PROVE  Agree(k) \/ MetEmptyOutput(e, Other(e), k)
<1> DEFINE o == Other(e)
<1>0. /\ o \in End /\ TypeOK /\ BufferInv
      /\ (e = "a" /\ o = "b") \/ (e = "b" /\ o = "a")
      /\ \A f \in End : call[f] \in 1 .. NumCalls + 1
      /\ prog[e][k] \in Call /\ prog[o][k] \in Call
  BY EndFacts DEF AnyInv, TypeOK, End, Other
<1>1. \A f \in End : f = e \/ f = o
  BY <1>0 DEF End
<1>2. /\ prog[e][k].dir \in {"out", "in"} /\ prog[o][k].dir \in {"out", "in"}
      /\ \A c \in Call : c.dir = "out" /\ c.n = 0 => c = [dir |-> "out", n |-> 0]
  BY <1>0 DEF Call
<1> HIDE DEF o
<1>3. ASSUME NEW f \in End, prog[f][k].dir = "in", k < call[f] PROVE Holds(f, k)
  BY <1>0, <1>3 DEF BufferInv, Holds
<1>4. CASE k < call[o]
  <2>1. Met(k)
    BY <1>0, <1>4 DEF AnyInv, MetInv
  <2>2. /\ prog[e][k].n = prog[o][k].n
        /\ prog[e][k].dir = prog[o][k].dir => prog[e][k].dir = "out" /\ prog[e][k].n = 0
    BY <1>0, <2>1 DEF Met
  <2>3. CASE prog[e][k].dir # prog[o][k].dir
    BY <1>0, <1>1, <1>3, <1>4, <2>2, <2>3 DEF Agree
  <2>4. CASE prog[e][k].dir = prog[o][k].dir
    BY <1>0, <1>2, <2>2, <2>4 DEF MetEmptyOutput, o
  <2> QED
    BY <2>3, <2>4
<1>5. CASE ~ (k < call[o])
  <2>1. OneAhead(o, e) /\ k = call[o]
    <3>1. ~ SameCall(e, o) /\ ~ SameCall(o, e) /\ ~ OneAhead(e, o) /\ ~ AllDone
      BY <1>0, <1>5, SizeAssumption DEF SameCall, OneAhead, AllDone
    <3>2. OneAhead(o, e)
      <4>1. Other(e) = o /\ Other(o) = e
        BY EndFacts DEF o
      <4> QED
        BY <1>1, <3>1, <4>1 DEF AnyInv, StreamInv
    <3> QED
      BY <1>0, <1>5, <3>2 DEF OneAhead
  <2>2. prog[o][k].dir = "out" /\ Cur(o) = prog[o][k]
    BY <2>1 DEF OneAhead, Cur
  <2>3. CASE prog[e][k].dir = "in"
    <3>1. prog[e][k].n = prog[o][k].n
      BY <2>1, <2>2, <2>3 DEF OneAhead
    <3>2. Holds(e, k)
      BY <1>3, <2>3
    <3> QED
      BY <1>0, <1>1, <2>2, <2>3, <3>1, <3>2 DEF Agree
  <2>4. CASE prog[e][k].dir = "out"
    <3>1. prog[o][k].n = 0
      BY <2>1, <2>2, <2>4 DEF OneAhead
    <3> QED
      BY <1>0, <1>2, <1>5, <2>2, <2>4, <3>1 DEF MetEmptyOutput, o
  <2> QED
    BY <1>2, <2>3, <2>4
<1> QED
  BY <1>4, <1>5

\* Whatever calls the two ends make, a call that returned error_none moved its
\* data intact or met an empty output: a mismatch is never silent, for every
\* program, length and buffer capacity.
THEOREM MismatchesAreNeverSilent == Spec => []MismatchNeverSilent
<1>1. AnyInv => MismatchNeverSilent
  BY ReturnedCall DEF MismatchNeverSilent
<1> QED
  BY <1>1, AnyProgramsInvariant, PTL
=============================================================================
