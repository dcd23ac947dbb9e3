-------------------------- MODULE TransactionProofs --------------------------
(***************************************************************************)
(* Theorems about Transaction.tla, for every number of transactions, of    *)
(* runs and of tokens, and every buffer capacity.                          *)
(***************************************************************************)
EXTENDS Transaction, SequenceTheorems, FiniteSetTheorems, TLAPS

(***************************************************************************)
(* Queues                                                                  *)
(***************************************************************************)
\* Appending a token: the length grows by one, the old tokens keep their
\* places and the new one comes last (outct, outt).
LEMMA AppendToken ==
   ASSUME NEW s \in Seq(Token), NEW t \in Token
   PROVE  /\ Append(s, t) \in Seq(Token)
          /\ Len(Append(s, t)) = Len(s) + 1 /\ Len(s) \in Nat
          /\ \A i \in 1 .. Len(s) : Append(s, t)[i] = s[i]
          /\ Append(s, t)[Len(s) + 1] = t
          /\ Append(s, t) # << >>
          /\ s = << >> => Append(s, t) = <<t>>
<1>1. /\ Append(s, t) \in Seq(Token)
      /\ Len(Append(s, t)) = Len(s) + 1
      /\ \A i \in 1 .. Len(s) : Append(s, t)[i] = s[i]
      /\ Append(s, t)[Len(s) + 1] = t
  BY AppendProperties
<1>2. Len(s) \in Nat
  BY LenProperties
<1>3. Append(s, t) # << >>
  BY <1>1, <1>2, EmptySeq
<1>4. s = << >> => Append(s, t) = <<t>>
  OBVIOUS
<1> QED
  BY <1>1, <1>2, <1>3, <1>4

\* Consuming a token: the rest moves up by one place (chkct, int).
LEMMA ConsumeToken ==
   ASSUME NEW s \in Seq(Token), s # << >>
   PROVE  /\ Head(s) = s[1] /\ Head(s) \in Token
          /\ Tail(s) \in Seq(Token)
          /\ Len(s) \in Nat \ {0} /\ Len(Tail(s)) = Len(s) - 1
          /\ \A i \in 1 .. Len(s) - 1 : Tail(s)[i] = s[i + 1]
          /\ Len(s) = 1 => Tail(s) = << >>
<1>1. /\ Head(s) = s[1] /\ Head(s) \in Token /\ Tail(s) \in Seq(Token)
      /\ Len(s) \in Nat \ {0} /\ Len(Tail(s)) = Len(s) - 1
      /\ \A i \in 1 .. Len(s) - 1 : Tail(s)[i] = s[i + 1]
  BY HeadTailProperties, EmptySeq, LenProperties
<1>2. Len(s) = 1 => Tail(s) = << >>
  <2> DEFINE rest == Tail(s)
  <2>1. Len(s) = 1 => rest \in Seq(Token) /\ Len(rest) = 0
    BY <1>1
  <2> HIDE DEF rest
  <2>2. Len(s) = 1 => rest = << >>
    BY <2>1, EmptySeq
  <2> QED
    BY <2>2 DEF rest
<1> QED
  BY <1>1, <1>2

\* The buffers of an end that has left a transaction.
One == <<CtEnd>>
Two == <<CtEnd, CtEnd>>

\* The buffers of one and of two ENDs, as appending and consuming make them.
LEMMA EndTokens ==
   /\ CtEnd \in Token
   /\ Append(<< >>, CtEnd) = One /\ Append(One, CtEnd) = Two
   /\ Head(One) = CtEnd /\ Tail(One) = << >> /\ One # << >>
   /\ Head(Two) = CtEnd /\ Tail(Two) = One /\ Two # << >>
   /\ Len(One) = 1 /\ One[1] = CtEnd /\ Two[1] = CtEnd
<1>1. CtEnd \in Token
  BY DEF CtEnd, Token
<1>2. One \in Seq(Token) /\ Two \in Seq(Token) /\ Len(One) = 1 /\ Len(Two) = 2
  BY <1>1 DEF One, Two
<1>3. Append(One, CtEnd) = Two
  <2>1. One[1] = CtEnd /\ Two[1] = CtEnd /\ Two[2] = CtEnd
    BY DEF One, Two
  <2>2. \A i \in 1 .. 2 : Append(One, CtEnd)[i] = Two[i]
    BY <1>1, <1>2, <2>1, AppendToken DEF One, Two
  <2>3. Append(One, CtEnd) \in Seq(Token) /\ Len(Append(One, CtEnd)) = 2
    BY <1>1, <1>2, AppendToken DEF One
  <2> QED
    BY <1>2, <2>2, <2>3, SeqEqual
<1>4. Append(<< >>, CtEnd) = One
  BY DEF One
<1>5. Head(One) = CtEnd /\ Tail(One) = << >> /\ One # << >> /\ One[1] = CtEnd
  BY DEF One
<1>6. Head(Two) = CtEnd /\ Tail(Two) = One /\ Two # << >> /\ Two[1] = CtEnd
  BY DEF One, Two
<1> QED
  BY <1>1, <1>2, <1>3, <1>4, <1>5, <1>6

(***************************************************************************)
(* Matching transactions: the inductive invariant                          *)
(***************************************************************************)
Length(e) == Len(Cur(e).runs)
Outputs(e, k) == Cur(e).runs[k].dir = "out"
Tokens(e, k) == Cur(e).runs[k].n

\* Each end by itself: nothing is counted outside a run, a direction has been
\* taken before a token is moved, and only the completion has halves.
LocalOK(e) ==
   /\ trans[e] > NumTrans => run[e] = 0
   /\ run[e] = 0 => cnt[e] = 0 /\ half[e] = FALSE
   /\ trans[e] <= NumTrans =>
         /\ run[e] <= Length(e) + 1
         /\ run[e] = Length(e) + 1 => cnt[e] = 0
         /\ run[e] \in 1 .. Length(e) =>
               /\ half[e] = FALSE
               /\ cnt[e] <= Tokens(e, run[e])
               /\ cnt[e] > 0 /\ Outputs(e, run[e]) => last_out[e] = TRUE
               /\ cnt[e] > 0 /\ ~Outputs(e, run[e]) => last_out[e] = FALSE
LocalInv == \A e \in End : LocalOK(e)

\* The m-th token of the k-th run is one that e has yet to move.
Ahead(e, k, m) == k > run[e] \/ (k = run[e] /\ m > cnt[e])

\* It is one that s has moved and r has not.
Owed(s, r, k, m) == /\ k \in 1 .. Length(r) /\ m \in 1 .. Tokens(r, k)
                    /\ Ahead(r, k, m) /\ ~Ahead(s, k, m)

Base(e) == (trans[e] - 1) * MaxRuns
Precedes(x, y) == x[1] < y[1] \/ (x[1] = y[1] /\ x[2] < y[2])

\* The first n tokens in the buffer of r are those that s has output and r has
\* yet to input, in order.
Carries(s, r, n) ==
   /\ \A i \in 1 .. n : \E k \in 1 .. Length(r) : \E m \in 1 .. Tokens(r, k) :
                           q[r][i] = <<Base(r) + k, m>> /\ Owed(s, r, k, m)
   /\ \A k \in 1 .. Length(r) : \A m \in 1 .. Tokens(r, k) :
         Owed(s, r, k, m) => \E i \in 1 .. n : q[r][i] = <<Base(r) + k, m>>
   /\ \A i, j \in 1 .. n : i < j => Precedes(q[r][i], q[r][j])

\* Since it reached run k, s has done nothing but start inputs of no tokens.
Waits(s, k) == /\ k <= run[s] /\ ~last_out[s] /\ ~half[s]
               /\ \A i \in k .. run[s] - 1 : ~Outputs(s, i)
               /\ \A i \in k .. Length(s) : \A m \in 1 .. Tokens(s, i) : Ahead(s, i, m)

SameTrans(s, r) == trans[s] = trans[r] /\ trans[s] <= NumTrans
Together(s, r) == SameTrans(s, r) /\ run[s] > 0 /\ run[r] > 0 /\ q[s] = << >>

\* Between transactions.
Idle(s, r) == /\ trans[s] = trans[r] /\ run[s] = 0 /\ run[r] = 0
              /\ q[s] = << >> /\ q[r] = << >>

\* The master s has opened a transaction, and the slave r has not.
Opening(s, r) == /\ SameTrans(s, r) /\ run[s] > 0 /\ run[r] = 0
                 /\ Cur(s).role = "master"
                 /\ Waits(s, 1)
                 /\ q[s] = << >> /\ q[r] = One

\* s has the right to output, and every run that one of the ends is past and
\* the other is not is an output of s.
Holding(s, r) == /\ Together(s, r)
                 /\ last_out[s] /\ ~half[s] /\ ~last_out[r] /\ ~half[r]
                 /\ \A k \in 1 .. Length(s) :
                       (run[s] <= k /\ k < run[r]) \/ (run[r] <= k /\ k < run[s]) => Outputs(s, k)
                 /\ \A k \in 1 .. Length(s) : \A m \in 1 .. Tokens(s, k) : ~Owed(r, s, k, m)
                 /\ Carries(s, r, Len(q[r]))

\* The data s has output is followed by an END.
Followed(s, r) == /\ q[r] # << >> /\ q[r][Len(q[r])] = CtEnd
                  /\ Carries(s, r, Len(q[r]) - 1)

\* s passed the right to output to r in run k.
Passing(s, r, k) == /\ Together(s, r) /\ Followed(s, r)
                    /\ ~last_out[r] /\ ~half[r]
                    /\ run[r] <= k /\ ~Outputs(s, k) /\ Waits(s, k)
                    /\ \A i \in run[r] .. k - 1 : Outputs(s, i)

\* s began to complete the transaction with the right to output, and r has yet
\* to come to that; or r has come to it.
Completing(s, r) == /\ Together(s, r)
                    /\ run[s] = Length(s) + 1 /\ last_out[s] /\ half[s] /\ ~last_out[r]
                    /\ \/ /\ ~half[r] /\ Followed(s, r)
                          /\ \A i \in run[r] .. Length(r) : Outputs(s, i)
                       \/ half[r] /\ run[r] = Length(r) + 1 /\ q[r] = << >>

\* r has completed the transaction and s has yet to consume its END; r may have
\* opened the next as master, whose END queues behind that one.
Leaving(s, r) == /\ trans[r] = trans[s] + 1
                 /\ run[s] = Length(s) + 1 /\ last_out[s] /\ half[s]
                 /\ q[r] = << >>
                 /\ \/ run[r] = 0 /\ q[s] = One
                    \/ /\ trans[r] <= NumTrans /\ run[r] > 0 /\ Cur(r).role = "master"
                       /\ Waits(r, 1)
                       /\ q[s] = Two

Shape(s, r) == \/ Idle(s, r) \/ Opening(s, r) \/ Holding(s, r)
               \/ SameTrans(s, r) /\ \E k \in 1 .. Length(s) : Passing(s, r, k)
               \/ Completing(s, r) \/ Leaving(s, r)

FlowInv == \E s \in End : Shape(s, Other(s))

\* All of it, for conversations that match.
IInv == TypeOK /\ Matched /\ LocalInv /\ FlowInv /\ \A e \in End : ~trap[e]

(***************************************************************************)
(* Types                                                                   *)
(***************************************************************************)
LEMMA EndFacts == \A e \in End : /\ Other(e) \in End /\ Other(e) # e /\ Other(Other(e)) = e
                                 /\ \A f \in End : f = e \/ f = Other(e)
BY DEF End, Other

\* A transaction of either end has at most MaxRuns runs.
LEMMA SideLength ==
   ASSUME TypeOK, NEW e \in End, NEW t \in 1 .. NumTrans
   PROVE  Len(conv[e][t].runs) \in 0 .. MaxRuns
<1>1. conv[e][t] \in Side
  BY DEF TypeOK
<1>2. PICK m \in 0 .. MaxRuns : conv[e][t].runs \in [1 .. m -> Run]
  BY <1>1 DEF Side
<1>3. m \in Nat
  BY <1>2, SizeAssumption
<1> QED
  BY <1>2, <1>3

\* The transaction an end is in has some number of runs, each of its length.
LEMMA CurrentSide ==
   ASSUME TypeOK, NEW e \in End, trans[e] <= NumTrans
   PROVE  /\ trans[e] \in 1 .. NumTrans
          /\ Length(e) \in 0 .. MaxRuns
          /\ \A k \in 1 .. Length(e) : /\ Tokens(e, k) \in 0 .. MaxLen
                                       /\ Cur(e).runs[k].dir \in {"out", "in"}
          /\ Cur(e).role \in {"master", "slave"}
<1>1. trans[e] \in 1 .. NumTrans
  BY SizeAssumption DEF TypeOK
<1>2. Cur(e) \in Side
  BY <1>1 DEF TypeOK, Cur
<1>3. PICK m \in 0 .. MaxRuns : Cur(e).runs \in [1 .. m -> Run]
  BY <1>2 DEF Side
<1>4. m \in Nat
  BY <1>3, SizeAssumption
<1>5. Length(e) = m
  BY <1>3, <1>4 DEF Length
<1> QED
  BY <1>1, <1>2, <1>3, <1>5 DEF Side, Run, Tokens

\* In matching transactions the runs of the two ends have the same lengths and
\* opposite directions.
LEMMA MatchedRuns ==
   ASSUME TypeOK, Matched, NEW s \in End, NEW r \in End, r = Other(s), SameTrans(s, r)
   PROVE  /\ Length(r) = Length(s) /\ Length(s) \in 0 .. MaxRuns
          /\ Cur(r).role # Cur(s).role
          /\ \A k \in 1 .. Length(s) : /\ Tokens(r, k) = Tokens(s, k)
                                       /\ Tokens(s, k) \in 0 .. MaxLen
                                       /\ Outputs(r, k) <=> ~Outputs(s, k)
          /\ Base(r) = Base(s) /\ Base(s) \in Nat
<1>1. /\ trans[s] \in 1 .. NumTrans /\ trans[r] = trans[s]
      /\ Length(s) \in 0 .. MaxRuns /\ Length(r) \in 0 .. MaxRuns
      /\ \A k \in 1 .. Length(s) : /\ Tokens(s, k) \in 0 .. MaxLen
                                   /\ Cur(s).runs[k].dir \in {"out", "in"}
      /\ \A k \in 1 .. Length(r) : Cur(r).runs[k].dir \in {"out", "in"}
  BY CurrentSide DEF SameTrans
<1>2. Mirrors(Cur(s), Cur(r)) \/ Mirrors(Cur(r), Cur(s))
  BY <1>1 DEF Matched, Cur, End, Other
<1>3. Base(s) \in Nat
  <2>1. trans[s] - 1 \in Nat /\ MaxRuns \in Nat
    BY <1>1, SizeAssumption
  <2> QED
    BY <2>1 DEF Base
<1> QED
  BY <1>1, <1>2, <1>3 DEF Mirrors, Meets, Length, Tokens, Outputs, Base

\* The initial states are of the right types, matching or not.
LEMMA TypeInit == Init => TypeOK
BY EmptySeq, SizeAssumption, CapAssumption DEF Init, Start, LinkInit, TypeOK, LinkTypeOK

\* The buffers keep their types, whatever is done with the ends of a channel.
LEMMA LinkStep ==
   ASSUME LinkTypeOK, NEW e \in End,
          \/ \E t \in Token : OutToken(e, t)
          \/ CheckCtEnd(e) \/ InToken(e) \/ CheckCtEndTraps(e) \/ InTokenTraps(e)
   PROVE  LinkTypeOK'
<1>1. ASSUME NEW t \in Token, OutToken(e, t) PROVE LinkTypeOK'
  <2>1. /\ q[Other(e)] \in Seq(Token) /\ Len(q[Other(e)]) < Cap
        /\ q' = [q EXCEPT ![Other(e)] = Append(q[Other(e)], t)] /\ trap' = trap
    BY <1>1, EndFacts DEF LinkTypeOK, OutToken
  <2>2. /\ Append(q[Other(e)], t) \in Seq(Token)
        /\ Len(Append(q[Other(e)], t)) <= Cap
    BY <2>1, AppendToken, CapAssumption
  <2> QED
    BY <2>1, <2>2, EndFacts DEF LinkTypeOK
<1>2. CASE CheckCtEnd(e) \/ InToken(e)
  <2>1. /\ q[e] \in Seq(Token) /\ q[e] # << >> /\ Len(q[e]) <= Cap
        /\ q' = [q EXCEPT ![e] = Tail(q[e])] /\ trap' = trap
    BY <1>2 DEF LinkTypeOK, CheckCtEnd, InToken
  <2>2. Tail(q[e]) \in Seq(Token) /\ Len(Tail(q[e])) <= Cap
    BY <2>1, ConsumeToken, CapAssumption
  <2> QED
    BY <2>1, <2>2 DEF LinkTypeOK
<1>3. CASE CheckCtEndTraps(e) \/ InTokenTraps(e)
  BY <1>3 DEF LinkTypeOK, CheckCtEndTraps, InTokenTraps
<1> QED
  BY <1>1, <1>2, <1>3

\* The tokens of a run are data.
LEMMA ItemFacts ==
   ASSUME TypeOK, NEW e \in End, Busy(e)
   PROVE  /\ Item(e, cnt[e] + 1) = <<Base(e) + run[e], cnt[e] + 1>>
          /\ Item(e, cnt[e] + 1) \in Token
<1>1. trans[e] - 1 \in Nat /\ run[e] \in Nat /\ cnt[e] \in Nat
  BY SizeAssumption DEF TypeOK, Busy
<1>2. Base(e) \in Nat
  BY <1>1, SizeAssumption DEF Base
<1> QED
  BY <1>1, <1>2 DEF Item, Base, Token

\* A step of one end.
LEMMA TypeStep == ASSUME TypeOK, NEW e \in End, Step(e) PROVE TypeOK'
<1>0. /\ Busy(e) /\ trans[e] \in 1 .. NumTrans /\ Length(e) \in 0 .. MaxRuns
      /\ run[e] \in 0 .. MaxRuns + 1 /\ cnt[e] \in 0 .. MaxLen
      /\ \A k \in 1 .. Length(e) : Tokens(e, k) \in 0 .. MaxLen
      /\ MaxLen \in Nat /\ MaxRuns \in Nat /\ NumTrans \in Nat
  BY CurrentSide, SizeAssumption DEF TypeOK, Step, Busy, InRun, chan_init_transaction_master,
     chan_init_transaction_slave, t_chan_out, t_chan_in, RunReturns, chan_complete_transaction
<1>1. LinkTypeOK'
  <2>1. \/ OutCtEnd(e) \/ OutToken(e, Item(e, cnt[e] + 1))
        \/ CheckCtEnd(e) \/ InToken(e) \/ CheckCtEndTraps(e) \/ InTokenTraps(e)
        \/ UNCHANGED <<q, trap>>
    BY DEF Step, chan_init_transaction_master, chan_init_transaction_slave, t_chan_out, t_chan_in,
       RunReturns, chan_complete_transaction, Check, ChangeToOutput, ChangeToInput
  <2>2. LinkTypeOK /\ (UNCHANGED <<q, trap>> => LinkTypeOK')
    BY DEF TypeOK, LinkTypeOK
  <2> QED
    BY <1>0, <2>1, <2>2, LinkStep, ItemFacts, EndTokens DEF OutCtEnd
<1>2. \/ UNCHANGED local \/ Open(e, TRUE) \/ Open(e, FALSE)
      \/ SetLastOut(e, TRUE) \/ SetLastOut(e, FALSE)
      \/ InRun(e) /\ cnt[e] < CurRun(e).n /\ Moved(e)
      \/ RunReturns(e) \/ Halfway(e) \/ Close(e)
  BY DEF Step, chan_init_transaction_master, chan_init_transaction_slave, t_chan_out, t_chan_in,
     RunReturns, chan_complete_transaction, Check, ChangeToOutput, ChangeToInput
<1>3. CASE UNCHANGED local
  BY <1>1, <1>3 DEF TypeOK, local
<1>4. CASE Open(e, TRUE) \/ Open(e, FALSE)
  <2>1. run' \in [End -> 0 .. MaxRuns + 1]
    <3>1. run' = [run EXCEPT ![e] = 1] /\ 1 \in 0 .. MaxRuns + 1
      BY <1>0, <1>4 DEF Open
    <3>2. run \in [End -> 0 .. MaxRuns + 1]
      BY DEF TypeOK
    <3> QED
      BY <3>1, <3>2
  <2>2. last_out' \in [End -> BOOLEAN]
    BY <1>4 DEF TypeOK, Open
  <2> QED
    BY <1>1, <1>4, <2>1, <2>2 DEF TypeOK, Open
<1>5. CASE SetLastOut(e, TRUE) \/ SetLastOut(e, FALSE)
  BY <1>1, <1>5 DEF TypeOK, SetLastOut
<1>6. CASE InRun(e) /\ cnt[e] < CurRun(e).n /\ Moved(e)
  <2>1. CurRun(e).n \in 0 .. MaxLen
    BY <1>0, <1>6 DEF InRun, CurRun, Length, Tokens
  <2>2. cnt[e] + 1 \in 0 .. MaxLen
    BY <1>0, <1>6, <2>1
  <2> QED
    BY <1>1, <1>6, <2>2 DEF TypeOK, Moved
<1>7. CASE RunReturns(e)
  <2>1. run[e] + 1 \in 0 .. MaxRuns + 1
    BY <1>0, <1>7 DEF RunReturns, InRun, Length
  <2> QED
    BY <1>0, <1>1, <1>7, <2>1 DEF TypeOK, RunReturns
<1>8. CASE Halfway(e)
  BY <1>1, <1>8 DEF TypeOK, Halfway
<1>9. CASE Close(e)
  <2>1. trans[e] + 1 \in 1 .. NumTrans + 1
    BY <1>0
  <2> QED
    BY <1>0, <1>1, <1>9, <2>1 DEF TypeOK, Close
<1> QED
  BY <1>2, <1>3, <1>4, <1>5, <1>6, <1>7, <1>8, <1>9

\* So is every step, whichever end takes it.
LEMMA TypeNext == TypeOK /\ [Next]_vars => TypeOK'
<1>1. ASSUME TypeOK, UNCHANGED vars PROVE TypeOK'
  BY <1>1 DEF TypeOK, LinkTypeOK, vars
<1> QED
  BY <1>1, TypeStep DEF Next, Finished

(***************************************************************************)
(* What a step does to the end that takes it, and to the buffers           *)
(***************************************************************************)
Sends(e, t) == /\ q'[Other(e)] = Append(q[Other(e)], t) /\ q'[e] = q[e]
               /\ trap' = trap
Gets(e) == /\ q[e] # << >> /\ q'[e] = Tail(q[e]) /\ q'[Other(e)] = q[Other(e)]
           /\ trap' = trap
GetsEnd(e) == Gets(e) /\ Head(q[e]) = CtEnd

Becomes(e, t, r, c, o, h) ==
   /\ trans'[e] = t /\ run'[e] = r /\ cnt'[e] = c /\ last_out'[e] = o /\ half'[e] = h

OpensAsMaster(e) == /\ run[e] = 0 /\ Cur(e).role = "master"
                    /\ Sends(e, CtEnd) /\ Becomes(e, trans[e], 1, cnt[e], FALSE, half[e])
OpensAsSlave(e) == /\ run[e] = 0 /\ Cur(e).role = "slave"
                   /\ GetsEnd(e) /\ Becomes(e, trans[e], 1, cnt[e], TRUE, half[e])

InRunOut(e) == run[e] \in 1 .. Length(e) /\ Outputs(e, run[e])
InRunIn(e) == run[e] \in 1 .. Length(e) /\ ~Outputs(e, run[e])
TurnsToOutput(e) == /\ InRunOut(e) /\ ~last_out[e]
                    /\ GetsEnd(e) /\ Becomes(e, trans[e], run[e], cnt[e], TRUE, half[e])
TurnsToInput(e) == /\ InRunIn(e) /\ last_out[e]
                   /\ Sends(e, CtEnd) /\ Becomes(e, trans[e], run[e], cnt[e], FALSE, half[e])
PutsToken(e) == /\ InRunOut(e) /\ last_out[e] /\ cnt[e] < Tokens(e, run[e])
                /\ Sends(e, <<Base(e) + run[e], cnt[e] + 1>>)
                /\ Becomes(e, trans[e], run[e], cnt[e] + 1, last_out[e], half[e])
GetsToken(e) == /\ InRunIn(e) /\ ~last_out[e] /\ cnt[e] < Tokens(e, run[e])
                /\ Gets(e) /\ Head(q[e]) # CtEnd
                /\ Becomes(e, trans[e], run[e], cnt[e] + 1, last_out[e], half[e])
EndsRun(e) == /\ run[e] \in 1 .. Length(e) /\ cnt[e] = Tokens(e, run[e])
              /\ last_out[e] <=> Outputs(e, run[e])
              /\ q' = q /\ trap' = trap
              /\ Becomes(e, trans[e], run[e] + 1, 0, last_out[e], half[e])

AtCompletion(e) == run[e] = Length(e) + 1
SendsFirst(e) == /\ AtCompletion(e) /\ last_out[e] /\ ~half[e]
                 /\ Sends(e, CtEnd) /\ Becomes(e, trans[e], run[e], cnt[e], last_out[e], TRUE)
ChecksFirst(e) == /\ AtCompletion(e) /\ ~last_out[e] /\ ~half[e]
                  /\ GetsEnd(e) /\ Becomes(e, trans[e], run[e], cnt[e], last_out[e], TRUE)
SendsLast(e) == /\ AtCompletion(e) /\ ~last_out[e] /\ half[e]
                /\ Sends(e, CtEnd) /\ Becomes(e, trans[e] + 1, 0, cnt[e], last_out[e], FALSE)
ChecksLast(e) == /\ AtCompletion(e) /\ last_out[e] /\ half[e]
                 /\ GetsEnd(e) /\ Becomes(e, trans[e] + 1, 0, cnt[e], last_out[e], FALSE)

\* An exception: the first token in the buffer is not of the kind expected.
MeetsData(e) == /\ \/ run[e] = 0 /\ Cur(e).role = "slave"
                   \/ InRunOut(e) /\ ~last_out[e]
                   \/ AtCompletion(e) /\ last_out[e] = half[e]
                /\ q[e] # << >> /\ Head(q[e]) # CtEnd
MeetsEnd(e) == /\ InRunIn(e) /\ ~last_out[e] /\ cnt[e] < Tokens(e, run[e])
               /\ q[e] # << >> /\ Head(q[e]) = CtEnd

Kept(e) == Becomes(e, trans[e], run[e], cnt[e], last_out[e], half[e])

\* A step that raises no exception; it leaves the other end alone.
Moves(e) == /\ Busy(e) /\ conv' = conv /\ Kept(Other(e))
            /\ \/ OpensAsMaster(e) \/ OpensAsSlave(e)
               \/ TurnsToOutput(e) \/ TurnsToInput(e)
               \/ PutsToken(e) \/ GetsToken(e) \/ EndsRun(e)
               \/ SendsFirst(e) \/ ChecksFirst(e) \/ SendsLast(e) \/ ChecksLast(e)

\* Every step is one of those, or meets the wrong token and changes nothing but
\* trap.
LEMMA StepKinds ==
   ASSUME TypeOK, NEW e \in End, Step(e)
   PROVE  /\ Busy(e) /\ conv' = conv
          /\ \/ (MeetsData(e) \/ MeetsEnd(e)) /\ q' = q /\ UNCHANGED local
             \/ Moves(e)
<1>0. /\ Other(e) \in End /\ Other(e) # e
      /\ q \in [End -> Seq(Token)]
      /\ trans[e] \in Nat /\ run[e] \in Nat /\ cnt[e] \in Nat
      /\ trans \in [End -> Nat] /\ run \in [End -> Nat] /\ cnt \in [End -> Nat]
      /\ last_out \in [End -> BOOLEAN] /\ half \in [End -> BOOLEAN]
  BY EndFacts, SizeAssumption DEF TypeOK, LinkTypeOK
<1>1. ASSUME NEW t, OutToken(e, t) PROVE Sends(e, t)
  BY <1>0, <1>1 DEF OutToken, Sends
<1>2. OutCtEnd(e) => Sends(e, CtEnd)
  BY <1>1 DEF OutCtEnd
<1>3. /\ CheckCtEnd(e) => GetsEnd(e)
      /\ InToken(e) => Gets(e) /\ Head(q[e]) # CtEnd
      /\ CheckCtEndTraps(e) => q[e] # << >> /\ Head(q[e]) # CtEnd /\ q' = q
      /\ InTokenTraps(e) => q[e] # << >> /\ Head(q[e]) = CtEnd /\ q' = q
  BY <1>0 DEF CheckCtEnd, InToken, CheckCtEndTraps, InTokenTraps, Gets, GetsEnd
<1> DEFINE o == Other(e)
<1>4. /\ \A b \in BOOLEAN :
            /\ Open(e, b) => Becomes(e, trans[e], 1, cnt[e], b, half[e]) /\ Kept(o) /\ conv' = conv
            /\ SetLastOut(e, b) => Becomes(e, trans[e], run[e], cnt[e], b, half[e]) /\ Kept(o) /\ conv' = conv
      /\ Moved(e) => /\ Becomes(e, trans[e], run[e], cnt[e] + 1, last_out[e], half[e])
                     /\ Kept(o) /\ conv' = conv
  BY <1>0 DEF Open, SetLastOut, Moved, Becomes, Kept
<1>5. /\ Halfway(e) => /\ ~half[e] /\ Becomes(e, trans[e], run[e], cnt[e], last_out[e], TRUE)
                       /\ Kept(o) /\ conv' = conv
      /\ Close(e) => /\ half[e] /\ Becomes(e, trans[e] + 1, 0, cnt[e], last_out[e], FALSE)
                     /\ Kept(o) /\ conv' = conv
      /\ RunReturns(e) => /\ Becomes(e, trans[e], run[e] + 1, 0, last_out[e], half[e])
                          /\ Kept(o) /\ conv' = conv
  BY <1>0 DEF Halfway, Close, RunReturns, Becomes, Kept
<1> HIDE DEF o
<1>6. CASE chan_init_transaction_master(e)
  BY <1>2, <1>4, <1>6 DEF chan_init_transaction_master, OpensAsMaster, Moves, o
<1>7. CASE chan_init_transaction_slave(e)
  BY <1>3, <1>4, <1>7 DEF chan_init_transaction_slave, Check, OpensAsSlave, MeetsData, Moves, o, local
<1>8. CASE t_chan_out(e)
  <2>1. Busy(e) /\ InRunOut(e) /\ CurRun(e).n = Tokens(e, run[e])
    BY <1>8 DEF t_chan_out, InRun, InRunOut, CurRun, Length, Outputs, Tokens
  <2>2. CASE ChangeToOutput(e)
    BY <1>3, <1>4, <2>1, <2>2 DEF ChangeToOutput, Check, TurnsToOutput, MeetsData, Moves, o, local
  <2>3. CASE /\ last_out[e] /\ cnt[e] < CurRun(e).n
             /\ OutToken(e, Item(e, cnt[e] + 1)) /\ Moved(e)
    BY <1>1, <1>4, <2>1, <2>3, ItemFacts DEF PutsToken, Moves, o
  <2> QED
    BY <1>8, <2>2, <2>3 DEF t_chan_out
<1>9. CASE t_chan_in(e)
  <2>1. Busy(e) /\ InRunIn(e) /\ CurRun(e).n = Tokens(e, run[e])
    BY <1>9 DEF t_chan_in, InRun, InRunIn, CurRun, Length, Outputs, Tokens
  <2> QED
    BY <1>2, <1>3, <1>4, <1>9, <2>1
       DEF t_chan_in, ChangeToInput, TurnsToInput, GetsToken, MeetsEnd, Moves, o, local
<1>10. CASE RunReturns(e)
  BY <1>5, <1>10 DEF RunReturns, InRun, CurRun, EndsRun, Length, Outputs, Tokens, Moves, o
<1>11. CASE chan_complete_transaction(e)
  <2>1. Busy(e) /\ AtCompletion(e) /\ last_out[e] \in BOOLEAN /\ half[e] \in BOOLEAN
    BY <1>0, <1>11 DEF chan_complete_transaction, AtCompletion, Length
  <2> QED
    BY <1>2, <1>3, <1>5, <1>11, <2>1
       DEF chan_complete_transaction, Check, SendsFirst, ChecksFirst, SendsLast, ChecksLast,
           MeetsData, Moves, o, local
<1> QED
  BY <1>6, <1>7, <1>8, <1>9, <1>10, <1>11 DEF Step

\* The same without what a trapping step changes.
LEMMA StepCases ==
   ASSUME TypeOK, NEW e \in End, Step(e)
   PROVE  /\ Busy(e) /\ conv' = conv
          /\ MeetsData(e) \/ MeetsEnd(e) \/ Kept(Other(e))
          /\ \/ OpensAsMaster(e) \/ OpensAsSlave(e)
             \/ TurnsToOutput(e) \/ TurnsToInput(e)
             \/ PutsToken(e) \/ GetsToken(e) \/ EndsRun(e)
             \/ SendsFirst(e) \/ ChecksFirst(e) \/ SendsLast(e) \/ ChecksLast(e)
             \/ MeetsData(e) \/ MeetsEnd(e)
BY StepKinds DEF Moves

(***************************************************************************)
(* The step of an end keeps its own invariant                              *)
(***************************************************************************)
\* An end that stays in its transaction goes on with the same runs.
LEMMA SameRuns ==
   ASSUME conv' = conv, NEW e \in End, trans'[e] = trans[e]
   PROVE  /\ Cur(e)' = Cur(e) /\ Length(e)' = Length(e) /\ Base(e)' = Base(e)
          /\ \A k : (Outputs(e, k)' <=> Outputs(e, k)) /\ Tokens(e, k)' = Tokens(e, k)
BY DEF Cur, Length, Base, Outputs, Tokens

\* A step that raises no exception keeps what is known of each end by itself.
LEMMA LocalStep ==
   ASSUME TypeOK, LocalInv, NEW e \in End, Moves(e)
   PROVE  LocalInv'
<1>0. /\ Busy(e) /\ conv' = conv /\ Kept(Other(e)) /\ LocalOK(e)
      /\ trans[e] \in 1 .. NumTrans /\ run[e] \in Nat /\ cnt[e] \in Nat /\ NumTrans \in Nat
      /\ last_out[e] \in BOOLEAN /\ half[e] \in BOOLEAN
      /\ Length(e) \in Nat /\ \A k \in 1 .. Length(e) : Tokens(e, k) \in Nat
  BY CurrentSide, SizeAssumption DEF Moves, LocalInv, TypeOK, Busy
<1>1. LocalOK(Other(e))'
  <2>1. LocalOK(Other(e)) /\ Other(e) \in End
    BY EndFacts DEF LocalInv
  <2> QED
    BY <1>0, <2>1, SameRuns DEF LocalOK, Kept, Becomes
<1>2. LocalOK(e)'
  <2>1. CASE OpensAsMaster(e) \/ OpensAsSlave(e)
    <3>1. trans'[e] = trans[e] /\ run'[e] = 1 /\ cnt'[e] = 0 /\ half'[e] = FALSE
      BY <1>0, <2>1 DEF OpensAsMaster, OpensAsSlave, Becomes, LocalOK
    <3> QED
      BY <1>0, <3>1, SameRuns DEF LocalOK
  <2>2. CASE TurnsToOutput(e) \/ TurnsToInput(e)
    <3>1. /\ trans'[e] = trans[e] /\ run'[e] = run[e] /\ cnt'[e] = cnt[e] /\ half'[e] = half[e]
          /\ run[e] \in 1 .. Length(e) /\ cnt[e] = 0
      BY <1>0, <2>2 DEF TurnsToOutput, TurnsToInput, InRunOut, InRunIn, Becomes, LocalOK
    <3> QED
      BY <1>0, <3>1, SameRuns DEF LocalOK
  <2>3. CASE PutsToken(e) \/ GetsToken(e)
    <3>1. /\ trans'[e] = trans[e] /\ run'[e] = run[e] /\ cnt'[e] = cnt[e] + 1
          /\ half'[e] = half[e] /\ last_out'[e] = last_out[e]
          /\ run[e] \in 1 .. Length(e) /\ cnt[e] < Tokens(e, run[e])
          /\ last_out[e] <=> Outputs(e, run[e])
      BY <1>0, <2>3 DEF PutsToken, GetsToken, InRunOut, InRunIn, Becomes
    <3> QED
      BY <1>0, <3>1, SameRuns DEF LocalOK
  <2>4. CASE EndsRun(e)
    <3>1. /\ trans'[e] = trans[e] /\ run'[e] = run[e] + 1 /\ cnt'[e] = 0
          /\ half'[e] = FALSE /\ run[e] \in 1 .. Length(e)
      BY <1>0, <2>4 DEF EndsRun, Becomes, LocalOK
    <3> QED
      BY <1>0, <3>1, SameRuns DEF LocalOK
  <2>5. CASE SendsFirst(e) \/ ChecksFirst(e)
    <3>1. /\ trans'[e] = trans[e] /\ run'[e] = run[e] /\ cnt'[e] = 0
          /\ run[e] = Length(e) + 1
      BY <1>0, <2>5 DEF SendsFirst, ChecksFirst, AtCompletion, Becomes, LocalOK
    <3> QED
      BY <1>0, <3>1, SameRuns DEF LocalOK
  <2>6. CASE SendsLast(e) \/ ChecksLast(e)
    <3>1. run'[e] = 0 /\ cnt'[e] = 0 /\ half'[e] = FALSE
      BY <1>0, <2>6 DEF SendsLast, ChecksLast, AtCompletion, Becomes, LocalOK
    <3> QED
      <4>1. trans'[e] \in 1 .. NumTrans \/ ~(trans'[e] <= NumTrans)
        BY <1>0, <2>6 DEF SendsLast, ChecksLast, Becomes
      <4>2. trans'[e] <= NumTrans => Length(e)' \in Nat
        BY SMTT(30), <1>0, <4>1, SideLength, SizeAssumption DEF Length, Cur
      <4> QED
        BY <3>1, <4>2 DEF LocalOK
  <2> QED
    BY <2>1, <2>2, <2>3, <2>4, <2>5, <2>6 DEF Moves
<1> QED
  BY <1>1, <1>2, EndFacts DEF LocalInv

(***************************************************************************)
(* The tokens in a buffer                                                  *)
(***************************************************************************)
\* What is to be shown for the buffer after a step.
LEMMA CarriesPrimed ==
   ASSUME NEW s \in End, NEW r \in End, NEW n \in Nat,
          Length(r)' = Length(r), Base(r)' = Base(r), \A k : Tokens(r, k)' = Tokens(r, k),
          \A i \in 1 .. n : \E k \in 1 .. Length(r) : \E m \in 1 .. Tokens(r, k) :
             q'[r][i] = <<Base(r) + k, m>> /\ Owed(s, r, k, m)',
          \A k \in 1 .. Length(r) : \A m \in 1 .. Tokens(r, k) :
             Owed(s, r, k, m)' => \E i \in 1 .. n : q'[r][i] = <<Base(r) + k, m>>,
          \A i, j \in 1 .. n : i < j => Precedes(q'[r][i], q'[r][j])
   PROVE  Carries(s, r, n)'
BY DEF Carries, Precedes

\* If nothing is owed, no data is in the buffer.
LEMMA CarriesNothing ==
   ASSUME NEW s \in End, NEW r \in End, NEW n \in Nat, Carries(s, r, n),
          \A k \in 1 .. Length(r) : \A m \in 1 .. Tokens(r, k) : ~Owed(s, r, k, m)
   PROVE  n = 0
BY DEF Carries

\* The first token of the data in the buffer of r is the one it inputs next.
LEMMA CarriesHead ==
   ASSUME TypeOK, Matched, NEW s \in End, NEW r \in End, r = Other(s), SameTrans(s, r),
          NEW n \in Nat \ {0}, Carries(s, r, n),
          run[r] \in 1 .. Length(r), cnt[r] < Tokens(r, run[r])
   PROVE  /\ q[r][1] = <<Base(r) + run[r], cnt[r] + 1>>
          /\ Owed(s, r, run[r], cnt[r] + 1)
<1>0. /\ Length(r) \in Nat /\ \A k \in 1 .. Length(r) : Tokens(r, k) \in Nat
      /\ Base(r) \in Nat /\ run[r] \in Nat /\ cnt[r] \in Nat /\ run[s] \in Nat /\ cnt[s] \in Nat
  BY SMTT(30), MatchedRuns, SizeAssumption DEF TypeOK
<1>1. PICK k \in 1 .. Length(r) : \E m \in 1 .. Tokens(r, k) :
                                    q[r][1] = <<Base(r) + k, m>> /\ Owed(s, r, k, m)
  BY DEF Carries
<1>2. PICK m \in 1 .. Tokens(r, k) : q[r][1] = <<Base(r) + k, m>> /\ Owed(s, r, k, m)
  BY <1>1
<1>3. Owed(s, r, run[r], cnt[r] + 1)
  BY <1>0, <1>2 DEF Owed, Ahead
<1>4. cnt[r] + 1 \in 1 .. Tokens(r, run[r])
  BY <1>0
<1>5. PICK i \in 1 .. n : q[r][i] = <<Base(r) + run[r], cnt[r] + 1>>
  BY <1>3, <1>4 DEF Carries
<1>6. ~Precedes(q[r][1], q[r][i])
  BY <1>0, <1>2, <1>5 DEF Precedes, Owed, Ahead
<1>7. i = 1
  BY <1>6 DEF Carries
<1> QED
  BY <1>3, <1>5, <1>7

\* When r inputs it, the rest of the data moves up.
LEMMA CarriesGet ==
   ASSUME TypeOK, Matched, NEW s \in End, NEW r \in End, r = Other(s), SameTrans(s, r),
          NEW n \in Nat \ {0}, Carries(s, r, n), n <= Len(q[r]),
          GetsToken(r), Kept(s), conv' = conv
   PROVE  Carries(s, r, n - 1)'
<1>0. /\ Length(r) \in Nat /\ \A k \in 1 .. Length(r) : Tokens(r, k) \in Nat
      /\ Base(r) \in Nat /\ run[r] \in Nat /\ cnt[r] \in Nat /\ run[s] \in Nat /\ cnt[s] \in Nat
  BY MatchedRuns, SizeAssumption DEF TypeOK
<1>1. /\ Length(r)' = Length(r) /\ Base(r)' = Base(r)
      /\ \A k : Tokens(r, k)' = Tokens(r, k)
      /\ run'[r] = run[r] /\ cnt'[r] = cnt[r] + 1 /\ run'[s] = run[s] /\ cnt'[s] = cnt[s]
      /\ run[r] \in 1 .. Length(r) /\ cnt[r] < Tokens(r, run[r])
  BY SameRuns DEF GetsToken, InRunIn, Becomes, Kept
<1>2. \A i \in 1 .. n - 1 : q'[r][i] = q[r][i + 1]
  <2>1. q[r] \in Seq(Token) /\ q[r] # << >> /\ q'[r] = Tail(q[r])
    BY DEF TypeOK, LinkTypeOK, GetsToken, Gets
  <2> QED
    BY <2>1, ConsumeToken
<1>3. q[r][1] = <<Base(r) + run[r], cnt[r] + 1>>
  BY <1>1, CarriesHead
<1>4. \A k, m : Owed(s, r, k, m)' <=> Owed(s, r, k, m) /\ ~(k = run[r] /\ m = cnt[r] + 1)
  BY <1>0, <1>1 DEF Owed, Ahead
<1>5. ASSUME NEW i \in 1 .. n - 1
      PROVE  \E k \in 1 .. Length(r) : \E m \in 1 .. Tokens(r, k) :
                q'[r][i] = <<Base(r) + k, m>> /\ Owed(s, r, k, m)'
  <2>1. i + 1 \in 1 .. n /\ 1 \in 1 .. n /\ 1 < i + 1
    OBVIOUS
  <2>2. PICK k \in 1 .. Length(r) : \E m \in 1 .. Tokens(r, k) :
                q[r][i + 1] = <<Base(r) + k, m>> /\ Owed(s, r, k, m)
    BY <2>1 DEF Carries
  <2>3. PICK m \in 1 .. Tokens(r, k) : q[r][i + 1] = <<Base(r) + k, m>> /\ Owed(s, r, k, m)
    BY <2>2
  <2>4. Precedes(q[r][1], q[r][i + 1])
    BY <2>1 DEF Carries
  <2>5. ~(k = run[r] /\ m = cnt[r] + 1)
    BY <1>0, <1>3, <2>3, <2>4 DEF Precedes
  <2> QED
    BY <1>2, <1>4, <2>3, <2>5
<1>6. ASSUME NEW k \in 1 .. Length(r), NEW m \in 1 .. Tokens(r, k), Owed(s, r, k, m)'
      PROVE  \E i \in 1 .. n - 1 : q'[r][i] = <<Base(r) + k, m>>
  <2>1. PICK i \in 1 .. n : q[r][i] = <<Base(r) + k, m>>
    BY <1>4, <1>6 DEF Carries
  <2>2. i # 1
    BY <1>0, <1>3, <1>4, <1>6, <2>1
  <2>3. i - 1 \in 1 .. n - 1 /\ (i - 1) + 1 = i
    BY <2>2
  <2> QED
    BY <1>2, <2>1, <2>3
<1>7. \A i, j \in 1 .. n - 1 : i < j => Precedes(q'[r][i], q'[r][j])
  <2> SUFFICES ASSUME NEW i \in 1 .. n - 1, NEW j \in 1 .. n - 1, i < j
               PROVE  Precedes(q[r][i + 1], q[r][j + 1])
    BY <1>2
  <2>1. i + 1 \in 1 .. n /\ j + 1 \in 1 .. n /\ i + 1 < j + 1
    OBVIOUS
  <2> QED
    BY <2>1 DEF Carries
<1> DEFINE rest == n - 1
<1>8. rest \in Nat
  OBVIOUS
<1> HIDE DEF rest
<1>9. Carries(s, r, rest)'
  <2>1. \A i \in 1 .. rest : \E k \in 1 .. Length(r) : \E m \in 1 .. Tokens(r, k) :
           q'[r][i] = <<Base(r) + k, m>> /\ Owed(s, r, k, m)'
    BY <1>5 DEF rest
  <2>2. \A k \in 1 .. Length(r) : \A m \in 1 .. Tokens(r, k) :
           Owed(s, r, k, m)' => \E i \in 1 .. rest : q'[r][i] = <<Base(r) + k, m>>
    BY <1>6 DEF rest
  <2>3. \A i, j \in 1 .. rest : i < j => Precedes(q'[r][i], q'[r][j])
    BY <1>7 DEF rest
  <2> QED
    BY <1>1, <1>8, <2>1, <2>2, <2>3, CarriesPrimed
<1> QED
  BY <1>9 DEF rest

\* When s outputs a token, it is the last one in the buffer of r.
LEMMA CarriesPut ==
   ASSUME TypeOK, Matched, NEW s \in End, NEW r \in End, r = Other(s), SameTrans(s, r),
          Carries(s, r, Len(q[r])), PutsToken(s), Kept(r), conv' = conv,
          \A k \in 1 .. Length(s) : \A m \in 1 .. Tokens(s, k) : ~Owed(r, s, k, m)
   PROVE  Carries(s, r, Len(q[r]))'
<1>0. /\ Length(r) \in Nat /\ \A k \in 1 .. Length(r) : Tokens(r, k) \in Nat
      /\ Base(r) \in Nat /\ run[r] \in Nat /\ cnt[r] \in Nat /\ run[s] \in Nat /\ cnt[s] \in Nat
      /\ Length(s) = Length(r) /\ \A k \in 1 .. Length(r) : Tokens(s, k) = Tokens(r, k)
      /\ Base(s) = Base(r)
  BY SMTT(30), MatchedRuns, SizeAssumption DEF TypeOK
<1>1. /\ Length(r)' = Length(r) /\ Base(r)' = Base(r)
      /\ \A k : Tokens(r, k)' = Tokens(r, k)
      /\ run'[s] = run[s] /\ cnt'[s] = cnt[s] + 1 /\ run'[r] = run[r] /\ cnt'[r] = cnt[r]
      /\ run[s] \in 1 .. Length(s) /\ cnt[s] + 1 \in 1 .. Tokens(s, run[s])
  BY <1>0, SameRuns DEF PutsToken, InRunOut, Becomes, Kept
<1>a. Len(q[r]) \in Nat
  BY DEF TypeOK, LinkTypeOK
<1>b. PICK n \in Nat : n = Len(q[r])
  BY <1>a
<1>c. Carries(s, r, n)
  BY <1>b
<1> DEFINE new == <<Base(r) + run[s], cnt[s] + 1>>
<1>2. /\ n \in Nat /\ Len(q'[r]) = n + 1 /\ q'[r][n + 1] = new
      /\ \A i \in 1 .. n : q'[r][i] = q[r][i]
  <2>1. q[r] \in Seq(Token) /\ new \in Token
    BY <1>0 DEF TypeOK, LinkTypeOK, Token
  <2>2. q'[r] = Append(q[r], new)
    BY <1>0 DEF PutsToken, Sends
  <2> HIDE DEF new
  <2> QED
    BY <1>b, <2>1, <2>2, AppendToken
<1>3. \A k \in 1 .. Length(r) : \A m \in 1 .. Tokens(r, k) :
         Owed(s, r, k, m)' <=> Owed(s, r, k, m) \/ (k = run[s] /\ m = cnt[s] + 1)
  <2>1. Ahead(r, run[s], cnt[s] + 1)
    <3>1. ~Owed(r, s, run[s], cnt[s] + 1) /\ Ahead(s, run[s], cnt[s] + 1)
      BY <1>0, <1>1 DEF Ahead
    <3> QED
      BY <1>1, <3>1 DEF Owed
  <2> QED
    BY <1>0, <1>1, <2>1 DEF Owed, Ahead
<1>4. \A i \in 1 .. n : Precedes(q[r][i], new)
  <2> SUFFICES ASSUME NEW i \in 1 .. n PROVE Precedes(q[r][i], new)
    OBVIOUS
  <2>1. PICK k \in 1 .. Length(r) : \E m \in 1 .. Tokens(r, k) :
                q[r][i] = <<Base(r) + k, m>> /\ Owed(s, r, k, m)
    BY <1>c DEF Carries
  <2>2. PICK m \in 1 .. Tokens(r, k) : q[r][i] = <<Base(r) + k, m>> /\ Owed(s, r, k, m)
    BY <2>1
  <2> QED
    BY <1>0, <2>2 DEF Owed, Ahead, Precedes
<1> DEFINE more == n + 1
<1>5. more \in Nat /\ \A i \in 1 .. more : i \in 1 .. n \/ i = more
  BY <1>2
<1>6. \A i \in 1 .. more : \E k \in 1 .. Length(r) : \E m \in 1 .. Tokens(r, k) :
         q'[r][i] = <<Base(r) + k, m>> /\ Owed(s, r, k, m)'
  <2> SUFFICES ASSUME NEW i \in 1 .. more
               PROVE  \E k \in 1 .. Length(r) : \E m \in 1 .. Tokens(r, k) :
                         q'[r][i] = <<Base(r) + k, m>> /\ Owed(s, r, k, m)'
    OBVIOUS
  <2>1. CASE i \in 1 .. n
    <3>1. \E k \in 1 .. Length(r) : \E m \in 1 .. Tokens(r, k) :
             q[r][i] = <<Base(r) + k, m>> /\ Owed(s, r, k, m)
      BY <1>c, <2>1 DEF Carries
    <3> QED
      BY <1>2, <1>3, <2>1, <3>1
  <2>2. CASE i = more
    BY <1>0, <1>1, <1>2, <1>3, <2>2
  <2> QED
    BY <1>5, <2>1, <2>2
<1>7. \A k \in 1 .. Length(r) : \A m \in 1 .. Tokens(r, k) :
         Owed(s, r, k, m)' => \E i \in 1 .. more : q'[r][i] = <<Base(r) + k, m>>
  <2> SUFFICES ASSUME NEW k \in 1 .. Length(r), NEW m \in 1 .. Tokens(r, k), Owed(s, r, k, m)'
               PROVE  \E i \in 1 .. more : q'[r][i] = <<Base(r) + k, m>>
    OBVIOUS
  <2>1. CASE Owed(s, r, k, m)
    <3>1. PICK i \in 1 .. n : q[r][i] = <<Base(r) + k, m>>
      BY <1>c, <2>1 DEF Carries
    <3> QED
      BY <1>2, <3>1
  <2>2. CASE k = run[s] /\ m = cnt[s] + 1
    BY <1>2, <2>2
  <2> QED
    BY <1>3, <2>1, <2>2
<1>8. \A i, j \in 1 .. more : i < j => Precedes(q'[r][i], q'[r][j])
  <2> SUFFICES ASSUME NEW i \in 1 .. more, NEW j \in 1 .. more, i < j
               PROVE  Precedes(q'[r][i], q'[r][j])
    OBVIOUS
  <2>1. i \in 1 .. n
    BY <1>2
  <2>2. CASE j \in 1 .. n
    BY <1>2, <2>1, <2>2, <1>c DEF Carries
  <2>3. CASE j = more
    BY <1>2, <1>4, <2>1, <2>3
  <2> QED
    BY <1>5, <2>2, <2>3
<1> HIDE DEF more
<1>9. Carries(s, r, more)'
  BY <1>1, <1>5, <1>6, <1>7, <1>8, CarriesPrimed
<1>10. more = Len(q'[r])
  BY <1>2 DEF more
<1> QED
  BY <1>9, <1>10 DEF Carries

\* Nothing that is owed is changed by a step that moves no token, and what is
\* appended to the data does not disturb it.
LEMMA CarriesKeep ==
   ASSUME NEW s \in End, NEW r \in End, NEW n \in Nat, Carries(s, r, n),
          conv' = conv, trans'[r] = trans[r],
          \A i \in 1 .. n : q'[r][i] = q[r][i],
          \A k \in 1 .. Length(r) : \A m \in 1 .. Tokens(r, k) :
             Owed(s, r, k, m)' <=> Owed(s, r, k, m)
   PROVE  Carries(s, r, n)'
<1>1. /\ Length(r)' = Length(r) /\ Base(r)' = Base(r) /\ \A k : Tokens(r, k)' = Tokens(r, k)
  BY SameRuns
<1>2. /\ \A i \in 1 .. n : \E k \in 1 .. Length(r) : \E m \in 1 .. Tokens(r, k) :
             q'[r][i] = <<Base(r) + k, m>> /\ Owed(s, r, k, m)'
      /\ \A k \in 1 .. Length(r) : \A m \in 1 .. Tokens(r, k) :
             Owed(s, r, k, m)' => \E i \in 1 .. n : q'[r][i] = <<Base(r) + k, m>>
      /\ \A i, j \in 1 .. n : i < j => Precedes(q'[r][i], q'[r][j])
  BY DEF Carries
<1> QED
  BY <1>1, <1>2, CarriesPrimed

\* Returning from the last call of a run moves no token.
LEMMA EndsRunMovesNothing ==
   ASSUME TypeOK, NEW e \in End, Busy(e), EndsRun(e)
   PROVE  \A k \in 1 .. Length(e) : \A m \in 1 .. Tokens(e, k) :
             Ahead(e, k, m)' <=> Ahead(e, k, m)
<1>1. /\ Length(e) \in Nat /\ \A k \in 1 .. Length(e) : Tokens(e, k) \in Nat
      /\ run[e] \in Nat /\ cnt[e] \in Nat
  BY CurrentSide, SizeAssumption DEF TypeOK, Busy
<1> QED
  BY <1>1 DEF Ahead, EndsRun, Becomes

(***************************************************************************)
(* The steps of matching transactions                                      *)
(***************************************************************************)
LEMMA Setting ==
   ASSUME IInv, NEW e \in End, NEW o \in End, o = Other(e), Step(e)
   PROVE  /\ TypeOK /\ TypeOK' /\ Matched /\ LocalOK(e) /\ LocalOK(o) /\ conv' = conv
          /\ e # o /\ e = Other(o)
          /\ MaxRuns \in Nat /\ NumTrans \in Nat
          /\ trans[e] \in 1 .. NumTrans /\ trans[o] \in 1 .. NumTrans + 1
          /\ run[e] \in Nat /\ run[o] \in Nat /\ cnt[e] \in Nat /\ cnt[o] \in Nat
          /\ Length(e) \in Nat /\ \A k \in 1 .. Length(e) : Tokens(e, k) \in Nat
          /\ last_out[e] \in BOOLEAN /\ last_out[o] \in BOOLEAN
          /\ half[e] \in BOOLEAN /\ half[o] \in BOOLEAN
          /\ q[e] \in Seq(Token) /\ q[o] \in Seq(Token)
          /\ Len(q[e]) \in Nat /\ Len(q[o]) \in Nat
          /\ MeetsData(e) \/ MeetsEnd(e) \/ Kept(o)
          /\ Shape(e, o) \/ Shape(o, e)
          /\ Shape(e, o)' \/ Shape(o, e)' => FlowInv'
<1>1. TypeOK /\ TypeOK' /\ Matched /\ LocalInv /\ FlowInv
  BY TypeStep DEF IInv
<1>2. e # o /\ e = Other(o) /\ \A f \in End : f = e \/ f = o
  BY EndFacts
<1>3. Busy(e) /\ conv' = conv /\ (MeetsData(e) \/ MeetsEnd(e) \/ Kept(o))
  BY <1>1, StepCases
<1>4. Shape(e, o) \/ Shape(o, e)
  BY <1>1, <1>2 DEF FlowInv
<1>5. Shape(e, o)' \/ Shape(o, e)' => FlowInv'
  BY <1>2 DEF FlowInv
<1>6. /\ MaxRuns \in Nat /\ NumTrans \in Nat /\ MaxLen \in Nat
      /\ trans[e] \in 1 .. NumTrans /\ trans[o] \in 1 .. NumTrans + 1
      /\ run[e] \in Nat /\ run[o] \in Nat /\ cnt[e] \in Nat /\ cnt[o] \in Nat
      /\ last_out[e] \in BOOLEAN /\ last_out[o] \in BOOLEAN
      /\ half[e] \in BOOLEAN /\ half[o] \in BOOLEAN
  BY <1>1, <1>3, SizeAssumption DEF TypeOK, Busy
<1>7. Length(e) \in Nat /\ \A k \in 1 .. Length(e) : Tokens(e, k) \in Nat
  BY <1>1, <1>6, CurrentSide
<1>8. q[e] \in Seq(Token) /\ q[o] \in Seq(Token) /\ Len(q[e]) \in Nat /\ Len(q[o]) \in Nat
  BY <1>1 DEF TypeOK, LinkTypeOK
<1> QED
  BY <1>1, <1>2, <1>3, <1>4, <1>5, <1>6, <1>7, <1>8 DEF LocalInv


\* The end that holds the right to output has sent no data in a run it inputs,
\* so its partner finds an empty buffer when it is the one to output.
LEMMA HoldingEmpty ==
   ASSUME TypeOK, Matched, LocalInv, NEW s \in End, NEW r \in End, r = Other(s),
          Holding(s, r), InRunOut(r) \/ AtCompletion(r)
   PROVE  q[r] = << >>
<1>0. /\ SameTrans(s, r) /\ Length(r) = Length(s) /\ Length(s) \in Nat
      /\ \A k \in 1 .. Length(s) : /\ Tokens(r, k) = Tokens(s, k) /\ Tokens(s, k) \in Nat
                                   /\ Outputs(r, k) <=> ~Outputs(s, k)
      /\ run[s] \in Nat /\ run[r] \in Nat /\ cnt[s] \in Nat /\ cnt[r] \in Nat
      /\ LocalOK(s) /\ run[s] > 0
  BY MatchedRuns, SizeAssumption DEF Holding, Together, TypeOK, LocalInv
<1>1. ASSUME NEW k \in 1 .. Length(r), NEW m \in 1 .. Tokens(r, k), Owed(s, r, k, m)
      PROVE  FALSE
  <2>1. /\ k > run[r] \/ (k = run[r] /\ m > cnt[r])
        /\ k < run[s] \/ (k = run[s] /\ m <= cnt[s])
    BY <1>0, <1>1 DEF Owed, Ahead
  <2>2. InRunOut(r) /\ ~Outputs(s, run[r])
    BY <1>0, <2>1 DEF AtCompletion, InRunOut
  <2>3. ~(run[r] < run[s])
    BY <1>0, <2>2 DEF Holding, InRunOut
  <2>4. run[s] = run[r] /\ cnt[s] > 0 /\ run[s] \in 1 .. Length(s)
    BY <1>0, <2>1, <2>2, <2>3 DEF InRunOut
  <2> QED
    BY <1>0, <2>2, <2>4 DEF LocalOK, SameTrans, Holding
<1>2. q[r] \in Seq(Token) /\ Len(q[r]) \in Nat
  BY DEF TypeOK, LinkTypeOK
<1>3. Len(q[r]) = 0
  BY <1>1, <1>2, CarriesNothing DEF Holding
<1> QED
  BY <1>2, <1>3, EmptySeq

\* The END is the only token in the buffer of an end that takes its turn to
\* output.
LEMMA PassingTurn ==
   ASSUME TypeOK, Matched, NEW s \in End, NEW r \in End, r = Other(s),
          NEW k \in 1 .. Length(s), Passing(s, r, k), InRunOut(r) \/ AtCompletion(r)
   PROVE  run[r] = k /\ Len(q[r]) = 1 /\ q[r][1] = CtEnd
<1>0. /\ SameTrans(s, r) /\ Length(r) = Length(s) /\ Length(s) \in Nat
      /\ \A i \in 1 .. Length(s) : /\ Tokens(r, i) = Tokens(s, i) /\ Tokens(s, i) \in Nat
                                   /\ Outputs(r, i) <=> ~Outputs(s, i)
      /\ run[s] \in Nat /\ run[r] \in Nat /\ cnt[s] \in Nat /\ cnt[r] \in Nat
      /\ Waits(s, k) /\ Followed(s, r) /\ run[r] <= k
  <2>1. SameTrans(s, r) /\ Waits(s, k) /\ Followed(s, r) /\ run[r] <= k
    BY DEF Passing, Together
  <2>2. run[s] \in Nat /\ run[r] \in Nat /\ cnt[s] \in Nat /\ cnt[r] \in Nat
    BY SizeAssumption DEF TypeOK
  <2>3. /\ Length(r) = Length(s) /\ Length(s) \in Nat
        /\ \A i \in 1 .. Length(s) : /\ Tokens(r, i) = Tokens(s, i) /\ Tokens(s, i) \in Nat
                                     /\ Outputs(r, i) <=> ~Outputs(s, i)
    BY <2>1, MatchedRuns, SizeAssumption
  <2> QED
    BY <2>1, <2>2, <2>3
<1>q. q[r] \in Seq(Token) /\ Len(q[r]) \in Nat
  BY DEF TypeOK, LinkTypeOK
<1>1. InRunOut(r)
  BY <1>0 DEF AtCompletion
<1>2. run[r] = k
  BY <1>0, <1>1 DEF Passing, InRunOut
<1>3. ASSUME NEW i \in 1 .. Length(r), NEW m \in 1 .. Tokens(r, i), Owed(s, r, i, m)
      PROVE  FALSE
  <2>1. i \in k .. Length(s)
    BY <1>0, <1>2, <1>3 DEF Owed, Ahead
  <2> QED
    BY <1>0, <1>3, <2>1 DEF Owed, Waits
<1>4. Len(q[r]) # 0
  BY <1>0, <1>q, EmptySeq DEF Followed
<1> DEFINE n == Len(q[r]) - 1
<1>5. n \in Nat /\ Carries(s, r, n)
  BY <1>0, <1>q, <1>4 DEF Followed
<1> HIDE DEF n
<1>6. n = 0
  BY <1>3, <1>5, CarriesNothing
<1> QED
  BY <1>0, <1>q, <1>2, <1>6 DEF n, Followed

\* An end that comes to the completion after its partner has sent the first END
\* of it has input all the data: that END is the only token in its buffer.
LEMMA CompletingTurn ==
   ASSUME TypeOK, Matched, NEW s \in End, NEW r \in End, r = Other(s),
          Completing(s, r), ~half[r], InRunOut(r) \/ AtCompletion(r)
   PROVE  AtCompletion(r) /\ Len(q[r]) = 1 /\ q[r][1] = CtEnd
<1>0. /\ SameTrans(s, r) /\ Length(r) = Length(s) /\ Length(s) \in Nat
      /\ \A i \in 1 .. Length(s) : Outputs(r, i) <=> ~Outputs(s, i)
      /\ run[r] \in Nat /\ cnt[r] \in Nat
      /\ Followed(s, r) /\ \A i \in run[r] .. Length(r) : Outputs(s, i)
      /\ q[r] \in Seq(Token) /\ Len(q[r]) \in Nat
  BY SMTT(30), MatchedRuns, SizeAssumption DEF Completing, Together, TypeOK, LinkTypeOK
<1>1. AtCompletion(r)
  BY <1>0 DEF InRunOut
<1>2. \A k \in 1 .. Length(r) : \A m \in 1 .. Tokens(r, k) : ~Owed(s, r, k, m)
  BY <1>0, <1>1 DEF Owed, Ahead, AtCompletion
<1>3. Len(q[r]) # 0
  BY <1>0, EmptySeq DEF Followed
<1> DEFINE n == Len(q[r]) - 1
<1>4. n \in Nat /\ Carries(s, r, n)
  BY <1>0, <1>3 DEF Followed
<1> HIDE DEF n
<1>5. n = 0
  BY <1>2, <1>4, CarriesNothing
<1> QED
  BY <1>0, <1>1, <1>5 DEF n, Followed

\* An end that inputs meets the data before the END that follows it.
LEMMA InputMeetsData ==
   ASSUME TypeOK, Matched, NEW s \in End, NEW r \in End, r = Other(s), SameTrans(s, r),
          InRunIn(r), cnt[r] < Tokens(r, run[r]), q[r] # << >>,
          Carries(s, r, Len(q[r])) \/ (Followed(s, r) /\ run[s] > run[r])
   PROVE  /\ Len(q[r]) \in Nat \ {0}
          /\ q[r][1] # CtEnd
          /\ q[r][Len(q[r])] = CtEnd => Len(q[r]) > 1
<1>0. /\ Length(r) \in Nat /\ \A k \in 1 .. Length(r) : Tokens(r, k) \in Nat
      /\ run[s] \in Nat /\ run[r] \in Nat /\ cnt[s] \in Nat /\ cnt[r] \in Nat /\ Base(r) \in Nat
      /\ run[r] \in 1 .. Length(r)
  BY MatchedRuns, SizeAssumption DEF TypeOK, InRunIn
<1>1. q[r] \in Seq(Token) /\ Len(q[r]) \in Nat \ {0}
  BY EmptySeq DEF TypeOK, LinkTypeOK
<1>2. ASSUME NEW n \in Nat \ {0}, Carries(s, r, n) PROVE q[r][1] # CtEnd
  <2>1. q[r][1] = <<Base(r) + run[r], cnt[r] + 1>>
    BY <1>0, <1>2, CarriesHead
  <2> QED
    BY <1>0, <2>1 DEF CtEnd
<1>3. CASE Carries(s, r, Len(q[r]))
  <2>1. PICK n \in Nat \ {0} : n = Len(q[r])
    BY <1>1
  <2>2. Carries(s, r, n)
    BY <1>3, <2>1
  <2> QED
    BY <1>1, <1>2, <2>2
<1>4. CASE Followed(s, r) /\ run[s] > run[r]
  <2>0. Len(q[r]) - 1 \in Nat
    BY <1>1
  <2>1. PICK n \in Nat : n = Len(q[r]) - 1
    BY <2>0
  <2>2. Carries(s, r, n)
    BY <1>4, <2>1 DEF Followed
  <2>3. Owed(s, r, run[r], cnt[r] + 1)
    BY <1>0, <1>4 DEF Owed, Ahead
  <2>4. n # 0
    BY <1>0, <2>2, <2>3 DEF Carries
  <2>5. q[r][1] # CtEnd
    BY <1>2, <2>2, <2>4
  <2>6. Len(q[r]) > 1
    <3>1. \A x \in Nat : n = x - 1 => x > 1
      BY <2>4
    <3> QED
      BY <1>1, <2>1, <3>1
  <2> QED
    BY <1>1, <2>5, <2>6
<1> QED
  BY <1>1, <1>3, <1>4

\* The first token is always of the kind that is expected.
LEMMA NeverTraps ==
   ASSUME IInv, NEW e \in End, Step(e)
   PROVE  ~MeetsData(e) /\ ~MeetsEnd(e)
<1> DEFINE o == Other(e)
<1>0. /\ TypeOK /\ Matched /\ LocalInv /\ o \in End /\ e = Other(o)
      /\ Length(e) \in Nat /\ run[e] \in Nat /\ q[e] \in Seq(Token)
      /\ last_out[e] \in BOOLEAN /\ last_out[o] \in BOOLEAN
      /\ half[e] \in BOOLEAN /\ half[o] \in BOOLEAN
      /\ trans[e] <= NumTrans
      /\ trans[e] \in Nat /\ trans[o] \in Nat
  BY Setting, EndFacts, SizeAssumption DEF IInv
<1>1. Shape(e, o) \/ Shape(o, e)
  BY Setting, EndFacts
<1> HIDE DEF o
<1>2. q[e] # << >> => Head(q[e]) = q[e][1]
  BY <1>0, ConsumeToken
<1>3. ~MeetsData(e)
  <2> SUFFICES ASSUME MeetsData(e) PROVE FALSE
    OBVIOUS
  <2>0. q[e] # << >> /\ q[e][1] # CtEnd
    BY <1>2 DEF MeetsData
  <2>1. ~Idle(e, o) /\ ~Idle(o, e) /\ ~Opening(e, o) /\ ~Holding(e, o) /\ ~Completing(e, o)
        /\ (\A k : ~Passing(e, o, k)) /\ ~Leaving(o, e)
    BY <2>0 DEF Idle, Opening, Holding, Completing, Passing, Together, Leaving
  <2>2. ~Opening(o, e) /\ ~Leaving(e, o)
    BY <2>0, EndTokens DEF Opening, Leaving
  <2>3. ~Holding(o, e)
    BY <1>0, <2>0, HoldingEmpty DEF MeetsData, Holding, Together
  <2>4. ASSUME NEW k \in 1 .. Length(o), Passing(o, e, k) PROVE FALSE
    BY <1>0, <2>0, <2>4, PassingTurn DEF MeetsData, Passing, Together
  <2>5. ~Completing(o, e)
    BY <1>0, <2>0, CompletingTurn DEF MeetsData, Completing, Together
  <2> QED
    BY <1>1, <2>1, <2>2, <2>3, <2>4, <2>5 DEF Shape
<1>4. ~MeetsEnd(e)
  <2> SUFFICES ASSUME MeetsEnd(e) PROVE FALSE
    OBVIOUS
  <2>0. /\ q[e] # << >> /\ q[e][1] = CtEnd /\ InRunIn(e) /\ ~last_out[e]
        /\ cnt[e] < Tokens(e, run[e]) /\ run[e] # 0 /\ run[e] <= Length(e)
    BY <1>0, <1>2 DEF MeetsEnd, InRunIn
  <2>1. ~Idle(e, o) /\ ~Idle(o, e) /\ ~Opening(e, o) /\ ~Holding(e, o) /\ ~Completing(e, o)
        /\ (\A k : ~Passing(e, o, k)) /\ ~Leaving(o, e)
    BY <2>0 DEF Idle, Opening, Holding, Completing, Passing, Together, Leaving
  <2>2. ~Opening(o, e) /\ ~Leaving(e, o)
    BY <1>0, <2>0 DEF Opening, Leaving
  <2>3. ~Holding(o, e)
    BY <1>0, <2>0, InputMeetsData DEF Holding, Together
  <2>4. ASSUME NEW k \in 1 .. Length(o), Passing(o, e, k) PROVE FALSE
    <3>1. /\ SameTrans(o, e) /\ Length(o) = Length(e)
          /\ \A i \in 1 .. Length(o) : Outputs(e, i) <=> ~Outputs(o, i)
      BY <1>0, <2>4, MatchedRuns DEF Passing, Together
    <3>2. run[o] > run[e]
      BY <1>0, <2>0, <2>4, <3>1 DEF Passing, InRunIn, Waits, TypeOK
    <3> QED
      BY <1>0, <2>0, <2>4, <3>1, <3>2, InputMeetsData DEF Passing
  <2>5. ~Completing(o, e)
    <3> SUFFICES ASSUME Completing(o, e) PROVE FALSE
      OBVIOUS
    <3>1. SameTrans(o, e) /\ Length(o) = Length(e)
      BY <1>0, MatchedRuns DEF Completing, Together
    <3>2. run[o] > run[e] /\ Followed(o, e)
      BY <1>0, <2>0, <3>1 DEF Completing, InRunIn
    <3> QED
      BY <1>0, <2>0, <3>1, <3>2, InputMeetsData
  <2> QED
    BY <1>1, <2>1, <2>2, <2>3, <2>4, <2>5 DEF Shape
<1> QED
  BY <1>3, <1>4

\* An end that may output, and is past its first instruction, holds the right.
LEMMA HolderShape ==
   ASSUME IInv, NEW e \in End, NEW o \in End, o = Other(e), Step(e),
          run[e] # 0, last_out[e], ~half[e]
   PROVE  Holding(e, o)
<1>1. Shape(e, o) \/ Shape(o, e)
  BY Setting
<1>2. ~Idle(e, o) /\ ~Idle(o, e) /\ ~Opening(e, o) /\ ~Opening(o, e)
  BY DEF Idle, Opening, Waits
<1>3. /\ ~Holding(o, e) /\ ~Completing(e, o) /\ ~Completing(o, e)
      /\ ~Leaving(e, o) /\ ~Leaving(o, e)
  BY DEF Holding, Completing, Leaving, Waits
<1>4. (\A k : ~Passing(e, o, k)) /\ (\A k : ~Passing(o, e, k))
  BY DEF Passing, Waits
<1> QED
  BY <1>1, <1>2, <1>3, <1>4 DEF Shape

\* The situations in which an end in the middle of a transaction has a token to
\* input.
LEMMA InputShape ==
   ASSUME IInv, NEW e \in End, NEW o \in End, o = Other(e), Step(e),
          run[e] # 0, ~half[e], q[e] # << >>
   PROVE  \/ Holding(o, e)
          \/ SameTrans(o, e) /\ \E k \in 1 .. Length(o) : Passing(o, e, k)
          \/ Completing(o, e)
<1>1. Shape(e, o) \/ Shape(o, e)
  BY Setting
<1>2. ~Idle(e, o) /\ ~Idle(o, e) /\ ~Opening(e, o) /\ ~Opening(o, e)
  BY DEF Idle, Opening
<1>3. ~Holding(e, o) /\ ~Completing(e, o) /\ ~Leaving(e, o) /\ ~Leaving(o, e)
  BY DEF Holding, Completing, Leaving, Together
<1>4. \A k : ~Passing(e, o, k)
  BY DEF Passing, Together
<1> QED
  BY <1>1, <1>2, <1>3, <1>4 DEF Shape

\* The situation in which an end takes a step that depends on it.
LEMMA Situation ==
   ASSUME IInv, NEW e \in End, NEW o \in End, o = Other(e), Step(e)
   PROVE  /\ OpensAsMaster(e) => Idle(e, o) \/ Idle(o, e) \/ Leaving(o, e)
          /\ OpensAsSlave(e) => Opening(o, e)
          /\ TurnsToOutput(e) => \E k \in 1 .. Length(o) : Passing(o, e, k)
          /\ ChecksFirst(e) \/ SendsLast(e) => Completing(o, e)
          /\ ChecksLast(e) => Leaving(e, o)
<1>0. /\ TypeOK /\ Matched /\ LocalInv /\ LocalOK(e) /\ e = Other(o)
      /\ trans[e] <= NumTrans /\ trans[e] \in Nat /\ run[e] \in Nat /\ Length(e) \in Nat
      /\ half[e] \in BOOLEAN
      /\ Shape(e, o) \/ Shape(o, e)
  BY Setting DEF IInv
<1>1. ASSUME OpensAsMaster(e) PROVE Idle(e, o) \/ Idle(o, e) \/ Leaving(o, e)
  <2>1. run[e] = 0 /\ Cur(e).role = "master" /\ half[e] = FALSE
    BY <1>0, <1>1 DEF OpensAsMaster, LocalOK
  <2>2. ~Opening(o, e)
    <3> SUFFICES ASSUME Opening(o, e) PROVE FALSE
      OBVIOUS
    <3>1. Cur(e).role # Cur(o).role
      BY <1>0, MatchedRuns DEF Opening
    <3> QED
      BY <2>1, <3>1 DEF Opening
  <2>3. /\ ~Opening(e, o) /\ ~Holding(e, o) /\ ~Holding(o, e) /\ ~Completing(e, o) /\ ~Completing(o, e)
        /\ ~Leaving(e, o) /\ \A k : ~Passing(e, o, k) /\ ~Passing(o, e, k)
    BY <1>0, <2>1 DEF Opening, Holding, Completing, Leaving, Passing, Together
  <2> QED
    BY <1>0, <2>2, <2>3 DEF Shape
<1>2. ASSUME OpensAsSlave(e) PROVE Opening(o, e)
  <2>1. run[e] = 0 /\ Cur(e).role = "slave" /\ half[e] = FALSE /\ q[e] # << >>
    BY <1>0, <1>2 DEF OpensAsSlave, GetsEnd, Gets, LocalOK
  <2>2. /\ ~Idle(e, o) /\ ~Idle(o, e) /\ ~Opening(e, o)
        /\ ~Holding(e, o) /\ ~Holding(o, e) /\ ~Completing(e, o) /\ ~Completing(o, e)
        /\ ~Leaving(e, o) /\ ~Leaving(o, e) /\ \A k : ~Passing(e, o, k) /\ ~Passing(o, e, k)
    BY <1>0, <2>1 DEF Idle, Opening, Holding, Completing, Leaving, Passing, Together
  <2> QED
    BY <1>0, <2>2 DEF Shape
<1>3. ASSUME TurnsToOutput(e) PROVE \E k \in 1 .. Length(o) : Passing(o, e, k)
  <2>0. run[e] \in 1 .. Length(e) /\ InRunOut(e) /\ half[e] = FALSE /\ q[e] # << >> /\ run[e] # 0
    BY <1>0, <1>3 DEF TurnsToOutput, InRunOut, GetsEnd, Gets, LocalOK
  <2>1. ~Holding(o, e)
    BY <1>0, <2>0, HoldingEmpty
  <2>2. ~Completing(o, e)
    <3> SUFFICES ASSUME Completing(o, e) PROVE FALSE
      OBVIOUS
    <3>1. Length(o) = Length(e)
      BY <1>0, MatchedRuns DEF Completing, Together
    <3>2. run[e] = Length(e) + 1
      BY <1>0, <2>0, CompletingTurn DEF Completing, AtCompletion
    <3> QED
      BY <1>0, <2>0, <3>1, <3>2
  <2> QED
    BY <1>0, <2>0, <2>1, <2>2, InputShape
<1>4. ASSUME ChecksFirst(e) PROVE Completing(o, e)
  <2>0. /\ run[e] = Length(e) + 1 /\ AtCompletion(e) /\ run[e] # 0 /\ ~half[e] /\ q[e] # << >>
    BY <1>0, <1>4 DEF ChecksFirst, AtCompletion, GetsEnd, Gets
  <2>1. ~Holding(o, e)
    BY <1>0, <2>0, HoldingEmpty
  <2>2. ASSUME NEW k \in 1 .. Length(o), SameTrans(o, e), Passing(o, e, k) PROVE FALSE
    <3>1. run[e] = k /\ Length(o) = Length(e)
      BY <1>0, <2>0, <2>2, PassingTurn, MatchedRuns
    <3> QED
      BY <1>0, <2>0, <3>1
  <2> QED
    BY <2>0, <2>1, <2>2, InputShape
<1>5. ASSUME SendsLast(e) PROVE Completing(o, e)
  <2>0. run[e] # 0 /\ ~last_out[e] /\ half[e]
    BY <1>0, <1>5 DEF SendsLast, AtCompletion
  <2>1. ~Idle(e, o) /\ ~Idle(o, e) /\ ~Opening(e, o) /\ ~Opening(o, e)
    BY <2>0 DEF Idle, Opening, Waits
  <2>2. ~Holding(e, o) /\ ~Holding(o, e) /\ ~Completing(e, o) /\ ~Leaving(e, o) /\ ~Leaving(o, e)
    BY <2>0 DEF Holding, Completing, Leaving, Waits
  <2>3. (\A k : ~Passing(e, o, k)) /\ (\A k : ~Passing(o, e, k))
    BY <2>0 DEF Passing, Waits
  <2> QED
    BY <1>0, <2>1, <2>2, <2>3 DEF Shape
<1>6. ASSUME ChecksLast(e) PROVE Leaving(e, o)
  <2>0. run[e] # 0 /\ last_out[e] /\ half[e] /\ q[e] # << >>
    BY <1>0, <1>6 DEF ChecksLast, AtCompletion, GetsEnd, Gets
  <2>1. ~Idle(e, o) /\ ~Idle(o, e) /\ ~Opening(e, o) /\ ~Opening(o, e)
    BY <2>0 DEF Idle, Opening
  <2>2. ~Holding(e, o) /\ ~Holding(o, e) /\ ~Completing(e, o) /\ ~Completing(o, e) /\ ~Leaving(o, e)
    BY <2>0 DEF Holding, Completing, Leaving, Together
  <2>3. (\A k : ~Passing(e, o, k)) /\ (\A k : ~Passing(o, e, k))
    BY <2>0 DEF Passing, Waits
  <2> QED
    BY <1>0, <2>1, <2>2, <2>3 DEF Shape
<1> QED
  BY <1>1, <1>2, <1>3, <1>4, <1>5, <1>6

\* The calls that open a transaction.
LEMMA OpensAsMasterFlow ==
   ASSUME IInv, NEW e \in End, NEW o \in End, o = Other(e), Step(e), OpensAsMaster(e)
   PROVE  FlowInv'
<1>0. /\ LocalOK(e) /\ Kept(o) /\ Length(e) \in Nat /\ conv' = conv
      /\ TypeOK /\ Matched /\ e = Other(o) /\ e # o
      /\ trans[e] \in 1 .. NumTrans /\ NumTrans \in Nat
      /\ \A k \in 1 .. Length(e) : Tokens(e, k) \in Nat
      /\ last_out[o] \in BOOLEAN /\ half[o] \in BOOLEAN
      /\ Shape(e, o) \/ Shape(o, e)
      /\ Shape(e, o)' \/ Shape(o, e)' => FlowInv'
  BY Setting, NeverTraps
<1>1. /\ run[e] = 0 /\ Cur(e).role = "master" /\ cnt[e] = 0 /\ half[e] = FALSE
      /\ trans'[e] = trans[e] /\ run'[e] = 1 /\ cnt'[e] = 0 /\ last_out'[e] = FALSE /\ half'[e] = FALSE
      /\ trans'[o] = trans[o] /\ run'[o] = run[o] /\ last_out'[o] = last_out[o] /\ half'[o] = half[o]
      /\ q'[o] = Append(q[o], CtEnd) /\ q'[e] = q[e]
  BY <1>0 DEF OpensAsMaster, Sends, Becomes, Kept, LocalOK
<1>2. /\ Cur(e)' = Cur(e) /\ Length(e)' = Length(e) /\ Cur(o)' = Cur(o) /\ Length(o)' = Length(o)
      /\ \A k : (Outputs(e, k)' <=> Outputs(e, k)) /\ Tokens(e, k)' = Tokens(e, k)
  BY <1>0, <1>1, SameRuns
<1>3. Waits(e, 1)'
  BY <1>0, <1>1, <1>2 DEF Waits, Ahead
<1>4. CASE Idle(e, o) \/ Idle(o, e)
  <2>1. SameTrans(e, o)' /\ run'[o] = 0 /\ q'[e] = << >>
    BY <1>0, <1>1, <1>4 DEF Idle, SameTrans
  <2>2. q'[o] = One
    BY <1>1, <1>4, EndTokens DEF Idle
  <2>3. Opening(e, o)'
    BY <1>1, <1>2, <1>3, <2>1, <2>2 DEF Opening
  <2> QED
    BY <1>0, <2>3 DEF Shape
<1>5. CASE Leaving(o, e)
  <2>1. Leaving(o, e)'
    <3>1. q'[o] = Two
      BY <1>1, <1>5, EndTokens DEF Leaving
    <3> QED
      <4>a. trans'[e] = trans'[o] + 1 /\ trans'[e] <= NumTrans
        <5>1. trans[e] = trans[o] + 1
          BY <1>5 DEF Leaving
        <5>2. trans'[e] = trans[e] /\ trans'[o] = trans[o]
          BY <1>1
        <5>3. trans[e] <= NumTrans
          BY <1>0
        <5> QED
          BY <5>1, <5>2, <5>3
      <4>b. run'[o] = Length(o)' + 1
        BY <1>1, <1>2, <1>5 DEF Leaving
      <4>c. Cur(e)'.role = "master"
        BY <1>1, <1>2
      <4>d. q'[e] = << >>
        BY <1>1, <1>5 DEF Leaving
      <4>2. last_out'[o] = TRUE /\ half'[o] = TRUE /\ run'[e] > 0
        BY <1>0, <1>1, <1>5 DEF Leaving
      <4> QED
        BY <1>3, <3>1, <4>a, <4>b, <4>c, <4>d, <4>2 DEF Leaving
  <2> QED
    BY <1>0, <2>1 DEF Shape
<1> QED
  BY <1>4, <1>5, Situation

\* chan_init_transaction_slave takes the END of the master, and the right to
\* output with it.
LEMMA OpensAsSlaveFlow ==
   ASSUME IInv, NEW e \in End, NEW o \in End, o = Other(e), Step(e), OpensAsSlave(e)
   PROVE  FlowInv'
<1>0. /\ LocalOK(e) /\ LocalOK(o) /\ Kept(o) /\ Length(e) \in Nat /\ conv' = conv
      /\ TypeOK /\ Matched /\ e = Other(o) /\ e # o
      /\ run[o] \in Nat /\ cnt[o] \in Nat
      /\ last_out[o] \in BOOLEAN /\ half[o] \in BOOLEAN
      /\ Shape(e, o) \/ Shape(o, e)
      /\ Shape(e, o)' \/ Shape(o, e)' => FlowInv'
  BY Setting, NeverTraps
<1>1. /\ run[e] = 0 /\ Cur(e).role = "slave" /\ cnt[e] = 0 /\ half[e] = FALSE
      /\ trans'[e] = trans[e] /\ run'[e] = 1 /\ cnt'[e] = 0 /\ last_out'[e] = TRUE /\ half'[e] = FALSE
      /\ trans'[o] = trans[o] /\ run'[o] = run[o] /\ cnt'[o] = cnt[o]
      /\ last_out'[o] = last_out[o] /\ half'[o] = half[o]
      /\ q[e] # << >> /\ q'[e] = Tail(q[e]) /\ q'[o] = q[o]
  BY <1>0 DEF OpensAsSlave, GetsEnd, Gets, Becomes, Kept, LocalOK
<1>2. CASE Opening(o, e)
  <2>1. /\ SameTrans(e, o) /\ SameTrans(o, e) /\ Length(o) = Length(e)
        /\ \A k \in 1 .. Length(e) : /\ Tokens(o, k) = Tokens(e, k) /\ Tokens(e, k) \in Nat
                                     /\ Outputs(e, k) <=> ~Outputs(o, k)
        /\ Waits(o, 1) /\ run[o] > 0
    BY <1>0, <1>2, MatchedRuns DEF Opening, SameTrans
  <2>2. q'[e] = << >> /\ q'[o] = << >>
    BY <1>1, <1>2, EndTokens DEF Opening
  <2>3. /\ Length(e)' = Length(e) /\ Length(o)' = Length(o)
        /\ \A k : /\ (Outputs(e, k)' <=> Outputs(e, k)) /\ Tokens(e, k)' = Tokens(e, k)
                  /\ Tokens(o, k)' = Tokens(o, k)
    BY <1>0, <1>1, SameRuns
  <2>4. Together(e, o)'
    <3>1. trans'[e] = trans'[o] /\ trans'[e] <= NumTrans
      BY <1>1, <2>1 DEF SameTrans
    <3>2. run'[e] > 0 /\ run'[o] > 0
      BY <1>1, <2>1
    <3> QED
      BY <2>2, <3>1, <3>2 DEF Together, SameTrans
  <2>a. last_out'[o] = FALSE /\ half'[o] = FALSE
    BY <1>0, <1>1, <2>1 DEF Waits
  <2>5. \A k \in 1 .. Length(e) : \A m \in 1 .. Tokens(e, k) : Ahead(o, k, m) /\ Ahead(o, k, m)'
    BY <1>1, <2>1 DEF Waits, Ahead
  <2>6. \A k \in 1 .. Length(e) : \A m \in 1 .. Tokens(e, k) : Ahead(e, k, m)'
    BY <1>1, <2>1 DEF Ahead
  <2>7. \A k \in 1 .. Length(e) : k < run[o] => Outputs(e, k)
    BY <1>0, <2>1 DEF Waits
  <2>8. /\ \A k \in 1 .. Length(e) : \A m \in 1 .. Tokens(e, k) : ~Owed(o, e, k, m)'
        /\ \A k \in 1 .. Length(o) : \A m \in 1 .. Tokens(o, k) : ~Owed(e, o, k, m)'
    BY <2>1, <2>3, <2>5, <2>6 DEF Owed
  <2>9. Carries(e, o, 0)'
    BY <2>3, <2>8 DEF Carries
  <2>10. Len(q'[o]) = 0
    BY <2>2
  <2>11. Carries(e, o, Len(q[o]))'
    BY <2>9, <2>10 DEF Carries
  <2>12. Holding(e, o)'
    BY <1>1, <2>1, <2>3, <2>4, <2>a, <2>7, <2>8, <2>11 DEF Holding
  <2> QED
    BY <1>0, <2>12 DEF Shape
<1> QED
  BY <1>2, Situation

\* What two ends in the middle of the same transaction keep of it in a step.
LEMMA SameTogether ==
   ASSUME NEW s \in End, NEW r \in End, conv' = conv, SameTrans(s, r),
          trans'[s] = trans[s], trans'[r] = trans[r]
   PROVE  /\ SameTrans(s, r)'
          /\ Length(s)' = Length(s) /\ Length(r)' = Length(r)
          /\ \A k : /\ (Outputs(s, k)' <=> Outputs(s, k)) /\ (Outputs(r, k)' <=> Outputs(r, k))
                    /\ Tokens(s, k)' = Tokens(s, k) /\ Tokens(r, k)' = Tokens(r, k)
BY SameRuns DEF SameTrans

\* An END sent behind the data.
LEMMA FollowedPut ==
   ASSUME TypeOK, NEW s \in End, NEW r \in End, r = Other(s),
          Carries(s, r, Len(q[r])), Sends(s, CtEnd),
          conv' = conv, trans'[r] = trans[r],
          \A k \in 1 .. Length(r) : \A m \in 1 .. Tokens(r, k) :
             Owed(s, r, k, m)' <=> Owed(s, r, k, m)
   PROVE  Followed(s, r)'
<1>1. q[r] \in Seq(Token) /\ Len(q[r]) \in Nat /\ q'[r] = Append(q[r], CtEnd)
  BY DEF TypeOK, LinkTypeOK, Sends
<1>2. PICK n \in Nat : n = Len(q[r])
  BY <1>1
<1>3. /\ Len(q'[r]) = n + 1 /\ q'[r][n + 1] = CtEnd /\ q'[r] # << >>
      /\ \A i \in 1 .. n : q'[r][i] = q[r][i]
  BY <1>1, <1>2, AppendToken, EndTokens
<1>4. Carries(s, r, n)
  BY <1>2
<1>5. Carries(s, r, n)'
  BY <1>3, <1>4, CarriesKeep
<1>6. Len(q'[r]) - 1 = n /\ q'[r][Len(q'[r])] = CtEnd
  BY <1>3
<1>7. Carries(s, r, Len(q[r]) - 1)'
  BY <1>5, <1>6 DEF Carries
<1> QED
  BY <1>3, <1>6, <1>7 DEF Followed

\* A step that moves no token leaves the data and its END as they are.
LEMMA FollowedKeep ==
   ASSUME TypeOK, NEW s \in End, NEW r \in End, Followed(s, r),
          q'[r] = q[r], conv' = conv, trans'[r] = trans[r],
          \A k \in 1 .. Length(r) : \A m \in 1 .. Tokens(r, k) :
             Owed(s, r, k, m)' <=> Owed(s, r, k, m)
   PROVE  Followed(s, r)'
<1>1. q[r] \in Seq(Token) /\ Len(q[r]) \in Nat \ {0}
  BY EmptySeq DEF TypeOK, LinkTypeOK, Followed
<1>2. Len(q[r]) - 1 \in Nat
  BY <1>1
<1>3. PICK n \in Nat : n = Len(q[r]) - 1
  BY <1>2
<1>4. Carries(s, r, n)
  BY <1>3 DEF Followed
<1>5. Carries(s, r, n)'
  BY <1>4, CarriesKeep
<1>6. Len(q'[r]) - 1 = n
  BY <1>3
<1>7. Carries(s, r, Len(q[r]) - 1)'
  BY <1>5, <1>6 DEF Carries
<1> QED
  BY <1>7 DEF Followed

\* Data input from in front of an END leaves the END at the back.
LEMMA FollowedGet ==
   ASSUME TypeOK, Matched, NEW s \in End, NEW r \in End, r = Other(s), SameTrans(s, r),
          Followed(s, r), run[s] > run[r], GetsToken(r), Kept(s), conv' = conv
   PROVE  Followed(s, r)'
<1>1. q[r] \in Seq(Token) /\ Len(q[r]) \in Nat /\ q[r] # << >> /\ q'[r] = Tail(q[r])
  BY DEF TypeOK, LinkTypeOK, GetsToken, Gets
<1>2. Len(q[r]) > 1
  BY <1>1, InputMeetsData DEF GetsToken, Followed
<1>3. Len(q[r]) - 1 \in Nat \ {0}
  <2>1. \A x \in Nat : x > 1 => x - 1 \in Nat \ {0}
    OBVIOUS
  <2> QED
    BY <1>1, <1>2, <2>1
<1>4. PICK n \in Nat \ {0} : n = Len(q[r]) - 1
  BY <1>3
<1>5. Carries(s, r, n) /\ n <= Len(q[r])
  BY <1>1, <1>4 DEF Followed
<1>6. Carries(s, r, n - 1)'
  BY <1>5, CarriesGet
<1>7. /\ Len(q'[r]) = n /\ \A i \in 1 .. n : q'[r][i] = q[r][i + 1]
      /\ q'[r] \in Seq(Token)
  BY <1>1, <1>4, ConsumeToken
<1>8. q'[r][n] = CtEnd
  <2>1. \A x \in Nat : n = x - 1 => n + 1 = x
    OBVIOUS
  <2>2. n + 1 = Len(q[r])
    BY <1>1, <1>4, <2>1
  <2>3. n \in 1 .. n
    OBVIOUS
  <2>4. q'[r][n] = q[r][n + 1]
    BY <1>7, <2>3
  <2> QED
    BY <2>2, <2>4 DEF Followed
<1>9. q'[r] # << >>
  BY <1>7, EmptySeq
<1>10. Carries(s, r, Len(q[r]) - 1)'
  BY <1>6, <1>7 DEF Carries
<1> QED
  BY <1>7, <1>8, <1>9, <1>10 DEF Followed

\* An end without the right to output goes on waiting past a run of inputs of
\* no tokens.
LEMMA WaitsEndsRun ==
   ASSUME TypeOK, NEW e \in End, Busy(e), EndsRun(e), conv' = conv,
          NEW k \in 1 .. MaxRuns + 1, Waits(e, k)
   PROVE  Waits(e, k)'
<1>1. /\ Length(e) \in Nat /\ run[e] \in Nat /\ k \in Nat
      /\ last_out[e] \in BOOLEAN /\ half[e] \in BOOLEAN
  BY CurrentSide, SizeAssumption DEF TypeOK, Busy
<1>2. /\ run'[e] = run[e] + 1 /\ last_out'[e] = last_out[e] /\ half'[e] = half[e]
      /\ trans'[e] = trans[e]
  BY DEF EndsRun, Becomes
<1>3. /\ Length(e)' = Length(e)
      /\ \A i : (Outputs(e, i)' <=> Outputs(e, i)) /\ Tokens(e, i)' = Tokens(e, i)
  BY <1>2, SameRuns
<1>4. ~Outputs(e, run[e])
  BY DEF EndsRun, Waits
<1>5. \A i \in k .. run'[e] - 1 : ~Outputs(e, i)'
  <2>1. \A i \in k .. run[e] : i = run[e] \/ i \in k .. run[e] - 1
    BY <1>1
  <2>2. \A i \in k .. run[e] : ~Outputs(e, i)
    BY <1>4, <2>1 DEF Waits
  <2>3. run'[e] - 1 = run[e]
    BY <1>1, <1>2
  <2> QED
    BY <1>3, <2>2, <2>3
<1>6. \A i \in k .. Length(e)' : \A m \in 1 .. Tokens(e, i)' : Ahead(e, i, m)'
  <2>1. \A i \in k .. Length(e) : i \in 1 .. Length(e)
    BY <1>1
  <2> QED
    BY <1>3, <2>1, EndsRunMovesNothing DEF Waits
<1>7. k <= run'[e] /\ ~last_out'[e] /\ ~half'[e]
  BY <1>1, <1>2 DEF Waits
<1> QED
  BY <1>5, <1>6, <1>7 DEF Waits

\* The calls that change the direction of a transaction.
LEMMA TurnsToOutputFlow ==
   ASSUME IInv, NEW e \in End, NEW o \in End, o = Other(e), Step(e), TurnsToOutput(e)
   PROVE  FlowInv'
<1>0. /\ LocalOK(e) /\ Kept(o) /\ conv' = conv
      /\ TypeOK /\ Matched /\ LocalInv /\ e = Other(o) /\ e # o
      /\ run[e] \in Nat /\ run[o] \in Nat /\ cnt[e] \in Nat /\ cnt[o] \in Nat
      /\ half[e] \in BOOLEAN
      /\ trans[e] <= NumTrans /\ trans[e] \in Nat
      /\ q[e] \in Seq(Token) /\ Len(q[e]) \in Nat
      /\ Shape(e, o)' => FlowInv'
  BY Setting, NeverTraps DEF IInv
<1>1. /\ run[e] \in 1 .. Length(e) /\ InRunOut(e) /\ ~last_out[e] /\ half[e] = FALSE /\ cnt[e] = 0
      /\ trans'[e] = trans[e] /\ run'[e] = run[e] /\ cnt'[e] = cnt[e]
      /\ last_out'[e] = TRUE /\ half'[e] = half[e]
      /\ trans'[o] = trans[o] /\ run'[o] = run[o] /\ cnt'[o] = cnt[o]
      /\ last_out'[o] = last_out[o] /\ half'[o] = half[o]
      /\ q[e] # << >> /\ q'[e] = Tail(q[e]) /\ q'[o] = q[o]
  BY <1>0 DEF TurnsToOutput, InRunOut, GetsEnd, Gets, Becomes, Kept, LocalOK
<1>2. PICK k \in 1 .. Length(o) : Passing(o, e, k)
  BY Situation
<1>3. /\ SameTrans(e, o) /\ SameTrans(o, e) /\ Length(o) = Length(e) /\ Length(e) \in Nat
      /\ \A i \in 1 .. Length(e) : /\ Tokens(o, i) = Tokens(e, i) /\ Tokens(e, i) \in Nat
                                   /\ Outputs(e, i) <=> ~Outputs(o, i)
  BY <1>0, <1>2, MatchedRuns DEF Passing, Together, SameTrans
<1>4. run[e] = k /\ Len(q[e]) = 1
  BY <1>0, <1>1, <1>2, PassingTurn
<1>5. /\ SameTrans(e, o)' /\ Length(e)' = Length(e) /\ Length(o)' = Length(o)
      /\ \A i : /\ (Outputs(e, i)' <=> Outputs(e, i)) /\ Tokens(e, i)' = Tokens(e, i)
                /\ Tokens(o, i)' = Tokens(o, i)
  BY <1>0, <1>1, <1>3, SameTogether
<1>6. Waits(o, k) /\ run[e] > 0 /\ run[o] > 0 /\ k <= run[o] /\ q[o] = << >>
  BY <1>2 DEF Passing, Together, Waits
<1>7. q'[e] = << >> /\ q'[o] = << >>
  BY <1>0, <1>1, <1>4, <1>6, ConsumeToken
<1>8. \A i \in 1 .. Length(e) : (run[e] <= i /\ i < run[o]) \/ (run[o] <= i /\ i < run[e]) => Outputs(e, i)
  BY <1>0, <1>3, <1>4, <1>6 DEF Waits
<1>9. \A i \in 1 .. Length(e) : \A m \in 1 .. Tokens(e, i) :
         /\ ~Owed(o, e, i, m)' /\ ~Owed(e, o, i, m)'
         /\ Ahead(e, i, m)' <=> Ahead(o, i, m)'
  <2> SUFFICES ASSUME NEW i \in 1 .. Length(e), NEW m \in 1 .. Tokens(e, i)
               PROVE  Ahead(e, i, m)' <=> Ahead(o, i, m)'
    BY DEF Owed
  <2>1. /\ Ahead(e, i, m)' <=> i >= k
        /\ Ahead(o, i, m)' <=> i > run[o] \/ (i = run[o] /\ m > cnt[o])
    BY <1>0, <1>1, <1>3, <1>4 DEF Ahead
  <2>2. i >= k => i > run[o] \/ (i = run[o] /\ m > cnt[o])
    <3>1. i >= k => i \in k .. Length(o)
      BY <1>3
    <3> QED
      BY <1>3, <1>6, <3>1 DEF Waits, Ahead
  <2>3. i > run[o] \/ (i = run[o] /\ m > cnt[o]) => i >= k
    BY <1>0, <1>4, <1>6
  <2> QED
    BY <2>1, <2>2, <2>3
<1>10. Carries(e, o, 0)'
  BY <1>3, <1>5, <1>9 DEF Carries
<1>11. Carries(e, o, Len(q[o]))'
  <2>1. Len(q'[o]) = 0
    BY <1>7
  <2> QED
    BY <1>10, <2>1 DEF Carries
<1>12. Together(e, o)' /\ last_out'[e] /\ ~half'[e] /\ ~last_out'[o] /\ ~half'[o]
  BY <1>1, <1>5, <1>6, <1>7 DEF Together, Waits
<1>13. Holding(e, o)'
  <2>1. \A i \in 1 .. Length(e)' :
           (run'[e] <= i /\ i < run'[o]) \/ (run'[o] <= i /\ i < run'[e]) => Outputs(e, i)'
    BY <1>1, <1>5, <1>8
  <2>2. \A i \in 1 .. Length(e)' : \A m \in 1 .. Tokens(e, i)' : ~Owed(o, e, i, m)'
    BY <1>5, <1>9
  <2> QED
    BY <1>11, <1>12, <2>1, <2>2 DEF Holding
<1> QED
  BY <1>0, <1>13 DEF Shape

\* _t_chan_change_to_input passes the right to output with an END.
LEMMA TurnsToInputFlow ==
   ASSUME IInv, NEW e \in End, NEW o \in End, o = Other(e), Step(e), TurnsToInput(e)
   PROVE  FlowInv'
<1>0. /\ LocalOK(e) /\ Kept(o) /\ conv' = conv
      /\ TypeOK /\ Matched /\ LocalInv /\ e = Other(o) /\ e # o
      /\ run[e] \in Nat /\ run[o] \in Nat /\ cnt[e] \in Nat /\ cnt[o] \in Nat
      /\ trans[e] <= NumTrans /\ trans[e] \in Nat
      /\ half[e] \in BOOLEAN /\ last_out[o] \in BOOLEAN /\ half[o] \in BOOLEAN
      /\ Shape(e, o)' => FlowInv'
  BY Setting, NeverTraps DEF IInv
<1>1. /\ run[e] \in 1 .. Length(e) /\ ~Outputs(e, run[e]) /\ last_out[e]
      /\ half[e] = FALSE /\ cnt[e] = 0
      /\ trans'[e] = trans[e] /\ run'[e] = run[e] /\ cnt'[e] = cnt[e]
      /\ last_out'[e] = FALSE /\ half'[e] = half[e]
      /\ trans'[o] = trans[o] /\ run'[o] = run[o] /\ cnt'[o] = cnt[o]
      /\ last_out'[o] = last_out[o] /\ half'[o] = half[o]
      /\ Sends(e, CtEnd) /\ q'[e] = q[e]
  BY <1>0 DEF TurnsToInput, InRunIn, Sends, Becomes, Kept, LocalOK
<1>2. Holding(e, o)
  BY <1>1, HolderShape
<1>3. /\ Together(e, o) /\ SameTrans(e, o) /\ Length(o) = Length(e) /\ Length(e) \in Nat
      /\ ~last_out[o] /\ ~half[o] /\ Carries(e, o, Len(q[o])) /\ q[e] = << >>
      /\ run[e] > 0 /\ run[o] > 0
  BY <1>0, <1>2, MatchedRuns DEF Holding, Together
<1>4. /\ SameTrans(e, o)' /\ Length(e)' = Length(e)
      /\ \A i : (Outputs(e, i)' <=> Outputs(e, i)) /\ Tokens(e, i)' = Tokens(e, i)
  BY <1>0, <1>1, <1>3, SameTogether
<1>5. Together(e, o)'
  BY <1>1, <1>3, <1>4 DEF Together
<1>6. Followed(e, o)'
  <2>1. \A i, m : Owed(e, o, i, m)' <=> Owed(e, o, i, m)
    <3>1. Length(o)' = Length(o) /\ \A i : Tokens(o, i)' = Tokens(o, i)
      BY <1>0, <1>1, <1>3, SameTogether
    <3> QED
      BY <1>1, <3>1 DEF Owed, Ahead
  <2> QED
    BY <1>0, <1>1, <1>3, <2>1, FollowedPut
<1>7. run[o] <= run[e] /\ \A i \in run[o] .. run[e] - 1 : Outputs(e, i)
  <2>1. ~(run[e] < run[o])
    BY <1>0, <1>1, <1>2 DEF Holding
  <2>2. \A i \in run[o] .. run[e] - 1 : i \in 1 .. Length(e) /\ run[o] <= i /\ i < run[e]
    BY <1>0, <1>1, <1>3
  <2> QED
    BY <1>0, <1>2, <2>1, <2>2 DEF Holding
<1> DEFINE k == run[e]
<1>8. Waits(e, k)'
  <2>1. k \in 1 .. Length(e) /\ k = run'[e]
    BY <1>1
  <2>2. \A i \in run[e] .. Length(e) : \A m \in 1 .. Tokens(e, i) : i > run[e] \/ (i = run[e] /\ m > cnt[e])
    BY <1>0, <1>1
  <2> QED
    BY <1>0, <1>1, <1>4, <2>2 DEF Waits, Ahead
<1>9. Passing(e, o, k)'
  <2>1. run'[o] <= k' /\ ~Outputs(e, k)'
    BY <1>1, <1>4, <1>7
  <2>2. \A i \in run'[o] .. k' - 1 : Outputs(e, i)'
    BY <1>1, <1>4, <1>7
  <2>3. ~last_out'[o] /\ ~half'[o]
    BY <1>1, <1>3
  <2> QED
    BY <1>5, <1>6, <1>8, <2>1, <2>2, <2>3 DEF Passing
<1>10. k' \in 1 .. Length(e)'
  BY <1>1, <1>4
<1> QED
  BY <1>0, <1>4, <1>9, <1>10 DEF Shape

\* The calls that move a token.
LEMMA PutsTokenFlow ==
   ASSUME IInv, NEW e \in End, NEW o \in End, o = Other(e), Step(e), PutsToken(e)
   PROVE  FlowInv'
<1>0. /\ LocalOK(e) /\ Kept(o) /\ conv' = conv
      /\ TypeOK /\ Matched /\ LocalInv /\ e = Other(o) /\ e # o
      /\ run[e] \in Nat /\ run[o] \in Nat /\ cnt[e] \in Nat /\ cnt[o] \in Nat
      /\ trans[e] <= NumTrans /\ trans[e] \in Nat
      /\ Shape(e, o)' => FlowInv'
  BY Setting, NeverTraps DEF IInv
<1>1. /\ run[e] \in 1 .. Length(e) /\ last_out[e] /\ ~half[e]
      /\ trans'[e] = trans[e] /\ run'[e] = run[e] /\ cnt'[e] = cnt[e] + 1
      /\ last_out'[e] = last_out[e] /\ half'[e] = half[e]
      /\ trans'[o] = trans[o] /\ run'[o] = run[o] /\ cnt'[o] = cnt[o]
      /\ last_out'[o] = last_out[o] /\ half'[o] = half[o]
      /\ q'[e] = q[e]
  BY <1>0 DEF PutsToken, InRunOut, Sends, Becomes, Kept, LocalOK
<1>2. Holding(e, o)
  BY <1>1, HolderShape
<1>3. /\ Together(e, o) /\ SameTrans(e, o)
      /\ Carries(e, o, Len(q[o])) /\ ~last_out[o] /\ ~half[o]
      /\ \A k \in 1 .. Length(e) : \A m \in 1 .. Tokens(e, k) : ~Owed(o, e, k, m)
  BY <1>2 DEF Holding, Together
<1>4. /\ SameTrans(e, o)' /\ Length(e)' = Length(e) /\ Length(o)' = Length(o)
      /\ \A i : (Outputs(e, i)' <=> Outputs(e, i)) /\ Tokens(e, i)' = Tokens(e, i)
  BY <1>0, <1>1, <1>3, SameTogether
<1>5. Carries(e, o, Len(q[o]))'
  BY <1>0, <1>3, CarriesPut
<1>6. \A k \in 1 .. Length(e) : \A m \in 1 .. Tokens(e, k) : ~Owed(o, e, k, m)'
  <2>1. \A k : \A m \in Nat : (Ahead(e, k, m)' => Ahead(e, k, m)) /\ (Ahead(o, k, m)' <=> Ahead(o, k, m))
    BY <1>0, <1>1 DEF Ahead
  <2>2. \A k \in 1 .. Length(e) : Tokens(e, k) \in Nat
    BY <1>0, <1>3, MatchedRuns
  <2>3. \A k \in 1 .. Length(e) : \A m \in 1 .. Tokens(e, k) : m \in Nat
    BY <2>2
  <2> QED
    BY <1>3, <1>4, <2>1, <2>3 DEF Owed
<1>7. Together(e, o)'
  BY <1>1, <1>3, <1>4 DEF Together
<1>8. Holding(e, o)'
  <2>1. \A i \in 1 .. Length(e)' :
           (run'[e] <= i /\ i < run'[o]) \/ (run'[o] <= i /\ i < run'[e]) => Outputs(e, i)'
    BY <1>1, <1>2, <1>4 DEF Holding
  <2> QED
    BY <1>1, <1>3, <1>4, <1>5, <1>6, <1>7, <2>1 DEF Holding
<1> QED
  BY <1>0, <1>8 DEF Shape

\* t_chan_in_*: what is input is what was owed first.
LEMMA GetsTokenFlow ==
   ASSUME IInv, NEW e \in End, NEW o \in End, o = Other(e), Step(e), GetsToken(e)
   PROVE  FlowInv'
<1>0. /\ LocalOK(e) /\ Kept(o) /\ conv' = conv
      /\ TypeOK /\ Matched /\ LocalInv /\ e = Other(o) /\ e # o
      /\ run[e] \in Nat /\ run[o] \in Nat /\ cnt[e] \in Nat /\ cnt[o] \in Nat
      /\ trans[e] <= NumTrans /\ trans[e] \in Nat
      /\ half[e] \in BOOLEAN /\ last_out[e] \in BOOLEAN
      /\ q[e] \in Seq(Token) /\ Len(q[e]) \in Nat
      /\ Shape(o, e)' => FlowInv'
  BY Setting, NeverTraps DEF IInv
<1>1. /\ run[e] \in 1 .. Length(e) /\ InRunIn(e) /\ ~last_out[e] /\ ~half[e]
      /\ cnt[e] < Tokens(e, run[e])
      /\ trans'[e] = trans[e] /\ run'[e] = run[e] /\ cnt'[e] = cnt[e] + 1
      /\ last_out'[e] = last_out[e] /\ half'[e] = half[e]
      /\ trans'[o] = trans[o] /\ run'[o] = run[o] /\ cnt'[o] = cnt[o]
      /\ last_out'[o] = last_out[o] /\ half'[o] = half[o]
      /\ q[e] # << >> /\ q'[e] = Tail(q[e]) /\ q'[o] = q[o]
  BY <1>0 DEF GetsToken, InRunIn, Gets, Becomes, Kept, LocalOK
<1>2. SameTrans(o, e) /\ Together(o, e)
  BY <1>1, InputShape DEF Holding, Passing, Completing, Together
<1>3. /\ SameTrans(o, e)' /\ Length(o)' = Length(o) /\ Length(e)' = Length(e)
      /\ \A i : (Outputs(o, i)' <=> Outputs(o, i)) /\ Tokens(o, i)' = Tokens(o, i)
  BY <1>0, <1>1, <1>2, SameTogether
<1>4. Together(o, e)'
  BY <1>1, <1>2, <1>3 DEF Together
<1>m. /\ Length(o) = Length(e) /\ Length(o) \in Nat
      /\ \A i \in 1 .. Length(o) : /\ Tokens(e, i) = Tokens(o, i) /\ Tokens(o, i) \in Nat
                                   /\ Outputs(e, i) <=> ~Outputs(o, i)
  BY <1>0, <1>2, MatchedRuns
<1>w. ASSUME NEW k, Waits(o, k) PROVE Waits(o, k)'
  BY <1>1, <1>3, <1>w DEF Waits, Ahead
<1>5. CASE Holding(o, e)
  <2>1. PICK n \in Nat \ {0} : n = Len(q[e])
    BY <1>0, <1>1, EmptySeq
  <2>2. Carries(o, e, n)
    BY <1>5, <2>1 DEF Holding
  <2>3. Carries(o, e, n - 1)'
    BY <1>0, <1>2, <2>1, <2>2, CarriesGet
  <2>4. Len(q'[e]) = n - 1
    BY <1>0, <1>1, <2>1, ConsumeToken
  <2>5. Carries(o, e, Len(q[e]))'
    BY <2>3, <2>4 DEF Carries
  <2>6. Owed(o, e, run[e], cnt[e] + 1)
    BY <1>0, <1>1, <1>2, <2>2, CarriesHead
  <2>7. \A k \in 1 .. Length(o) : \A m \in 1 .. Tokens(o, k) : ~Owed(e, o, k, m)'
    <3> SUFFICES ASSUME NEW k \in 1 .. Length(o), NEW m \in 1 .. Tokens(o, k), Owed(e, o, k, m)'
                 PROVE  FALSE
      OBVIOUS
    <3>1. Ahead(o, k, m) /\ ~Ahead(e, k, m)'
      BY <1>1, <3>1 DEF Owed, Ahead
    <3>2. Ahead(e, k, m)
      BY <1>5, <3>1 DEF Holding, Owed
    <3>3. k = run[e] /\ m = cnt[e] + 1
      BY <1>0, <1>1, <1>m, <3>1, <3>2 DEF Ahead
    <3> QED
      BY <2>6, <3>1, <3>3 DEF Owed
  <2>8. Holding(o, e)'
    <3>1. \A i \in 1 .. Length(o)' :
             (run'[o] <= i /\ i < run'[e]) \/ (run'[e] <= i /\ i < run'[o]) => Outputs(o, i)'
      BY <1>1, <1>3, <1>5 DEF Holding
    <3>2. \A k \in 1 .. Length(o)' : \A m \in 1 .. Tokens(o, k)' : ~Owed(e, o, k, m)'
      BY <1>3, <2>7
    <3>3. last_out'[o] /\ ~half'[o] /\ ~last_out'[e] /\ ~half'[e]
      BY <1>1, <1>5 DEF Holding
    <3> QED
      BY <1>4, <2>5, <3>1, <3>2, <3>3 DEF Holding
  <2> QED
    BY <1>0, <2>8 DEF Shape
<1>6. ASSUME NEW k \in 1 .. Length(o), Passing(o, e, k) PROVE FlowInv'
  <2>1. run[o] > run[e]
    BY <1>0, <1>1, <1>6, <1>m DEF Passing, InRunIn, Waits
  <2>2. Followed(o, e)'
    BY <1>0, <1>2, <1>6, <2>1, FollowedGet DEF Passing
  <2>3. Waits(o, k)'
    BY <1>6, <1>w DEF Passing
  <2>4. Passing(o, e, k)'
    BY <1>1, <1>3, <1>4, <1>6, <2>2, <2>3 DEF Passing
  <2> QED
    BY <1>0, <1>3, <2>4 DEF Shape
<1>7. CASE Completing(o, e)
  <2>1. Followed(o, e) /\ run[o] = Length(o) + 1 /\ run[o] > run[e]
    BY <1>0, <1>1, <1>m, <1>7 DEF Completing
  <2>2. Followed(o, e)'
    BY <1>0, <1>2, <2>1, FollowedGet
  <2>3. run'[o] = Length(o)' + 1 /\ last_out'[o] /\ half'[o] /\ ~last_out'[e] /\ ~half'[e]
    BY <1>1, <1>3, <1>7, <2>1 DEF Completing
  <2>4. \A i \in run'[e] .. Length(e)' : Outputs(o, i)'
    BY <1>1, <1>3, <1>7 DEF Completing
  <2>5. Completing(o, e)'
    BY <1>4, <2>2, <2>3, <2>4 DEF Completing
  <2> QED
    BY <1>0, <2>5 DEF Shape
<1> QED
  BY <1>1, <1>5, <1>6, <1>7, InputShape

\* The return from the last call of a run.
LEMMA EndsRunFlow ==
   ASSUME IInv, NEW e \in End, NEW o \in End, o = Other(e), Step(e), EndsRun(e)
   PROVE  FlowInv'
<1>0. /\ LocalOK(e) /\ Kept(o) /\ conv' = conv /\ Busy(e)
      /\ TypeOK /\ Matched /\ LocalInv /\ e = Other(o) /\ e # o
      /\ run[e] \in Nat /\ run[o] \in Nat /\ cnt[e] \in Nat /\ cnt[o] \in Nat
      /\ trans[e] <= NumTrans /\ trans[e] \in Nat /\ MaxRuns \in Nat \ {0}
      /\ Length(e) \in Nat
      /\ half[e] \in BOOLEAN /\ last_out[e] \in BOOLEAN
      /\ Shape(e, o) \/ Shape(o, e)
      /\ Shape(e, o)' \/ Shape(o, e)' => FlowInv'
  <2>1. TypeOK /\ Busy(e)
    BY StepCases DEF IInv
  <2> QED
    BY <2>1, Setting, NeverTraps, SizeAssumption DEF IInv
<1>1. /\ run[e] \in 1 .. Length(e) /\ half[e] = FALSE /\ (last_out[e] <=> Outputs(e, run[e]))
      /\ trans'[e] = trans[e] /\ run'[e] = run[e] + 1
      /\ last_out'[e] = last_out[e] /\ half'[e] = half[e]
      /\ trans'[o] = trans[o] /\ run'[o] = run[o] /\ cnt'[o] = cnt[o]
      /\ last_out'[o] = last_out[o] /\ half'[o] = half[o]
      /\ q'[e] = q[e] /\ q'[o] = q[o]
  BY <1>0 DEF EndsRun, Becomes, Kept, LocalOK
<1>2. \A k \in 1 .. Length(e) : \A m \in 1 .. Tokens(e, k) :
         /\ Ahead(e, k, m)' <=> Ahead(e, k, m)
         /\ Ahead(o, k, m)' <=> Ahead(o, k, m)
  <2>1. \A k, m : Ahead(o, k, m)' <=> Ahead(o, k, m)
    BY <1>1 DEF Ahead
  <2> QED
    BY <1>0, <2>1, EndsRunMovesNothing
<1>3. ASSUME NEW k \in 1 .. MaxRuns + 1, Waits(e, k) PROVE Waits(e, k)'
  BY <1>0, <1>3, WaitsEndsRun
<1>4. CASE Opening(e, o) \/ Leaving(o, e)
  <2>0. 1 \in 1 .. MaxRuns + 1 /\ run[e] # 0 /\ run'[e] > 0
    BY <1>0, <1>1
  <2>1. Waits(e, 1)'
    <3>1. Waits(e, 1)
      BY <1>4, <2>0 DEF Opening, Leaving
    <3> QED
      BY <1>3, <2>0, <3>1
  <2>2. /\ Cur(e)' = Cur(e) /\ Length(o)' = Length(o)
    BY <1>0, <1>1, SameRuns
  <2>3. Opening(e, o) => Opening(e, o)'
    BY <1>1, <2>0, <2>1, <2>2 DEF Opening, SameTrans
  <2>4. ASSUME Leaving(o, e) PROVE Leaving(o, e)'
    <3>1. /\ trans[e] = trans[o] + 1 /\ run[o] = Length(o) + 1 /\ last_out[o] /\ half[o]
          /\ q[e] = << >> /\ trans[e] <= NumTrans /\ Cur(e).role = "master" /\ q[o] = Two
      BY <2>0, <2>4 DEF Leaving
    <3>2. trans'[e] = trans'[o] + 1
      BY <1>1, <3>1
    <3>3. run'[o] = Length(o)' + 1
      BY <1>1, <2>2, <3>1
    <3> QED
      BY <1>1, <2>0, <2>1, <2>2, <3>1, <3>2, <3>3 DEF Leaving
  <2> QED
    BY <1>0, <1>4, <2>3, <2>4 DEF Shape
<1>5. ASSUME Together(e, o) \/ Together(o, e)
      PROVE  /\ SameTrans(e, o) /\ SameTrans(o, e)
             /\ SameTrans(e, o)' /\ SameTrans(o, e)'
             /\ Length(o) = Length(e) /\ Length(e)' = Length(e) /\ Length(o)' = Length(o)
             /\ \A i : /\ (Outputs(e, i)' <=> Outputs(e, i)) /\ Tokens(e, i)' = Tokens(e, i)
                       /\ (Outputs(o, i)' <=> Outputs(o, i)) /\ Tokens(o, i)' = Tokens(o, i)
             /\ \A i \in 1 .. Length(e) : /\ Tokens(o, i) = Tokens(e, i)
                                          /\ Outputs(o, i) <=> ~Outputs(e, i)
             /\ run[o] > 0 /\ run'[e] > 0
             /\ \A i \in 1 .. Length(e) : \A m \in 1 .. Tokens(e, i) :
                   /\ Owed(e, o, i, m)' <=> Owed(e, o, i, m)
                   /\ Owed(o, e, i, m)' <=> Owed(o, e, i, m)
  <2>1. SameTrans(e, o) /\ SameTrans(o, e) /\ run[o] > 0 /\ run'[e] > 0
    BY <1>0, <1>1, <1>5 DEF Together, SameTrans
  <2>2. /\ SameTrans(e, o)' /\ SameTrans(o, e)'
        /\ Length(e)' = Length(e) /\ Length(o)' = Length(o)
        /\ \A i : /\ (Outputs(e, i)' <=> Outputs(e, i)) /\ Tokens(e, i)' = Tokens(e, i)
                  /\ (Outputs(o, i)' <=> Outputs(o, i)) /\ Tokens(o, i)' = Tokens(o, i)
    BY <1>0, <1>1, <2>1, SameTogether
  <2>3. /\ Length(o) = Length(e)
        /\ \A i \in 1 .. Length(e) : /\ Tokens(o, i) = Tokens(e, i)
                                     /\ Outputs(o, i) <=> ~Outputs(e, i)
    BY <1>0, <2>1, MatchedRuns
  <2>4. \A i \in 1 .. Length(e) : \A m \in 1 .. Tokens(e, i) :
                   /\ Owed(e, o, i, m)' <=> Owed(e, o, i, m)
                   /\ Owed(o, e, i, m)' <=> Owed(o, e, i, m)
    BY <1>2, <2>2, <2>3 DEF Owed
  <2> QED
    BY <2>1, <2>2, <2>3, <2>4
<1>6. ASSUME NEW s \in End, NEW r \in End, r = Other(s), Together(s, r), Carries(s, r, Len(q[r]))
      PROVE  Carries(s, r, Len(q[r]))'
  <2>1. (s = e /\ r = o) \/ (s = o /\ r = e)
    BY <1>0, <1>6, EndFacts
  <2>2. Len(q[r]) \in Nat
    BY <1>0 DEF TypeOK, LinkTypeOK
  <2>3. PICK n \in Nat : n = Len(q[r])
    BY <2>2
  <2>4. Carries(s, r, n) /\ n = Len(q'[r]) /\ q'[r] = q[r] /\ trans'[r] = trans[r]
    BY <1>1, <1>6, <2>1, <2>3
  <2>5. \A k \in 1 .. Length(r) : \A m \in 1 .. Tokens(r, k) : Owed(s, r, k, m)' <=> Owed(s, r, k, m)
    BY <1>5, <1>6, <2>1
  <2>6. Carries(s, r, n)'
    BY <1>0, <2>4, <2>5, CarriesKeep
  <2> QED
    BY <2>4, <2>6 DEF Carries
<1>7. ASSUME NEW s \in End, NEW r \in End, r = Other(s), Together(s, r), Followed(s, r)
      PROVE  Followed(s, r)'
  <2>1. (s = e /\ r = o) \/ (s = o /\ r = e)
    BY <1>0, <1>7, EndFacts
  <2>2. q'[r] = q[r] /\ trans'[r] = trans[r]
    BY <1>1, <2>1
  <2>3. \A k \in 1 .. Length(r) : \A m \in 1 .. Tokens(r, k) : Owed(s, r, k, m)' <=> Owed(s, r, k, m)
    BY <1>5, <1>7, <2>1
  <2> QED
    BY <1>0, <1>7, <2>2, <2>3, FollowedKeep
<1>8. CASE Holding(e, o)
  <2>0. Together(e, o)
    BY <1>8 DEF Holding
  <2>1. Together(e, o)'
    BY <1>1, <1>5, <2>0 DEF Together
  <2>2. Carries(e, o, Len(q[o]))'
    BY <1>6, <1>8, <2>0 DEF Holding
  <2>3. \A i \in 1 .. Length(e) :
           (run'[e] <= i /\ i < run'[o]) \/ (run'[o] <= i /\ i < run'[e]) => Outputs(e, i)
    <3>1. Outputs(e, run[e])
      BY <1>1, <1>8 DEF Holding
    <3>2. \A i \in 1 .. Length(e) : i < run[e] + 1 => i < run[e] \/ i = run[e]
      BY <1>0
    <3>3. \A i \in 1 .. Length(e) : run[e] + 1 <= i => run[e] <= i
      BY <1>0
    <3> QED
      BY <1>1, <1>8, <3>1, <3>2, <3>3 DEF Holding
  <2>4. \A k \in 1 .. Length(e) : \A m \in 1 .. Tokens(e, k) : ~Owed(o, e, k, m)'
    BY <1>5, <1>8, <2>0 DEF Holding
  <2>5. Holding(e, o)'
    BY <1>1, <1>5, <1>8, <2>0, <2>1, <2>2, <2>3, <2>4 DEF Holding
  <2> QED
    BY <1>0, <2>5 DEF Shape
<1>9. CASE Holding(o, e)
  <2>0. Together(o, e)
    BY <1>9 DEF Holding
  <2>1. Together(o, e)'
    BY <1>1, <1>5, <2>0 DEF Together
  <2>2. Carries(o, e, Len(q[e]))'
    BY <1>0, <1>6, <1>9, <2>0 DEF Holding
  <2>3. \A i \in 1 .. Length(o) :
           (run'[o] <= i /\ i < run'[e]) \/ (run'[e] <= i /\ i < run'[o]) => Outputs(o, i)
    <3>1. Outputs(o, run[e])
      BY <1>1, <1>5, <1>9, <2>0 DEF Holding
    <3>2. \A i \in 1 .. Length(o) : i < run[e] + 1 => i < run[e] \/ i = run[e]
      BY <1>0, <1>5, <2>0
    <3>3. \A i \in 1 .. Length(o) : run[e] + 1 <= i => run[e] <= i
      BY <1>0, <1>5, <2>0
    <3> QED
      BY <1>1, <1>9, <3>1, <3>2, <3>3 DEF Holding
  <2>4. \A k \in 1 .. Length(o) : \A m \in 1 .. Tokens(o, k) : ~Owed(e, o, k, m)'
    BY <1>5, <1>9, <2>0 DEF Holding
  <2>5. Holding(o, e)'
    BY <1>1, <1>5, <1>9, <2>0, <2>1, <2>2, <2>3, <2>4 DEF Holding
  <2> QED
    BY <1>0, <2>5 DEF Shape
<1>10. ASSUME NEW k \in 1 .. Length(e), Passing(e, o, k) PROVE FlowInv'
  <2>0. Together(e, o)
    BY <1>10 DEF Passing
  <2>1. Together(e, o)'
    BY <1>1, <1>5, <2>0 DEF Together
  <2>2. Followed(e, o)'
    BY <1>7, <1>10, <2>0 DEF Passing
  <2>3. Waits(e, k)'
    <3>1. k \in 1 .. MaxRuns + 1
      BY <1>0, CurrentSide
    <3> QED
      BY <1>3, <1>10, <3>1 DEF Passing
  <2>4. Passing(e, o, k)'
    BY <1>1, <1>5, <1>10, <2>0, <2>1, <2>2, <2>3 DEF Passing
  <2> QED
    BY <1>0, <1>5, <2>0, <2>4 DEF Shape
<1>11. ASSUME NEW k \in 1 .. Length(o), Passing(o, e, k) PROVE FlowInv'
  <2>0. Together(o, e)
    BY <1>11 DEF Passing
  <2>1. Together(o, e)'
    BY <1>1, <1>5, <2>0 DEF Together
  <2>2. Followed(o, e)'
    BY <1>0, <1>7, <1>11, <2>0 DEF Passing
  <2>3. Waits(o, k)'
    BY <1>1, <1>5, <1>11, <2>0 DEF Passing, Waits, Ahead
  <2>4. run[e] # k /\ run[e] <= k /\ k \in Nat
    BY <1>1, <1>5, <1>11, <2>0 DEF Passing
  <2>5. run'[e] <= k
    BY <1>0, <1>1, <2>4
  <2>6. \A i \in run'[e] .. k - 1 : Outputs(o, i)
    <3>1. \A i \in run[e] + 1 .. k - 1 : i \in run[e] .. k - 1
      BY <1>0, <2>4
    <3> QED
      BY <1>1, <1>11, <3>1 DEF Passing
  <2>7. Passing(o, e, k)'
    BY <1>1, <1>5, <1>11, <2>0, <2>1, <2>2, <2>3, <2>5, <2>6 DEF Passing
  <2> QED
    BY <1>0, <1>5, <2>0, <2>7 DEF Shape
<1>12. CASE Completing(o, e)
  <2>0. Together(o, e) /\ ~half[e] /\ Followed(o, e) /\ \A i \in run[e] .. Length(e) : Outputs(o, i)
    BY <1>1, <1>12 DEF Completing
  <2>1. Together(o, e)'
    BY <1>1, <1>5, <2>0 DEF Together
  <2>2. Followed(o, e)'
    BY <1>0, <1>7, <2>0
  <2>3. \A i \in run'[e] .. Length(e) : Outputs(o, i)
    <3>1. \A i \in run[e] + 1 .. Length(e) : i \in run[e] .. Length(e)
      BY <1>0
    <3> QED
      BY <1>1, <2>0, <3>1
  <2>4. Completing(o, e)'
    BY <1>1, <1>5, <1>12, <2>0, <2>1, <2>2, <2>3 DEF Completing
  <2> QED
    BY <1>0, <2>4 DEF Shape
<1>13. /\ ~Idle(e, o) /\ ~Idle(o, e) /\ ~Opening(o, e) /\ ~Completing(e, o) /\ ~Leaving(e, o)
  BY <1>0, <1>1 DEF Idle, Opening, Completing, Leaving
<1> QED
  BY <1>0, <1>4, <1>8, <1>9, <1>10, <1>11, <1>12, <1>13 DEF Shape

\* The instructions of the completion, in the order in which they are issued.
LEMMA SendsFirstFlow ==
   ASSUME IInv, NEW e \in End, NEW o \in End, o = Other(e), Step(e), SendsFirst(e)
   PROVE  FlowInv'
<1>0. /\ Kept(o) /\ conv' = conv /\ TypeOK /\ Matched /\ e = Other(o) /\ e # o
      /\ run[e] \in Nat /\ run[o] \in Nat /\ Length(e) \in Nat
      /\ Shape(e, o)' => FlowInv'
  BY Setting, NeverTraps DEF IInv
<1>1. /\ run[e] = Length(e) + 1 /\ run[e] # 0 /\ last_out[e] /\ ~half[e]
      /\ trans'[e] = trans[e] /\ run'[e] = run[e] /\ cnt'[e] = cnt[e]
      /\ last_out'[e] = last_out[e] /\ half'[e] = TRUE
      /\ trans'[o] = trans[o] /\ run'[o] = run[o] /\ cnt'[o] = cnt[o]
      /\ last_out'[o] = last_out[o] /\ half'[o] = half[o]
      /\ Sends(e, CtEnd) /\ q'[e] = q[e]
  BY <1>0 DEF SendsFirst, AtCompletion, Sends, Becomes, Kept
<1>2. Holding(e, o)
  BY <1>1, HolderShape
<1>3. /\ Together(e, o) /\ SameTrans(e, o) /\ Length(o) = Length(e)
      /\ ~last_out[o] /\ ~half[o] /\ Carries(e, o, Len(q[o])) /\ run[o] > 0
  BY <1>0, <1>2, MatchedRuns DEF Holding, Together
<1>4. /\ SameTrans(e, o)' /\ Length(e)' = Length(e) /\ Length(o)' = Length(o)
      /\ \A i : /\ (Outputs(e, i)' <=> Outputs(e, i)) /\ Tokens(o, i)' = Tokens(o, i)
  BY <1>0, <1>1, <1>3, SameTogether
<1>5. Together(e, o)'
  BY <1>1, <1>3, <1>4 DEF Together
<1>6. Followed(e, o)'
  <2>1. \A i, m : Owed(e, o, i, m)' <=> Owed(e, o, i, m)
    BY <1>1, <1>4 DEF Owed, Ahead
  <2> QED
    BY <1>0, <1>1, <1>3, <2>1, FollowedPut
<1>7. \A i \in run[o] .. Length(e) : Outputs(e, i)
  <2>1. \A i \in run[o] .. Length(e) : i \in 1 .. Length(e) /\ run[o] <= i /\ i < run[e]
    BY <1>0, <1>1, <1>3
  <2> QED
    BY <1>2, <2>1 DEF Holding
<1>8. Completing(e, o)'
  <2>1. run'[e] = Length(e)' + 1 /\ last_out'[e] /\ half'[e] /\ ~last_out'[o] /\ ~half'[o]
    BY <1>1, <1>3, <1>4
  <2>2. \A i \in run'[o] .. Length(o)' : Outputs(e, i)'
    BY <1>1, <1>3, <1>4, <1>7
  <2> QED
    BY <1>5, <1>6, <2>1, <2>2 DEF Completing
<1> QED
  BY <1>0, <1>8 DEF Shape

\* The end that last input checks for the END of the other ...
LEMMA ChecksFirstFlow ==
   ASSUME IInv, NEW e \in End, NEW o \in End, o = Other(e), Step(e), ChecksFirst(e)
   PROVE  FlowInv'
<1>0. /\ Kept(o) /\ conv' = conv /\ TypeOK /\ Matched /\ LocalInv /\ e = Other(o) /\ e # o
      /\ run[e] \in Nat /\ Length(e) \in Nat /\ q[e] \in Seq(Token)
      /\ Shape(o, e)' => FlowInv'
  BY Setting, NeverTraps DEF IInv
<1>1. /\ run[e] = Length(e) + 1 /\ AtCompletion(e) /\ run[e] # 0 /\ ~last_out[e] /\ ~half[e]
      /\ trans'[e] = trans[e] /\ run'[e] = run[e]
      /\ last_out'[e] = last_out[e] /\ half'[e] = TRUE
      /\ trans'[o] = trans[o] /\ run'[o] = run[o]
      /\ last_out'[o] = last_out[o] /\ half'[o] = half[o]
      /\ q[e] # << >> /\ q'[e] = Tail(q[e]) /\ q'[o] = q[o]
  BY <1>0 DEF ChecksFirst, AtCompletion, GetsEnd, Gets, Becomes, Kept
<1>4. Completing(o, e)
  BY <1>0, Situation
<1>5. Together(o, e) /\ SameTrans(o, e) /\ run[o] = Length(o) + 1 /\ last_out[o] /\ half[o]
  BY <1>4 DEF Completing, Together
<1>6. Len(q[e]) = 1
  BY <1>0, <1>1, <1>4, CompletingTurn
<1>7. q'[e] = << >>
  BY <1>0, <1>1, <1>6, ConsumeToken
<1>8. SameTrans(o, e)' /\ Length(o)' = Length(o) /\ Length(e)' = Length(e)
  BY <1>0, <1>1, <1>5, SameTogether
<1>9. Together(o, e)'
  BY <1>1, <1>5, <1>8 DEF Together
<1>10. Completing(o, e)'
  BY <1>1, <1>5, <1>7, <1>8, <1>9 DEF Completing
<1> QED
  BY <1>0, <1>10 DEF Shape

\* ... and answers it with its own, which completes the transaction for it ...
LEMMA SendsLastFlow ==
   ASSUME IInv, NEW e \in End, NEW o \in End, o = Other(e), Step(e), SendsLast(e)
   PROVE  FlowInv'
<1>0. /\ Kept(o) /\ conv' = conv /\ TypeOK /\ Matched /\ e = Other(o) /\ e # o
      /\ trans[e] \in Nat /\ run[e] \in Nat /\ Length(e) \in Nat
      /\ Shape(e, o) \/ Shape(o, e)
      /\ Shape(o, e)' => FlowInv'
  BY Setting, NeverTraps DEF IInv
<1>1. /\ run[e] = Length(e) + 1 /\ run[e] # 0 /\ ~last_out[e] /\ half[e]
      /\ trans'[e] = trans[e] + 1 /\ run'[e] = 0
      /\ trans'[o] = trans[o] /\ run'[o] = run[o]
      /\ last_out'[o] = last_out[o] /\ half'[o] = half[o]
      /\ q'[o] = Append(q[o], CtEnd) /\ q'[e] = q[e]
  BY <1>0 DEF SendsLast, AtCompletion, Sends, Becomes, Kept
<1>2. Completing(o, e)
  BY Situation
<1>3. /\ run[o] = Length(o) + 1 /\ last_out[o] /\ half[o]
      /\ q[o] = << >> /\ q[e] = << >> /\ trans[o] = trans[e]
  BY <1>1, <1>2 DEF Completing, Together, SameTrans
<1>4. Length(o)' = Length(o)
  BY <1>0, <1>1, SameRuns
<1>5. q'[o] = One
  BY <1>1, <1>3, EndTokens
<1>6. trans'[e] = trans'[o] + 1
  BY <1>1, <1>3
<1>7. run'[o] = Length(o)' + 1
  BY <1>1, <1>3, <1>4
<1>8. Leaving(o, e)'
  BY <1>1, <1>3, <1>5, <1>6, <1>7 DEF Leaving
<1> QED
  BY <1>0, <1>8 DEF Shape

\* ... and then for the end that last output.
LEMMA ChecksLastFlow ==
   ASSUME IInv, NEW e \in End, NEW o \in End, o = Other(e), Step(e), ChecksLast(e)
   PROVE  FlowInv'
<1>0. /\ Kept(o) /\ conv' = conv /\ TypeOK /\ Matched /\ e = Other(o) /\ e # o
      /\ trans[e] \in Nat /\ run[e] \in Nat /\ Length(e) \in Nat
      /\ Shape(e, o) \/ Shape(o, e)
      /\ Shape(e, o)' \/ Shape(o, e)' => FlowInv'
  BY Setting, NeverTraps DEF IInv
<1>1. /\ run[e] = Length(e) + 1 /\ run[e] # 0 /\ last_out[e] /\ half[e]
      /\ trans'[e] = trans[e] + 1 /\ run'[e] = 0
      /\ trans'[o] = trans[o] /\ run'[o] = run[o] /\ cnt'[o] = cnt[o]
      /\ last_out'[o] = last_out[o] /\ half'[o] = half[o]
      /\ q[e] # << >> /\ q'[e] = Tail(q[e]) /\ q'[o] = q[o]
  BY <1>0 DEF ChecksLast, AtCompletion, GetsEnd, Gets, Becomes, Kept
<1>2. Leaving(e, o)
  BY Situation
<1>3. trans[o] = trans[e] + 1 /\ q[o] = << >>
  BY <1>2 DEF Leaving
<1>4. trans'[e] = trans'[o] /\ q'[o] = << >>
  BY <1>1, <1>3
<1>5. CASE run[o] = 0 /\ q[e] = One
  <2>1. q'[e] = << >>
    BY <1>1, <1>5, EndTokens
  <2>2. Idle(e, o)'
    BY <1>1, <1>4, <1>5, <2>1 DEF Idle
  <2> QED
    BY <1>0, <2>2 DEF Shape
<1>6. CASE /\ trans[o] <= NumTrans /\ run[o] > 0 /\ Cur(o).role = "master"
           /\ Waits(o, 1) /\ q[e] = Two
  <2>1. q'[e] = One
    BY <1>1, <1>6, EndTokens
  <2>2. /\ Cur(o)' = Cur(o) /\ Length(o)' = Length(o)
        /\ \A k : (Outputs(o, k)' <=> Outputs(o, k)) /\ Tokens(o, k)' = Tokens(o, k)
    BY <1>0, <1>1, SameRuns
  <2>3. Waits(o, 1)'
    BY <1>1, <1>6, <2>2 DEF Waits, Ahead
  <2>4. SameTrans(o, e)'
    BY <1>1, <1>4, <1>6 DEF SameTrans
  <2>5. Opening(o, e)'
    BY <1>1, <1>4, <1>6, <2>1, <2>2, <2>3, <2>4 DEF Opening
  <2> QED
    BY <1>0, <2>5 DEF Shape
<1> QED
  BY <1>2, <1>5, <1>6 DEF Leaving

(***************************************************************************)
(* Theorems                                                                *)
(***************************************************************************)
\* The situation the two ends are in is again one of the six after any step.
LEMMA FlowStep ==
   ASSUME IInv, NEW e \in End, Step(e) PROVE FlowInv'
<1>1. Other(e) \in End
  BY EndFacts
<1>2. /\ ~MeetsData(e) /\ ~MeetsEnd(e)
      /\ \/ OpensAsMaster(e) \/ OpensAsSlave(e)
         \/ TurnsToOutput(e) \/ TurnsToInput(e)
         \/ PutsToken(e) \/ GetsToken(e) \/ EndsRun(e)
         \/ SendsFirst(e) \/ ChecksFirst(e) \/ SendsLast(e) \/ ChecksLast(e)
  BY NeverTraps, StepCases DEF IInv
<1>3. OpensAsMaster(e) \/ OpensAsSlave(e) => FlowInv'
  BY <1>1, OpensAsMasterFlow, OpensAsSlaveFlow
<1>4. TurnsToOutput(e) \/ TurnsToInput(e) => FlowInv'
  BY <1>1, TurnsToOutputFlow, TurnsToInputFlow
<1>5. PutsToken(e) \/ GetsToken(e) \/ EndsRun(e) => FlowInv'
  BY <1>1, PutsTokenFlow, GetsTokenFlow, EndsRunFlow
<1>6. SendsFirst(e) \/ ChecksFirst(e) \/ SendsLast(e) \/ ChecksLast(e) => FlowInv'
  BY <1>1, SendsFirstFlow, ChecksFirstFlow, SendsLastFlow, ChecksLastFlow
<1> QED
  BY <1>2, <1>3, <1>4, <1>5, <1>6

\* Matching conversations begin with both ends idle.
LEMMA FlowInit == ASSUME Init, Matched PROVE IInv
<1>1. TypeOK
  BY TypeInit
<1>2. \A e \in End : /\ run[e] = 0 /\ cnt[e] = 0 /\ half[e] = FALSE /\ trans[e] = 1
                     /\ q[e] = << >> /\ trap[e] = FALSE
  BY DEF Init, Start, LinkInit
<1>3. LocalInv
  <2> SUFFICES ASSUME NEW e \in End PROVE LocalOK(e)
    BY DEF LocalInv
  <2>1. trans[e] <= NumTrans => Length(e) \in Nat
    BY <1>1, CurrentSide, SizeAssumption
  <2> QED
    BY <1>2, <2>1 DEF LocalOK
<1>4. Idle("a", Other("a"))
  <2>1. "a" \in End /\ Other("a") \in End
    BY EndFacts DEF End
  <2> QED
    BY <1>2, <2>1 DEF Idle
<1>5. FlowInv
  BY <1>4 DEF FlowInv, Shape, End
<1> QED
  BY <1>1, <1>2, <1>3, <1>5 DEF IInv

\* The whole invariant is inductive.
LEMMA FlowNext == IInv /\ [Next]_vars => IInv'
<1> SUFFICES ASSUME IInv, [Next]_vars PROVE IInv'
  OBVIOUS
<1>1. CASE UNCHANGED vars
  <2>1. /\ q' = q /\ trap' = trap /\ conv' = conv /\ trans' = trans /\ run' = run /\ cnt' = cnt
        /\ last_out' = last_out /\ half' = half
    BY <1>1 DEF vars
  <2>2. \A e : /\ Cur(e)' = Cur(e) /\ Length(e)' = Length(e) /\ Base(e)' = Base(e)
               /\ \A k : /\ (Outputs(e, k)' <=> Outputs(e, k)) /\ Tokens(e, k)' = Tokens(e, k)
                         /\ \A m : Ahead(e, k, m)' <=> Ahead(e, k, m)
    BY <2>1 DEF Cur, Length, Base, Outputs, Tokens, Ahead
  <2>3. \A s, r : /\ SameTrans(s, r)' <=> SameTrans(s, r)
                  /\ Together(s, r)' <=> Together(s, r)
                  /\ \A k, m : Owed(s, r, k, m)' <=> Owed(s, r, k, m)
                  /\ \A k : Waits(s, k)' <=> Waits(s, k)
    <3>1. \A s, r : (SameTrans(s, r)' <=> SameTrans(s, r)) /\ (Together(s, r)' <=> Together(s, r))
      BY <2>1 DEF SameTrans, Together
    <3>2. \A s, r, k, m : Owed(s, r, k, m)' <=> Owed(s, r, k, m)
      BY <2>2 DEF Owed
    <3>3. ASSUME NEW s, NEW k PROVE Waits(s, k)' <=> Waits(s, k)
      <4>1. (\A i \in k .. run'[s] - 1 : ~Outputs(s, i)') <=> (\A i \in k .. run[s] - 1 : ~Outputs(s, i))
        BY <2>1, <2>2
      <4>2. (\A i \in k .. Length(s)' : \A m \in 1 .. Tokens(s, i)' : Ahead(s, i, m)')
               <=> (\A i \in k .. Length(s) : \A m \in 1 .. Tokens(s, i) : Ahead(s, i, m))
        BY <2>2
      <4> QED
        BY <2>1, <4>1, <4>2 DEF Waits
    <3> QED
      BY <3>1, <3>2, <3>3
  <2>4. ASSUME NEW s, NEW r, NEW n, Carries(s, r, n) PROVE Carries(s, r, n)'
    BY <2>1, <2>2, <2>3, <2>4 DEF Carries, Precedes
  <2>5. ASSUME NEW s, NEW r, Followed(s, r) PROVE Followed(s, r)'
    <3>1. Carries(s, r, Len(q[r]) - 1)'
      <4> DEFINE n == Len(q[r]) - 1
      <4>1. PICK c : c = n
        OBVIOUS
      <4>2. Carries(s, r, c)'
        BY <2>4, <2>5, <4>1 DEF Followed
      <4>3. n' = c
        BY <2>1, <4>1
      <4> QED
        BY <4>2, <4>3 DEF Carries
    <3> QED
      BY <2>1, <2>5, <3>1 DEF Followed
  <2>6. ASSUME NEW s, NEW r, Holding(s, r) PROVE Holding(s, r)'
    <3>1. PICK c : c = Len(q[r])
      OBVIOUS
    <3>2. Carries(s, r, c)' /\ Len(q'[r]) = c
      BY <2>1, <2>4, <2>6, <3>1 DEF Holding
    <3>3. Carries(s, r, Len(q[r]))'
      BY <3>2 DEF Carries
    <3> QED
      BY <2>1, <2>2, <2>3, <2>6, <3>3 DEF Holding
  <2>7. ASSUME NEW s, NEW r, Shape(s, r) PROVE Shape(s, r)'
    <3>1. Idle(s, r) \/ Opening(s, r) \/ Leaving(s, r) => Shape(s, r)'
      BY <2>1, <2>2, <2>3 DEF Idle, Opening, Leaving, Shape
    <3>2. Holding(s, r) => Shape(s, r)'
      BY <2>6 DEF Shape
    <3>3. Completing(s, r) => Shape(s, r)'
      BY <2>1, <2>2, <2>3, <2>5 DEF Completing, Shape
    <3>4. ASSUME SameTrans(s, r), NEW k \in 1 .. Length(s), Passing(s, r, k) PROVE Shape(s, r)'
      BY <2>1, <2>2, <2>3, <2>5, <3>4 DEF Passing, Shape
    <3> QED
      BY <2>7, <3>1, <3>2, <3>3, <3>4 DEF Shape
  <2>8. FlowInv'
    BY <2>7 DEF IInv, FlowInv
  <2>9. TypeOK' /\ Matched'
    BY <2>1, <1>1, TypeNext DEF IInv, Matched
  <2>10. LocalInv'
    BY <2>1, <2>2 DEF IInv, LocalInv, LocalOK
  <2> QED
    BY <2>1, <2>8, <2>9, <2>10 DEF IInv
<1>2. ASSUME NEW e \in End, Step(e) PROVE IInv'
  <2>1. TypeOK /\ Matched /\ LocalInv /\ \A f \in End : ~trap[f]
    BY DEF IInv
  <2>2. ~MeetsData(e) /\ ~MeetsEnd(e)
    BY <1>2, NeverTraps
  <2>3. TypeOK' /\ LocalInv'
    BY <1>2, <2>1, <2>2, TypeStep, StepKinds, LocalStep
  <2>4. conv' = conv
    BY <1>2, <2>1, StepCases
  <2>5. Matched'
    BY <2>1, <2>4 DEF Matched
  <2>6. trap' = trap
    BY <1>2, <2>1, <2>2, StepCases DEF OpensAsMaster, OpensAsSlave, TurnsToOutput, TurnsToInput,
       PutsToken, GetsToken, EndsRun, SendsFirst, ChecksFirst, SendsLast, ChecksLast,
       Sends, Gets, GetsEnd
  <2> QED
    BY <1>2, <2>1, <2>3, <2>5, <2>6, FlowStep DEF IInv
<1> QED
  BY <1>1, <1>2 DEF Next, Finished

\* In every reachable state of conversations that match, the two ends are in
\* one of the six situations, and neither has trapped.
THEOREM MatchingTransactionsFlow == Spec => [](TypeOK /\ (Matched => IInv))
<1>1. Init => TypeOK /\ (Matched => IInv)
  BY TypeInit, FlowInit
<1>2. TypeOK /\ (Matched => IInv) /\ [Next]_vars => (TypeOK /\ (Matched => IInv))'
  <2> SUFFICES ASSUME TypeOK, Matched => IInv, [Next]_vars, Matched'
               PROVE  IInv'
    BY TypeNext
  <2>1. conv' = conv
    BY StepCases DEF Next, Finished, vars
  <2>2. Matched
    BY <2>1 DEF Matched
  <2> QED
    BY <2>2, FlowNext
<1> QED
  BY <1>1, <1>2, PTL DEF Spec

\* No call of matching transactions raises an exception: every END is checked
\* exactly where the other end sends one, and no data is where one is expected.
THEOREM NothingTraps == Spec => []NoTrap
<1>1. TypeOK /\ (Matched => IInv) => NoTrap
  BY DEF IInv, NoTrap
<1> QED
  BY <1>1, MatchingTransactionsFlow, PTL

\* Where the right to output is, by the situation.
LEMMA RightHeld ==
   ASSUME IInv, NEW s \in End, NEW r \in End, r = Other(s), Holding(s, r)
   PROVE  Cardinality(Holders) = 1 /\ Cardinality(Carriers) = 0
<1>0. /\ TypeOK /\ SameTrans(s, r) /\ q[s] = << >>
      /\ \A f \in End : f = s \/ f = r
  BY EndFacts DEF IInv, Holding, Together
<1>1. Holders = {s}
  BY <1>0 DEF Holders, Holding
<1>2. Carriers = {}
  <2> SUFFICES ASSUME NEW f \in End, NEW i \in 1 .. Cap, i <= Len(q[f]), q[f][i] = CtEnd
               PROVE  FALSE
    BY DEF Carriers
  <2>1. CASE f = s
    BY <1>0, <2>1, CapAssumption
  <2>2. CASE f = r
    <3>1. PICK n \in Nat : n = Len(q[r])
      BY <1>0 DEF TypeOK, LinkTypeOK
    <3>2. Carries(s, r, n) /\ i \in 1 .. n
      BY <2>2, <3>1, CapAssumption DEF Holding
    <3>3. PICK k \in 1 .. Length(r) : \E m \in 1 .. Tokens(r, k) : q[r][i] = <<Base(r) + k, m>>
      BY <3>2 DEF Carries
    <3>4. PICK m \in 1 .. Tokens(r, k) : q[r][i] = <<Base(r) + k, m>>
      BY <3>3
    <3>5. m # 0
      BY CurrentSide, <1>0
    <3> QED
      BY <2>2, <3>4, <3>5 DEF CtEnd
  <2> QED
    BY <1>0, <2>1, <2>2
<1> QED
  BY <1>1, <1>2, FS_Singleton, FS_EmptySet

\* Or, when it is passed, in the one END on its way.
LEMMA RightCarried ==
   ASSUME IInv, NEW s \in End, NEW r \in End, r = Other(s), NEW c, Passing(s, r, c)
   PROVE  Cardinality(Holders) = 0 /\ Cardinality(Carriers) = 1
<1>0. /\ TypeOK /\ SameTrans(s, r) /\ q[s] = << >> /\ Followed(s, r)
      /\ \A f \in End : f = s \/ f = r
      /\ ~last_out[s] /\ ~last_out[r]
  BY EndFacts DEF IInv, Passing, Together, Waits
<1>1. Holders = {}
  BY <1>0 DEF Holders
<1>2. q[r] \in Seq(Token) /\ Len(q[r]) \in 1 .. Cap
  <2>1. q[r] \in Seq(Token) /\ q[r] # << >> /\ Len(q[r]) <= Cap
    BY <1>0 DEF TypeOK, LinkTypeOK, Followed
  <2>2. Len(q[r]) \in Nat /\ Len(q[r]) # 0
    BY <2>1, EmptySeq
  <2> QED
    BY <2>1, <2>2, CapAssumption
<1>3. PICK n \in 1 .. Cap : n = Len(q[r])
  BY <1>2
<1>4. q[r][n] = CtEnd /\ n - 1 \in Nat /\ n \in Nat
  BY <1>0, <1>3, CapAssumption DEF Followed
<1>5. PICK d \in Nat : d = n - 1
  BY <1>4
<1>6. Carries(s, r, d)
  BY <1>0, <1>3, <1>5 DEF Followed
<1>7. Carriers = {<<r, n>>}
  <2>1. ASSUME NEW i \in 1 .. Cap, i <= n, q[r][i] = CtEnd PROVE i = n
    <3> SUFFICES ASSUME i # n PROVE FALSE
      OBVIOUS
    <3>1. i \in 1 .. d
      BY <1>4, <1>5, <2>1, CapAssumption
    <3>2. PICK k \in 1 .. Length(r) : \E m \in 1 .. Tokens(r, k) : q[r][i] = <<Base(r) + k, m>>
      BY <1>6, <3>1 DEF Carries
    <3>3. PICK m \in 1 .. Tokens(r, k) : q[r][i] = <<Base(r) + k, m>>
      BY <3>2
    <3>4. m # 0
      OBVIOUS
    <3> QED
      BY <2>1, <3>3, <3>4 DEF CtEnd
  <2>2. ASSUME NEW f \in End, NEW i \in 1 .. Cap, i <= Len(q[f]), q[f][i] = CtEnd
        PROVE  f = r /\ i = n
    <3>1. f # s
      BY <1>0, <2>2, CapAssumption
    <3> QED
      BY <1>0, <1>3, <2>1, <2>2, <3>1
  <2>3. <<r, n>> \in End \X (1 .. Cap) /\ n <= Len(q[r])
    BY <1>3, <1>4
  <2> QED
    BY <1>4, <2>2, <2>3 DEF Carriers
<1> QED
  BY <1>1, <1>7, FS_Singleton, FS_EmptySet

\* Every variable keeps its type; in matching transactions the right to output
\* is with one end, or carried to it by the only END in flight, and a completed
\* transaction leaves nothing in a buffer.
THEOREM TransactionsInvariant == Spec => []Inv
<1>1. ASSUME TypeOK, Matched => IInv PROVE Inv
  <2>1. ASSUME Matched, trans["a"] = trans["b"], \A e \in End : run[e] # 0 /\ ~half[e]
        PROVE  Cardinality(Holders) + Cardinality(Carriers) = 1
    <3>1. PICK s \in End : Shape(s, Other(s))
      BY <1>1, <2>1 DEF IInv, FlowInv
    <3>2. PICK r \in End : r = Other(s)
      BY EndFacts
    <3>3. trans[r] = trans[s] /\ trans[s] \in Nat
      BY <1>1, <2>1, <3>2, SizeAssumption DEF End, Other, TypeOK
    <3>4. ~Idle(s, r) /\ ~Opening(s, r) /\ ~Completing(s, r) /\ ~Leaving(s, r)
      BY <2>1, <3>3 DEF Idle, Opening, Completing, Leaving
    <3>5. Holding(s, r) \/ \E k \in 1 .. Length(s) : Passing(s, r, k)
      BY <3>1, <3>2, <3>4 DEF Shape
    <3> QED
      BY <1>1, <2>1, <3>2, <3>5, RightHeld, RightCarried
  <2>2. ASSUME Matched, trans["a"] = trans["b"], \A e \in End : run[e] = 0
        PROVE  \A e \in End : q[e] = << >>
    <3>1. PICK s \in End : Shape(s, Other(s))
      BY <1>1, <2>2 DEF IInv, FlowInv
    <3>2. PICK r \in End : r = Other(s)
      BY EndFacts
    <3>3. trans[r] = trans[s] /\ trans[s] \in Nat
      BY <1>1, <2>2, <3>2, SizeAssumption DEF End, Other, TypeOK
    <3>4. ~Opening(s, r) /\ ~Holding(s, r) /\ ~Completing(s, r) /\ ~Leaving(s, r)
          /\ \A k : ~Passing(s, r, k)
      BY <2>2, <3>3 DEF Opening, Holding, Completing, Leaving, Passing, Together
    <3>5. Idle(s, r)
      BY <3>1, <3>2, <3>4 DEF Shape
    <3> QED
      BY <3>2, <3>5, EndFacts DEF Idle
  <2> QED
    BY <1>1, <2>1, <2>2 DEF Inv, OneOutputRight, QuiescentBetween
<1> QED
  BY <1>1, MatchingTransactionsFlow, PTL

(***************************************************************************)
(* The refinement of Dialogue.tla                                          *)
(***************************************************************************)
\* The data before the first END, when it is known where that is.
LEMMA PayloadIs ==
   ASSUME NEW s \in Seq(Token), NEW n \in 0 .. Len(s), BeforeEnd(s, n)
   PROVE  /\ Payload(s) = SubSeq(s, 1, n)
          /\ Payload(s) \in Seq(Token) /\ Len(Payload(s)) = n
          /\ \A i \in 1 .. n : Payload(s)[i] = s[i]
<1>0. Len(s) \in Nat /\ n \in Nat
  OBVIOUS
<1>1. ASSUME NEW m \in 0 .. Len(s), BeforeEnd(s, m) PROVE m = n
  <2>1. ~(m < n)
    <3> SUFFICES ASSUME m < n PROVE FALSE
      OBVIOUS
    <3>1. m + 1 \in 1 .. n /\ m < Len(s)
      BY <1>0
    <3> QED
      BY <1>1, <3>1 DEF BeforeEnd
  <2>2. ~(n < m)
    <3> SUFFICES ASSUME n < m PROVE FALSE
      OBVIOUS
    <3>1. n + 1 \in 1 .. m /\ n < Len(s)
      BY <1>0
    <3> QED
      BY <1>1, <3>1 DEF BeforeEnd
  <2> QED
    BY <1>0, <2>1, <2>2
<1>2. (CHOOSE m \in 0 .. Len(s) : BeforeEnd(s, m)) = n
  BY <1>1
<1>3. Payload(s) = SubSeq(s, 1, n)
  BY <1>2 DEF Payload
<1>4. /\ SubSeq(s, 1, n) \in Seq(Token) /\ Len(SubSeq(s, 1, n)) = n
      /\ \A i \in 1 .. n : SubSeq(s, 1, n)[i] = s[i]
  <2>1. /\ SubSeq(s, 1, n) \in Seq(Token)
        /\ Len(SubSeq(s, 1, n)) = IF 1 <= n THEN n - 1 + 1 ELSE 0
        /\ \A i \in 1 .. n - 1 + 1 : SubSeq(s, 1, n)[i] = s[1 + i - 1]
    BY <1>0, SubSeqProperties
  <2> QED
    BY <1>0, <2>1
<1> QED
  BY <1>3, <1>4

\* Of a buffer of data it is all; an END behind it changes nothing; and no data
\* is before an END that comes first.
LEMMA PayloadFacts ==
   ASSUME NEW s \in Seq(Token)
   PROVE  /\ (\A i \in 1 .. Len(s) : s[i] # CtEnd) =>
                Payload(s) = s /\ Payload(Append(s, CtEnd)) = s
          /\ s # << >> /\ s[1] = CtEnd => Payload(s) = << >>
          /\ s = << >> => Payload(s) = << >>
<1>0. Len(s) \in Nat
  OBVIOUS
<1>1. ASSUME \A i \in 1 .. Len(s) : s[i] # CtEnd
      PROVE  Payload(s) = s /\ Payload(Append(s, CtEnd)) = s
  <2> DEFINE n == Len(s)
             u == Append(s, CtEnd)
  <2>1. BeforeEnd(s, n) /\ n \in 0 .. Len(s)
    BY <1>0, <1>1 DEF BeforeEnd
  <2>2. /\ u \in Seq(Token) /\ Len(u) = n + 1 /\ u[n + 1] = CtEnd
        /\ \A i \in 1 .. n : u[i] = s[i]
    BY AppendToken, EndTokens
  <2>3. BeforeEnd(u, n) /\ n \in 0 .. Len(u)
    BY <1>0, <1>1, <2>2 DEF BeforeEnd
  <2> HIDE DEF n, u
  <2>4. /\ Payload(s) \in Seq(Token) /\ Len(Payload(s)) = n
        /\ \A i \in 1 .. n : Payload(s)[i] = s[i]
    BY <2>1, PayloadIs
  <2>5. /\ Payload(u) \in Seq(Token) /\ Len(Payload(u)) = n
        /\ \A i \in 1 .. n : Payload(u)[i] = u[i]
    BY <2>2, <2>3, PayloadIs
  <2>6. Payload(s) = s
    BY <2>4, SeqEqual DEF n
  <2>7. Payload(u) = s
    <3>1. \A i \in 1 .. Len(s) : Payload(u)[i] = s[i]
      BY <2>2, <2>5 DEF n
    <3> QED
      BY <2>5, <3>1, SeqEqual DEF n
  <2> QED
    BY <2>6, <2>7 DEF u
<1>2. ASSUME s # << >>, s[1] = CtEnd PROVE Payload(s) = << >>
  <2>1. 0 \in 0 .. Len(s) /\ BeforeEnd(s, 0)
    BY <1>0, <1>2 DEF BeforeEnd
  <2>2. Payload(s) \in Seq(Token) /\ Len(Payload(s)) = 0
    BY <2>1, PayloadIs
  <2> QED
    BY <2>2, EmptySeq
<1>3. ASSUME s = << >> PROVE \A i \in 1 .. Len(s) : s[i] # CtEnd
  BY <1>3
<1> QED
  BY <1>1, <1>2, <1>3

\* Buffers of ENDs carry no data.
LEMMA PayloadOfEnds == Payload(<< >>) = << >> /\ Payload(One) = << >> /\ Payload(Two) = << >>
<1>1. One \in Seq(Token) /\ Two \in Seq(Token) /\ << >> \in Seq(Token) /\ Len(<< >>) = 0
  BY EndTokens DEF One, Two
<1>2. Payload(<< >>) = << >>
  BY <1>1, PayloadFacts
<1> QED
  BY <1>1, <1>2, EndTokens, PayloadFacts

\* Consuming the first of the data takes it off the wire.
LEMMA PayloadTail ==
   ASSUME NEW s \in Seq(Token), s # << >>, s[1] # CtEnd,
          NEW n \in 0 .. Len(s), BeforeEnd(s, n)
   PROVE  /\ Payload(s) # << >> /\ Head(Payload(s)) = s[1]
          /\ Payload(Tail(s)) = Tail(Payload(s))
<1>0. /\ Len(s) \in Nat \ {0} /\ n \in Nat
      /\ Tail(s) \in Seq(Token) /\ Len(Tail(s)) = Len(s) - 1
      /\ \A i \in 1 .. Len(s) - 1 : Tail(s)[i] = s[i + 1]
  BY ConsumeToken
<1>1. n # 0
  BY <1>0 DEF BeforeEnd
<1>2. /\ Payload(s) \in Seq(Token) /\ Len(Payload(s)) = n
      /\ \A i \in 1 .. n : Payload(s)[i] = s[i]
  BY PayloadIs
<1>3. Payload(s) # << >>
  BY <1>1, <1>2
<1>4. /\ Head(Payload(s)) = Payload(s)[1]
      /\ Tail(Payload(s)) \in Seq(Token) /\ Len(Tail(Payload(s))) = n - 1
      /\ \A i \in 1 .. n - 1 : Tail(Payload(s))[i] = Payload(s)[i + 1]
  BY <1>2, <1>3, ConsumeToken
<1>5. n - 1 \in 0 .. Len(Tail(s)) /\ BeforeEnd(Tail(s), n - 1)
  <2>1. n - 1 \in 0 .. Len(s) - 1
    BY <1>0, <1>1
  <2>2. \A i \in 1 .. n - 1 : Tail(s)[i] # CtEnd
    <3>1. \A i \in 1 .. n - 1 : i \in 1 .. Len(s) - 1 /\ i + 1 \in 1 .. n
      BY <1>0
    <3> QED
      BY <1>0, <3>1 DEF BeforeEnd
  <2>3. n - 1 < Len(s) - 1 => Tail(s)[n - 1 + 1] = CtEnd
    <3>0. n - 1 + 1 = n
      BY <1>0
    <3> SUFFICES ASSUME n - 1 < Len(s) - 1 PROVE Tail(s)[n] = CtEnd
      BY <3>0
    <3>1. n \in 1 .. Len(s) - 1 /\ n < Len(s)
      BY <1>0, <1>1
    <3> QED
      BY <1>0, <3>1 DEF BeforeEnd
  <2> QED
    BY <1>0, <2>1, <2>2, <2>3 DEF BeforeEnd
<1> DEFINE d == n - 1
<1> HIDE DEF d
<1>6. d \in 0 .. Len(Tail(s)) /\ BeforeEnd(Tail(s), d)
  BY <1>5 DEF d
<1>7. /\ Payload(Tail(s)) \in Seq(Token) /\ Len(Payload(Tail(s))) = d
      /\ \A i \in 1 .. d : Payload(Tail(s))[i] = Tail(s)[i]
  BY <1>0, <1>6, PayloadIs
<1>8. \A i \in 1 .. d : Tail(Payload(s))[i] = Tail(s)[i]
  <2>1. \A i \in 1 .. n - 1 : i \in 1 .. Len(s) - 1 /\ i + 1 \in 1 .. n
    BY <1>0
  <2> QED
    BY <1>0, <1>2, <1>4, <2>1 DEF d
<1>9. Payload(Tail(s)) = Tail(Payload(s))
  <2>1. Len(Tail(Payload(s))) = d
    BY <1>4 DEF d
  <2> QED
    BY <1>4, <1>7, <1>8, <2>1, SeqEqual
<1> QED
  BY <1>1, <1>2, <1>3, <1>4, <1>9

\* What one end does, as updates of the variables of the conversation.
LEMMA Updates ==
   ASSUME TypeOK, TypeOK', NEW e \in End, NEW t, NEW r, NEW c, NEW b, NEW h,
          Becomes(e, t, r, c, b, h), Kept(Other(e))
   PROVE  /\ trans' = [trans EXCEPT ![e] = t]
          /\ run' = [run EXCEPT ![e] = r]
          /\ cnt' = [cnt EXCEPT ![e] = c]
<1>1. /\ trans \in [End -> 1 .. NumTrans + 1] /\ trans' \in [End -> 1 .. NumTrans + 1]
      /\ run \in [End -> 0 .. MaxRuns + 1] /\ run' \in [End -> 0 .. MaxRuns + 1]
      /\ cnt \in [End -> 0 .. MaxLen] /\ cnt' \in [End -> 0 .. MaxLen]
  BY DEF TypeOK
<1>2. \A f \in End : f = e \/ f = Other(e)
  BY EndFacts
<1> QED
  BY <1>1, <1>2, EndFacts DEF Becomes, Kept

\* The variables of the conversation that stay as they are.
LEMMA Stays ==
   ASSUME TypeOK, TypeOK', NEW e \in End, Kept(Other(e))
   PROVE  /\ trans'[e] = trans[e] => trans' = trans
          /\ run'[e] = run[e] => run' = run
          /\ cnt'[e] = cnt[e] => cnt' = cnt
<1>1. /\ trans \in [End -> 1 .. NumTrans + 1] /\ trans' \in [End -> 1 .. NumTrans + 1]
      /\ run \in [End -> 0 .. MaxRuns + 1] /\ run' \in [End -> 0 .. MaxRuns + 1]
      /\ cnt \in [End -> 0 .. MaxLen] /\ cnt' \in [End -> 0 .. MaxLen]
  BY DEF TypeOK
<1>2. \A f \in End : f = e \/ f = Other(e)
  BY EndFacts
<1> QED
  BY <1>1, <1>2 DEF Becomes, Kept

Wires == [f \in End |-> Payload(q[f])]

\* The data in a buffer, in any of the situations: all of it is before an END.
LEMMA CarriesData ==
   ASSUME TypeOK, NEW s \in End, NEW r \in End, NEW n \in Nat, Carries(s, r, n),
          trans[r] <= NumTrans
   PROVE  \A i \in 1 .. n : q[r][i] # CtEnd
<1> SUFFICES ASSUME NEW i \in 1 .. n PROVE q[r][i] # CtEnd
  OBVIOUS
<1>1. PICK k \in 1 .. Length(r) : \E m \in 1 .. Tokens(r, k) : q[r][i] = <<Base(r) + k, m>>
  BY DEF Carries
<1>2. PICK m \in 1 .. Tokens(r, k) : q[r][i] = <<Base(r) + k, m>>
  BY <1>1
<1>3. m # 0
  BY CurrentSide
<1> QED
  BY <1>2, <1>3 DEF CtEnd

\* An END changes nothing on the wires, neither sent nor checked.
LEMMA EndsAreInvisible ==
   ASSUME IInv, NEW e \in End, Step(e),
          \/ OpensAsMaster(e) \/ OpensAsSlave(e) \/ TurnsToOutput(e) \/ TurnsToInput(e)
          \/ SendsFirst(e) \/ ChecksFirst(e) \/ SendsLast(e) \/ ChecksLast(e)
   PROVE  Wires' = Wires
<1> DEFINE o == Other(e)
<1>0. /\ o \in End /\ e = Other(o) /\ e # o /\ \A f \in End : f = e \/ f = o
      /\ TypeOK /\ Matched /\ LocalInv /\ LocalOK(e)
      /\ q[e] \in Seq(Token) /\ q[o] \in Seq(Token) /\ Len(q[o]) \in Nat
      /\ run[e] \in Nat /\ Length(e) \in Nat /\ trans[e] <= NumTrans /\ trans[e] \in Nat
      /\ half[e] \in BOOLEAN
  BY EndFacts, Setting DEF IInv
<1>1. ASSUME Payload(q'[e]) = Payload(q[e]), Payload(q'[o]) = Payload(q[o])
      PROVE  Wires' = Wires
  BY <1>0, <1>1 DEF Wires
<1> HIDE DEF o
<1>2. CASE OpensAsMaster(e)
  <2>1. q'[o] = Append(q[o], CtEnd) /\ q'[e] = q[e]
    BY <1>2 DEF OpensAsMaster, Sends, o
  <2>2. q[o] = << >> \/ q[o] = One
    <3>1. run[e] = 0 /\ ~(run[e] > 0)
      BY <1>2 DEF OpensAsMaster
    <3>2. Idle(e, o) \/ Idle(o, e) \/ Leaving(o, e)
      BY <1>0, <1>2, Situation DEF o
    <3> QED
      BY <3>1, <3>2 DEF Idle, Leaving
  <2> QED
    BY <1>1, <2>1, <2>2, PayloadOfEnds, EndTokens
<1>3. CASE OpensAsSlave(e)
  <2>1. q'[e] = Tail(q[e]) /\ q'[o] = q[o]
    BY <1>3 DEF OpensAsSlave, GetsEnd, Gets, o
  <2>2. q[e] = One
    BY <1>0, <1>3, Situation DEF Opening, o
  <2> QED
    BY <1>1, <2>1, <2>2, PayloadOfEnds, EndTokens
<1>4. CASE TurnsToOutput(e) \/ ChecksFirst(e)
  <2>1. q'[e] = Tail(q[e]) /\ q'[o] = q[o] /\ q[e] # << >>
    BY <1>4 DEF TurnsToOutput, ChecksFirst, GetsEnd, Gets, o
  <2>2. Len(q[e]) = 1 /\ q[e][1] = CtEnd
    <3>1. CASE TurnsToOutput(e)
      <4>1. PICK k \in 1 .. Length(o) : Passing(o, e, k)
        BY <1>0, <3>1, Situation DEF o
      <4> QED
        BY <1>0, <3>1, <4>1, PassingTurn DEF TurnsToOutput
    <3>2. CASE ChecksFirst(e)
      BY <1>0, <3>2, Situation, CompletingTurn DEF ChecksFirst, o
    <3> QED
      BY <1>4, <3>1, <3>2
  <2>3. Tail(q[e]) = << >>
    BY <1>0, <2>1, <2>2, ConsumeToken
  <2>4. Payload(q[e]) = << >>
    BY <1>0, <2>1, <2>2, PayloadFacts
  <2> QED
    BY <1>1, <2>1, <2>3, <2>4, PayloadOfEnds
<1>5. CASE TurnsToInput(e) \/ SendsFirst(e)
  <2>1. q'[o] = Append(q[o], CtEnd) /\ q'[e] = q[e]
    BY <1>5 DEF TurnsToInput, SendsFirst, Sends, o
  <2>2. Holding(e, o)
    <3>1. run[e] # 0 /\ last_out[e] /\ ~half[e]
      <4>1. CASE TurnsToInput(e)
        <5>1. run[e] \in 1 .. Length(e) /\ last_out[e]
          BY <4>1 DEF TurnsToInput, InRunIn
        <5> QED
          BY <1>0, <5>1 DEF LocalOK
      <4>2. CASE SendsFirst(e)
        BY <1>0, <4>2 DEF SendsFirst, AtCompletion
      <4> QED
        BY <1>5, <4>1, <4>2
    <3> QED
      BY <1>0, <3>1, HolderShape DEF o
  <2>3. PICK n \in Nat : n = Len(q[o])
    BY <1>0
  <2>4. Carries(e, o, n) /\ trans[o] <= NumTrans
    BY <2>2, <2>3 DEF Holding, Together, SameTrans
  <2>5. \A i \in 1 .. Len(q[o]) : q[o][i] # CtEnd
    BY <1>0, <2>3, <2>4, CarriesData
  <2> QED
    BY <1>0, <1>1, <2>1, <2>5, PayloadFacts
<1>6. CASE SendsLast(e)
  <2>1. q'[o] = Append(q[o], CtEnd) /\ q'[e] = q[e]
    BY <1>6 DEF SendsLast, Sends, o
  <2>2. q[o] = << >>
    BY <1>0, <1>6, Situation DEF Completing, Together, o
  <2> QED
    BY <1>1, <2>1, <2>2, PayloadOfEnds, EndTokens
<1>7. CASE ChecksLast(e)
  <2>1. q'[e] = Tail(q[e]) /\ q'[o] = q[o]
    BY <1>7 DEF ChecksLast, GetsEnd, Gets, o
  <2>2. q[e] = One \/ q[e] = Two
    BY <1>0, <1>7, Situation DEF Leaving, o
  <2> QED
    BY <1>1, <2>1, <2>2, PayloadOfEnds, EndTokens
<1> QED
  BY <1>2, <1>3, <1>4, <1>5, <1>6, <1>7

\* Sending a token puts it on the wire, and only when the sender has the turn.
LEMMA SpeaksInTurn ==
   ASSUME IInv, NEW e \in End, NEW o \in End, o = Other(e), Step(e), PutsToken(e)
   PROVE  /\ trans[o] = trans[e] /\ Payload(q[e]) = << >>
          /\ (cnt[e] = 0 /\ (run[e] > 1 => ~Outputs(e, run[e] - 1))) => run[o] = run[e]
          /\ Payload(q'[e]) = Payload(q[e])
          /\ Payload(q'[o]) = Append(Payload(q[o]), <<Base(e) + run[e], cnt[e] + 1>>)
<1>0. /\ TypeOK /\ Matched /\ LocalOK(e) /\ e = Other(o)
      /\ run[e] \in Nat /\ run[o] \in Nat /\ cnt[e] \in Nat /\ cnt[o] \in Nat
      /\ Length(e) \in Nat /\ trans[e] <= NumTrans /\ trans[e] \in Nat
      /\ q[o] \in Seq(Token) /\ Len(q[o]) \in Nat
  BY Setting DEF IInv
<1>1. /\ run[e] \in 1 .. Length(e) /\ Outputs(e, run[e]) /\ last_out[e] /\ run[e] # 0
      /\ ~half[e] /\ cnt[e] < Tokens(e, run[e]) /\ q'[e] = q[e]
      /\ q'[o] = Append(q[o], <<Base(e) + run[e], cnt[e] + 1>>)
  BY <1>0 DEF PutsToken, InRunOut, Sends, LocalOK
<1>2. Holding(e, o)
  BY <1>1, HolderShape
<1>3. /\ Together(e, o) /\ SameTrans(e, o) /\ trans[o] = trans[e] /\ q[e] = << >>
      /\ run[o] > 0 /\ trans[o] <= NumTrans
  BY <1>2 DEF Holding, Together, SameTrans
<1>4. /\ Length(o) = Length(e) /\ Base(e) \in Nat
      /\ \A k \in 1 .. Length(e) : Tokens(o, k) = Tokens(e, k) /\ Tokens(e, k) \in Nat
  BY <1>0, <1>3, MatchedRuns
<1>5. ASSUME cnt[e] = 0, run[e] > 1 => ~Outputs(e, run[e] - 1) PROVE run[o] = run[e]
  <2>1. ~(run[o] < run[e])
    <3> SUFFICES ASSUME run[o] < run[e] PROVE FALSE
      OBVIOUS
    <3>1. run[e] > 1 /\ run[e] - 1 \in 1 .. Length(e) /\ run[o] <= run[e] - 1 /\ run[e] - 1 < run[e]
      BY SMTT(30), <1>0, <1>1, <1>3
    <3>2. Outputs(e, run[e] - 1)
      BY <1>2, <3>1 DEF Holding
    <3> QED
      BY <1>5, <3>1, <3>2
  <2>2. ~(run[e] < run[o])
    <3> SUFFICES ASSUME run[e] < run[o] PROVE FALSE
      OBVIOUS
    <3>1. 1 \in 1 .. Tokens(e, run[e]) /\ Tokens(o, run[e]) = Tokens(e, run[e])
      BY <1>1, <1>4, <1>5
    <3>2. Ahead(e, run[e], 1) /\ ~Ahead(o, run[e], 1)
      BY <1>0, <1>5 DEF Ahead
    <3>3. Owed(o, e, run[e], 1)
      BY <1>1, <3>1, <3>2 DEF Owed
    <3> QED
      BY <1>1, <1>2, <3>1, <3>3 DEF Holding
  <2> QED
    BY <1>0, <2>1, <2>2
<1>6. Payload(q[o]) = q[o]
  <2>1. PICK n \in Nat : n = Len(q[o])
    BY <1>0
  <2>2. Carries(e, o, n)
    BY <1>2, <2>1 DEF Holding
  <2>3. \A i \in 1 .. Len(q[o]) : q[o][i] # CtEnd
    BY <1>0, <1>3, <2>1, <2>2, CarriesData
  <2> QED
    BY <1>0, <2>3, PayloadFacts
<1>7. Payload(q'[o]) = q'[o]
  <2>1. PICK n \in Nat : n = Len(q[o])
    BY <1>0
  <2>2. Carries(e, o, n)
    BY <1>2, <2>1 DEF Holding
  <2>3. \A i \in 1 .. n : q[o][i] # CtEnd
    BY <1>0, <1>3, <2>2, CarriesData
  <2> DEFINE new == <<Base(e) + run[e], cnt[e] + 1>>
  <2>4. new \in Token /\ new # CtEnd
    BY <1>0, <1>4 DEF Token, CtEnd
  <2>5. q'[o] = Append(q[o], new)
    BY <1>1
  <2> HIDE DEF new
  <2>6. /\ q'[o] \in Seq(Token) /\ Len(q'[o]) = n + 1 /\ q'[o][n + 1] = new
        /\ \A i \in 1 .. n : q'[o][i] = q[o][i]
    <3>1. q[o] \in Seq(Token)
      BY <1>0
    <3> QED
      BY <2>1, <2>4, <2>5, <3>1, AppendToken
  <2>7. \A i \in 1 .. Len(q'[o]) : q'[o][i] # CtEnd
    <3>1. \A i \in 1 .. n + 1 : i \in 1 .. n \/ i = n + 1
      OBVIOUS
    <3> QED
      BY <2>3, <2>4, <2>6, <3>1
  <2> QED
    BY <2>6, <2>7, PayloadFacts
<1>8. Payload(q[e]) = << >>
  BY <1>3, PayloadOfEnds
<1> QED
  BY <1>1, <1>3, <1>5, <1>6, <1>7, <1>8

\* The token an end inputs is the one its next place in the conversation is for,
\* and leaves the wire.
LEMMA ListensInPlace ==
   ASSUME IInv, NEW e \in End, NEW o \in End, o = Other(e), Step(e), GetsToken(e)
   PROVE  /\ Payload(q[e]) # << >>
          /\ Head(Payload(q[e])) = <<Base(e) + run[e], cnt[e] + 1>>
          /\ Payload(q'[e]) = Tail(Payload(q[e]))
          /\ Payload(q'[o]) = Payload(q[o])
<1>0. /\ TypeOK /\ Matched /\ LocalOK(e) /\ e = Other(o)
      /\ run[e] \in Nat /\ run[o] \in Nat /\ cnt[e] \in Nat /\ Length(e) \in Nat
      /\ trans[e] <= NumTrans /\ trans[e] \in Nat
      /\ q[e] \in Seq(Token) /\ Len(q[e]) \in Nat
      /\ ~MeetsEnd(e)
  BY Setting, NeverTraps DEF IInv
<1>1. /\ run[e] \in 1 .. Length(e) /\ run[e] # 0 /\ ~half[e] /\ InRunIn(e)
      /\ cnt[e] < Tokens(e, run[e])
      /\ q[e] # << >> /\ Head(q[e]) # CtEnd /\ q'[e] = Tail(q[e]) /\ q'[o] = q[o]
  BY <1>0 DEF GetsToken, InRunIn, Gets, LocalOK
<1>2. q[e][1] # CtEnd
  BY <1>0, <1>1, ConsumeToken
<1>3. SameTrans(o, e) /\ (Carries(o, e, Len(q[e])) \/ Followed(o, e))
  <2>1. \/ Holding(o, e)
        \/ SameTrans(o, e) /\ \E k \in 1 .. Length(o) : Passing(o, e, k)
        \/ Completing(o, e)
    BY <1>1, InputShape
  <2>2. Completing(o, e) => SameTrans(o, e) /\ Followed(o, e)
    BY <1>1 DEF Completing, Together
  <2>3. Holding(o, e) => SameTrans(o, e) /\ Carries(o, e, Len(q[e]))
    BY DEF Holding, Together
  <2> QED
    BY <2>1, <2>2, <2>3 DEF Passing
<1>4. PICK n \in 0 .. Len(q[e]) : BeforeEnd(q[e], n) /\ Carries(o, e, n)
  <2>1. CASE Carries(o, e, Len(q[e]))
    <3>1. PICK n \in Nat : n = Len(q[e])
      BY <1>0
    <3>2. \A i \in 1 .. n : q[e][i] # CtEnd
      BY <1>0, <2>1, <3>1, CarriesData
    <3>3. BeforeEnd(q[e], n) /\ n \in 0 .. Len(q[e])
      BY <3>1, <3>2 DEF BeforeEnd
    <3>4. Carries(o, e, n)
      BY <2>1, <3>1
    <3> QED
      BY <3>3, <3>4
  <2>2. CASE Followed(o, e)
    <3>1. Len(q[e]) # 0
      BY <1>0, <1>1, EmptySeq
    <3>2. PICK n \in Nat : Len(q[e]) = n + 1
      <4>1. \A x \in Nat : x # 0 => x - 1 \in Nat /\ x = x - 1 + 1
        OBVIOUS
      <4> QED
        BY <1>0, <3>1, <4>1
    <3>3. Len(q[e]) - 1 = n
      BY <3>2
    <3>4. Carries(o, e, n) /\ q[e][n + 1] = CtEnd
      BY <2>2, <3>2, <3>3 DEF Followed
    <3>5. \A i \in 1 .. n : q[e][i] # CtEnd
      BY <1>0, <3>4, CarriesData
    <3>6. BeforeEnd(q[e], n) /\ n \in 0 .. Len(q[e])
      BY <3>2, <3>4, <3>5 DEF BeforeEnd
    <3> QED
      BY <3>4, <3>6
  <2> QED
    BY <1>3, <2>1, <2>2
<1>5. n \in Nat \ {0}
  <2>1. n \in Nat
    BY <1>0
  <2>2. n # 0
    <3>1. 0 < Len(q[e])
      BY <1>0, <1>1, EmptySeq
    <3> QED
      BY <1>2, <1>4, <3>1 DEF BeforeEnd
  <2> QED
    BY <2>1, <2>2
<1>6. q[e][1] = <<Base(e) + run[e], cnt[e] + 1>>
  BY <1>0, <1>1, <1>3, <1>4, <1>5, CarriesHead
<1>7. /\ Payload(q[e]) # << >> /\ Head(Payload(q[e])) = q[e][1]
      /\ Payload(Tail(q[e])) = Tail(Payload(q[e]))
  BY <1>0, <1>1, <1>2, <1>4, PayloadTail
<1> QED
  BY <1>1, <1>6, <1>7

\* Every step of matching transactions is a step of the conversation, or leaves
\* it as it is: the control tokens are its implementation.
LEMMA ConversationStep ==
   ASSUME IInv, NEW e \in End, Step(e)
   PROVE  D!DNext \/ UNCHANGED D!dvars
<1>s. PICK o \in End : o = Other(e)
  BY EndFacts
<1>0. /\ TypeOK /\ TypeOK' /\ conv' = conv /\ LocalOK(e) /\ Kept(Other(e))
      /\ ~MeetsData(e) /\ ~MeetsEnd(e) /\ e = Other(o) /\ e # o /\ \A f \in End : f = e \/ f = o
      /\ trans[e] \in 1 .. NumTrans /\ trans[o] \in 1 .. NumTrans + 1 /\ NumTrans \in Nat
      /\ trans[e] <= NumTrans
      /\ run[e] \in Nat /\ cnt[e] \in Nat /\ Length(e) \in Nat
      /\ q \in [End -> Seq(Token)] /\ q' \in [End -> Seq(Token)]
  <2>1. ~MeetsData(e) /\ ~MeetsEnd(e)
    BY NeverTraps
  <2>2. /\ TypeOK /\ TypeOK' /\ conv' = conv /\ LocalOK(e) /\ Kept(o)
        /\ e = Other(o) /\ e # o
        /\ trans[e] \in 1 .. NumTrans /\ trans[o] \in 1 .. NumTrans + 1 /\ NumTrans \in Nat
        /\ run[e] \in Nat /\ cnt[e] \in Nat /\ Length(e) \in Nat
    BY <1>s, <2>1, Setting
  <2>3. q \in [End -> Seq(Token)] /\ q' \in [End -> Seq(Token)]
    BY <2>2 DEF TypeOK, LinkTypeOK
  <2>4. \A f \in End : f = e \/ f = o
    BY <1>s, EndFacts
  <2>5. trans[e] <= NumTrans
    BY <2>2
  <2> QED
    BY <1>s, <2>1, <2>2, <2>3, <2>4, <2>5
<1>d. /\ D!Talking(e) /\ D!Cur(e) = Cur(e) /\ D!Partner(e) = o
      /\ \A k : D!Cur(e).runs[k] = Cur(e).runs[k]
      /\ e \in D!Speaker /\ D!Speaker = End
      /\ run[e] \in 1 .. Length(e) => D!InRun(e) /\ D!CurRun(e).n = Tokens(e, run[e])
                                      /\ (D!CurRun(e).dir = "out" <=> Outputs(e, run[e]))
      /\ D!AtEnd(e) <=> run[e] = Length(e) + 1
      /\ D!Item(e, cnt[e] + 1) = <<Base(e) + run[e], cnt[e] + 1>>
  BY <1>0, <1>s DEF D!Talking, D!Cur, D!Partner, D!Speaker, D!InRun, D!CurRun, D!AtEnd, D!Item,
     Cur, End, Other, Length, Tokens, Outputs, Base
<1>1. CASE OpensAsMaster(e) \/ OpensAsSlave(e)
  <2>1. Wires' = Wires
    BY <1>1, EndsAreInvisible
  <2>2. /\ run[e] = 0 /\ trans'[e] = trans[e] /\ cnt'[e] = cnt[e]
        /\ Becomes(e, trans[e], 1, cnt[e], last_out'[e], half[e])
    BY <1>1 DEF OpensAsMaster, OpensAsSlave, Becomes
  <2>3. run' = [run EXCEPT ![e] = 1] /\ trans' = trans /\ cnt' = cnt
    BY <1>0, <2>2, Updates, Stays
  <2>4. Cur(e).role = "slave" => D!Followed(e)
    <3> SUFFICES ASSUME Cur(e).role = "slave" PROVE D!Followed(e)
      OBVIOUS
    <3>1. OpensAsSlave(e)
      BY <1>1 DEF OpensAsMaster
    <3>2. Opening(o, e)
      BY <1>s, <3>1, Situation
    <3> QED
      BY <1>d, <3>2 DEF Opening, SameTrans, D!Followed
  <2>5. D!Begin(e)
    BY <1>0, <1>d, <2>1, <2>2, <2>3, <2>4 DEF D!Begin, Wires
  <2> QED
    BY <1>d, <2>5 DEF D!DNext
<1>2. CASE TurnsToOutput(e) \/ TurnsToInput(e) \/ SendsFirst(e) \/ ChecksFirst(e)
  <2>1. Wires' = Wires
    BY <1>2, EndsAreInvisible
  <2>2. trans'[e] = trans[e] /\ run'[e] = run[e] /\ cnt'[e] = cnt[e]
    BY <1>2 DEF TurnsToOutput, TurnsToInput, SendsFirst, ChecksFirst, Becomes
  <2>3. trans' = trans /\ run' = run /\ cnt' = cnt
    BY <1>0, <2>2, Stays
  <2> QED
    BY <1>0, <2>1, <2>3 DEF D!dvars, Wires
<1>3. CASE PutsToken(e)
  <2>1. /\ Becomes(e, trans[e], run[e], cnt[e] + 1, last_out[e], half[e])
        /\ trans'[e] = trans[e] /\ run'[e] = run[e]
        /\ run[e] \in 1 .. Length(e) /\ Outputs(e, run[e]) /\ cnt[e] < Tokens(e, run[e])
    BY <1>3 DEF PutsToken, InRunOut, Becomes
  <2>2. trans' = trans /\ run' = run /\ cnt' = [cnt EXCEPT ![e] = cnt[e] + 1]
    BY <1>0, <2>1, Updates, Stays
  <2>3. /\ trans[o] = trans[e] /\ Payload(q[e]) = << >>
        /\ (cnt[e] = 0 /\ (run[e] > 1 => ~Outputs(e, run[e] - 1))) => run[o] = run[e]
        /\ Payload(q'[e]) = Payload(q[e])
        /\ Payload(q'[o]) = Append(Payload(q[o]), <<Base(e) + run[e], cnt[e] + 1>>)
    BY <1>s, <1>3, SpeaksInTurn
  <2>4. Wires' = [Wires EXCEPT ![o] = Append(Wires[o], D!Item(e, cnt[e] + 1))]
    BY <1>0, <1>d, <2>3 DEF Wires
  <2>5. D!TakesTurn(e) => run[o] = run[e]
    <3>1. D!Cur(e).runs[run[e] - 1].dir = "in" => ~Outputs(e, run[e] - 1)
      BY <1>d DEF Outputs
    <3> QED
      BY <2>3, <3>1 DEF D!TakesTurn
  <2>6. D!Speak(e)
    <3>1. Wires[e] = << >>
      BY <2>3 DEF Wires
    <3> QED
      BY <1>0, <1>d, <2>1, <2>2, <2>3, <2>4, <2>5, <3>1 DEF D!Speak, Wires
  <2> QED
    BY <1>d, <2>6 DEF D!DNext
<1>4. CASE GetsToken(e)
  <2>1. /\ Becomes(e, trans[e], run[e], cnt[e] + 1, last_out[e], half[e])
        /\ trans'[e] = trans[e] /\ run'[e] = run[e]
        /\ run[e] \in 1 .. Length(e) /\ ~Outputs(e, run[e]) /\ cnt[e] < Tokens(e, run[e])
    BY <1>4 DEF GetsToken, InRunIn, Becomes
  <2>2. trans' = trans /\ run' = run /\ cnt' = [cnt EXCEPT ![e] = cnt[e] + 1]
    BY <1>0, <2>1, Updates, Stays
  <2>3. /\ Payload(q[e]) # << >>
        /\ Head(Payload(q[e])) = <<Base(e) + run[e], cnt[e] + 1>>
        /\ Payload(q'[e]) = Tail(Payload(q[e]))
        /\ Payload(q'[o]) = Payload(q[o])
    BY <1>s, <1>4, ListensInPlace
  <2>4. Wires' = [Wires EXCEPT ![e] = Tail(Wires[e])]
    BY <1>0, <2>3 DEF Wires
  <2>5. D!CurRun(e).dir = "in"
    BY SMTT(30), <1>0, <1>d, <2>1, CurrentSide DEF D!CurRun, Outputs
  <2>6. D!Listen(e)
    <3>1. Wires[e] # << >> /\ Head(Wires[e]) = D!Item(e, cnt[e] + 1)
      BY <1>d, <2>3 DEF Wires
    <3> QED
      BY <1>0, <1>d, <2>1, <2>2, <2>4, <2>5, <3>1 DEF D!Listen, Wires
  <2> QED
    BY <1>d, <2>6 DEF D!DNext
<1>5. CASE EndsRun(e)
  <2>1. /\ Becomes(e, trans[e], run[e] + 1, 0, last_out[e], half[e])
        /\ trans'[e] = trans[e] /\ q' = q
        /\ run[e] \in 1 .. Length(e) /\ cnt[e] = Tokens(e, run[e])
    BY <1>5 DEF EndsRun, Becomes
  <2>2. trans' = trans /\ run' = [run EXCEPT ![e] = run[e] + 1] /\ cnt' = [cnt EXCEPT ![e] = 0]
    BY <1>0, <2>1, Updates, Stays
  <2>3. D!NextRun(e)
    BY <1>0, <1>d, <2>1, <2>2 DEF D!NextRun
  <2> QED
    BY <1>d, <2>3 DEF D!DNext
<1>6. CASE SendsLast(e) \/ ChecksLast(e)
  <2>1. Wires' = Wires
    BY <1>6, EndsAreInvisible
  <2>2. /\ Becomes(e, trans[e] + 1, 0, cnt[e], last_out[e], FALSE)
        /\ cnt'[e] = cnt[e] /\ run[e] = Length(e) + 1
    BY <1>6 DEF SendsLast, ChecksLast, AtCompletion, Becomes
  <2>3. trans' = [trans EXCEPT ![e] = trans[e] + 1] /\ run' = [run EXCEPT ![e] = 0] /\ cnt' = cnt
    <3>1. cnt' = cnt
      BY <1>0, <2>2, Stays
    <3>2. PICK t : t = trans[e] + 1
      OBVIOUS
    <3>3. Becomes(e, t, 0, cnt[e], last_out[e], half'[e])
      BY <2>2, <3>2 DEF Becomes
    <3>4. trans' = [trans EXCEPT ![e] = t] /\ run' = [run EXCEPT ![e] = 0]
      BY <1>0, <3>3, Updates
    <3> QED
      BY <3>1, <3>2, <3>4
  <2>4. /\ D!AtEnd(o) \/ trans[o] > trans[e]
        /\ Wires[e] = << >> /\ Wires[o] = << >>
    <3>1. CASE SendsLast(e)
      <4>1. Completing(o, e)
        BY <1>s, <3>1, Situation
      <4>2. /\ trans[o] = trans[e] /\ run[o] = Length(o) + 1 /\ q[o] = << >> /\ q[e] = << >>
        BY <3>1, <4>1 DEF Completing, Together, SameTrans, SendsLast
      <4>3. D!AtEnd(o)
        BY <1>0, <4>2 DEF D!AtEnd, D!Talking, D!Cur, Length, Cur
      <4> QED
        BY <4>2, <4>3, PayloadOfEnds DEF Wires
    <3>2. CASE ChecksLast(e)
      <4>1. Leaving(e, o)
        BY <1>s, <3>2, Situation
      <4>2. trans[o] = trans[e] + 1 /\ q[o] = << >> /\ (q[e] = One \/ q[e] = Two)
        BY <4>1 DEF Leaving
      <4>3. trans[o] > trans[e]
        BY <1>0, <4>2
      <4> QED
        BY <4>2, <4>3, PayloadOfEnds DEF Wires
    <3> QED
      BY <1>6, <3>1, <3>2
  <2>5. D!Complete(e)
    <3>1. \A f \in D!Speaker : Wires[f] = << >>
      BY <1>0, <1>d, <2>4
    <3> QED
      BY <1>0, <1>d, <2>1, <2>2, <2>3, <2>4, <3>1 DEF D!Complete, Wires
  <2> QED
    BY <1>d, <2>5 DEF D!DNext
<1> QED
  BY <1>0, <1>1, <1>2, <1>3, <1>4, <1>5, <1>6, StepCases

\* Transactions that match implement the conversation of Dialogue.tla, for all
\* numbers of transactions, runs and tokens and every capacity.
THEOREM TransactionsAreConversations == Spec => TakesTurns
<1>1. Init => D!DInit
  BY PayloadOfEnds DEF Init, Start, LinkInit, D!DInit, D!Speaker, End, Side, Run, D!Side, D!Run
<1>2. TypeOK /\ (Matched => IInv) /\ [Next]_vars => D!DNext \/ UNCHANGED D!dvars
  <2> SUFFICES ASSUME TypeOK, Matched => IInv, [Next]_vars PROVE D!DNext \/ UNCHANGED D!dvars
    OBVIOUS
  <2>1. CASE UNCHANGED vars
    BY <2>1 DEF vars, D!dvars
  <2>2. ASSUME NEW e \in End, Step(e), Matched PROVE D!DNext \/ UNCHANGED D!dvars
    BY <2>2, ConversationStep
  <2>3. ASSUME NEW e \in End, Step(e), ~Matched PROVE D!DNext
    <3>1. conv' = conv
      BY <2>3, StepCases
    <3>2. ~D!Matched
      BY <2>3 DEF Matched, D!Matched, Mirrors, D!Mirrors, Meets, D!Meets
    <3> QED
      BY <3>1, <3>2 DEF D!DNext, D!Unspecified
  <2> QED
    BY <2>1, <2>2, <2>3 DEF Next, Finished
<1> QED
  BY <1>1, <1>2, MatchingTransactionsFlow, PTL DEF Spec, TakesTurns, D!DSpec

(***************************************************************************)
(* Conversations that need not match: where a mismatch stops the ends      *)
(***************************************************************************)
\* The run of data an end has got to in its transaction: the run it is in, once
\* it has the direction of that run, and until then the run before.  The first
\* instruction of the completion counts as one run more.  0: none.
Phase(e) == IF half[e] \/ (run[e] \in 1 .. Length(e) /\ (Outputs(e, run[e]) <=> last_out[e]))
            THEN run[e] ELSE run[e] - 1

\* The tokens of run k of transaction t of end e, if it has such a run.
Data(e, t, k) == IF k \in 1 .. Len(conv[e][t].runs) THEN conv[e][t].runs[k].n ELSE 0

\* How many tokens of that run e has moved.
Gone(e) == IF run[e] = Phase(e) THEN cnt[e] ELSE Data(e, trans[e], Phase(e))

\* e has the right to output; in the completion the first END passes it on.
Right(e) == last_out[e] # half[e]

\* Both ends make the first k runs of transaction t, and they meet.
Agreed(t, k) == /\ k <= Len(conv["a"][t].runs) /\ k <= Len(conv["b"][t].runs)
                /\ \A i \in 1 .. k : Meets(conv["a"][t].runs[i], conv["b"][t].runs[i])

\* The buffer of r holds n data tokens, and then fin ENDs, 0 or 1.
Flight(r, n, fin) == /\ n >= 0 /\ Len(q[r]) = n + fin
                     /\ \A i \in 1 .. n : q[r][i] # CtEnd
                     /\ fin = 1 => q[r][n + 1] = CtEnd

\* The completion starts from the direction of the last run.
TurnOK(e) == (trans[e] <= NumTrans /\ run[e] = Length(e) + 1 /\ Length(e) >= 1)
                => (last_out[e] <=> Outputs(e, Length(e)))
TurnInv == \A e \in End : TurnOK(e)

\* s has started a transaction as master and gone no further.
Started(s) == /\ trans[s] <= NumTrans /\ run[s] = 1 /\ cnt[s] = 0
              /\ ~last_out[s] /\ ~half[s] /\ Cur(s).role = "master"
AtStart(s, r) == /\ SameTrans(s, r) /\ Started(s) /\ run[r] = 0
                 /\ q[s] = << >> /\ q[r] = One


\* s has the right to output and is in run k of transaction t.  The runs before
\* that agree, and what s has output of this one and r has not input is on its way.
Speaking(s, r, t, k) ==
   /\ Together(s, r) /\ trans[s] = t /\ Phase(s) = k
   /\ Right(s) /\ ~Right(r)
   /\ k = Phase(r) \/ (k <= 1 /\ Phase(r) <= 1 /\ ~half[s] /\ ~half[r])
   /\ Agreed(t, k - 1)
   /\ Flight(r, Gone(s) - Gone(r), 0)

\* s has output all of run k and an END after it, which r has yet to come to.
Handing(s, r, t, k) ==
   /\ Together(s, r) /\ trans[s] = t /\ Phase(s) = k + 1 /\ Gone(s) = 0
   /\ ~Right(s) /\ ~Right(r)
   /\ k = Phase(r) \/ (k <= 1 /\ Phase(r) <= 1 /\ ~half[r])
   /\ Agreed(t, k - 1)
   /\ Flight(r, Data(s, t, k) - Gone(r), 1)

\* s has left transaction t, and may have started the next as master; r has yet
\* to consume the END s left behind.
LeftFirst(s, r, t) ==
   /\ trans[r] = t /\ trans[s] = t + 1
   /\ run[r] > 0 /\ ~Right(r) /\ Gone(r) = 0
   /\ Phase(r) = Len(conv[s][t].runs) + 1 /\ Agreed(t, Len(conv[s][t].runs))
   /\ q[s] = << >>
   /\ (run[s] = 0 /\ q[r] = One) \/ (Started(s) /\ q[r] = Two)

Situated(s, r) == \/ Idle(s, r) \/ AtStart(s, r)
                  \/ \E t \in 1 .. NumTrans :
                        \/ \E k \in 0 .. MaxRuns + 1 : Speaking(s, r, t, k) \/ Handing(s, r, t, k)
                        \/ LeftFirst(s, r, t)
SituatedInv == \E s \in End : Situated(s, Other(s))

\* The transactions both ends have completed.
MetInv == \A t \in 1 .. NumTrans :
             t < trans["a"] /\ t < trans["b"] => Mirrors(conv["a"][t], conv["b"][t])

\* All of it, for conversations that are regular.
RInv == TypeOK /\ Regular /\ LocalInv /\ TurnInv /\ SituatedInv /\ MetInv

\* In regular conversations every run moves data, and the directions alternate.
LEMMA RegularRuns ==
   ASSUME TypeOK, Regular, NEW e \in End, NEW t \in 1 .. NumTrans
   PROVE  /\ Len(conv[e][t].runs) \in 0 .. MaxRuns /\ MaxRuns \in Nat
          /\ \A k \in 1 .. Len(conv[e][t].runs) :
                /\ Data(e, t, k) \in Nat \ {0} /\ Data(e, t, k) = conv[e][t].runs[k].n
                /\ conv[e][t].runs[k].dir \in {"out", "in"}
          /\ \A k \in Int : k \notin 1 .. Len(conv[e][t].runs) => Data(e, t, k) = 0
          /\ \A k \in 1 .. Len(conv[e][t].runs) - 1 :
                conv[e][t].runs[k].dir # conv[e][t].runs[k + 1].dir
          /\ conv[e][t].role # conv[Other(e)][t].role
          /\ conv[e][t].role \in {"master", "slave"}
<1>1. conv[e][t] \in Side
  BY DEF TypeOK
<1>2. PICK m \in 0 .. MaxRuns : conv[e][t].runs \in [1 .. m -> Run]
  BY <1>1 DEF Side
<1>3. m \in Nat /\ MaxRuns \in Nat /\ MaxLen \in Nat /\ Len(conv[e][t].runs) = m
  BY <1>2, SizeAssumption
<1>4. \A k \in 1 .. m : /\ conv[e][t].runs[k].n \in 0 .. MaxLen
                        /\ conv[e][t].runs[k].dir \in {"out", "in"}
  BY <1>2 DEF Run
<1>5. /\ \A k \in 1 .. m : conv[e][t].runs[k].n > 0
      /\ \A k \in 1 .. m - 1 : conv[e][t].runs[k].dir # conv[e][t].runs[k + 1].dir
  BY <1>3 DEF Regular, Alternating
<1>6. conv["a"][t].role # conv["b"][t].role
  BY DEF Regular
<1>7. conv[e][t].role # conv[Other(e)][t].role
  BY <1>6 DEF End, Other
<1>8. conv[e][t].role \in {"master", "slave"}
  BY <1>1 DEF Side
<1> QED
  BY <1>2, <1>3, <1>4, <1>5, <1>7, <1>8 DEF Data

LEMMA RegularData ==
   ASSUME TypeOK, Regular, NEW e \in End, NEW t \in 1 .. NumTrans,
          NEW n, n = Len(conv[e][t].runs)
   PROVE  /\ \A k \in 1 .. n : Data(e, t, k) \in Nat \ {0} /\ Data(e, t, k) = conv[e][t].runs[k].n
          /\ \A k \in Int : k \notin 1 .. n => Data(e, t, k) = 0
BY RegularRuns

LEMMA TurnsAlternate ==
   ASSUME TypeOK, Regular, NEW e \in End, trans[e] <= NumTrans
   PROVE  \A k \in 1 .. Length(e) - 1 : Outputs(e, k + 1) <=> ~Outputs(e, k)
<1>1. PICK t \in 1 .. NumTrans : t = trans[e]
  BY CurrentSide
<1>2. PICK n \in Nat : n = Length(e)
  BY CurrentSide, SizeAssumption
<1> TAKE k \in 1 .. Length(e) - 1
<1>3. k \in 1 .. n - 1 /\ k \in 1 .. n /\ k + 1 \in 1 .. n /\ n = Len(conv[e][t].runs)
  BY <1>1, <1>2 DEF Length, Cur
<1>4. /\ conv[e][t].runs[k].dir \in {"out", "in"} /\ conv[e][t].runs[k + 1].dir \in {"out", "in"}
      /\ conv[e][t].runs[k].dir # conv[e][t].runs[k + 1].dir
  BY <1>3, RegularRuns
<1> QED
  BY <1>1, <1>4 DEF Outputs, Cur

\* Where an end in a transaction can be: the run it has got to has the direction
\* of its right to output, and the run before the other one.
LEMMA PhaseFacts ==
   ASSUME TypeOK, Regular, LocalInv, TurnInv, NEW e \in End,
          trans[e] <= NumTrans, run[e] > 0
   PROVE  /\ Phase(e) \in 0 .. Length(e) + 1 /\ Gone(e) \in Nat
          /\ Length(e) \in 0 .. MaxRuns /\ Length(e) = Len(conv[e][trans[e]].runs)
          /\ trans[e] \in 1 .. NumTrans
          /\ half[e] <=> Phase(e) = Length(e) + 1
          /\ half[e] => Gone(e) = 0
          /\ Gone(e) <= Data(e, trans[e], Phase(e))
          /\ Phase(e) = 0 => Gone(e) = 0
          /\ Phase(e) \in 1 .. Length(e) => (Outputs(e, Phase(e)) <=> Right(e))
          /\ Phase(e) - 1 \in 1 .. Length(e) => (Outputs(e, Phase(e) - 1) <=> ~Right(e))
<1>1. trans[e] \in 1 .. NumTrans /\ LocalOK(e) /\ TurnOK(e)
  BY CurrentSide DEF LocalInv, TurnInv
<1>2. PICK t \in 1 .. NumTrans : t = trans[e]
  BY <1>1
<1>3. PICK n \in 0 .. MaxRuns : n = Len(conv[e][t].runs)
  BY RegularRuns
<1>4. PICK p \in 1 .. MaxRuns + 1 : p = run[e]
  BY SizeAssumption DEF TypeOK
<1>5. /\ n \in Nat /\ p \in 1 .. n + 1 /\ Length(e) = n
      /\ last_out[e] \in BOOLEAN /\ half[e] \in BOOLEAN /\ cnt[e] \in Nat
  BY <1>1, <1>2, <1>3, <1>4, SizeAssumption DEF LocalOK, Length, Cur, TypeOK
<1>6. \A k \in 1 .. n - 1 : Outputs(e, k) <=> ~Outputs(e, k + 1)
  BY <1>5, TurnsAlternate
<1>7. /\ \A k \in 1 .. n : Data(e, t, k) \in Nat \ {0} /\ Data(e, t, k) = Tokens(e, k)
      /\ \A k \in Int : k \notin 1 .. n => Data(e, t, k) = 0
  <2>1. \A k \in 1 .. n : Data(e, t, k) \in Nat \ {0} /\ Data(e, t, k) = conv[e][t].runs[k].n
    BY <1>3, RegularRuns
  <2>2. \A k \in 1 .. n : Tokens(e, k) = conv[e][t].runs[k].n
    BY <1>2 DEF Tokens, Cur
  <2>3. \A k \in Int : k \notin 1 .. n => Data(e, t, k) = 0
    BY <1>3, RegularRuns
  <2> QED
    BY <2>1, <2>2, <2>3
<1> SUFFICES \E k \in 0 .. n + 1 : \E g \in Nat :
                /\ Phase(e) = k /\ Gone(e) = g
                /\ half[e] <=> k = n + 1
                /\ half[e] => g = 0
                /\ g <= Data(e, t, k)
                /\ k = 0 => g = 0
                /\ k \in 1 .. n => (Outputs(e, k) <=> Right(e))
                /\ k - 1 \in 1 .. n => (Outputs(e, k - 1) <=> ~Right(e))
  BY <1>1, <1>2, <1>3, <1>5 DEF Length, Cur
<1>8. CASE half[e]
  <2>1. p = n + 1 /\ Phase(e) = p /\ cnt[e] = 0 /\ Gone(e) = 0
    BY <1>1, <1>2, <1>4, <1>5, <1>8 DEF LocalOK, Phase, Gone
  <2>2. Data(e, t, n + 1) = 0
    BY <1>5, <1>7
  <2>3. n \in 1 .. n => (Outputs(e, n) <=> ~Right(e))
    <3>1. n >= 1 => (last_out[e] <=> Outputs(e, n))
      BY <1>1, <1>2, <1>4, <1>5, <2>1 DEF TurnOK
    <3>2. Right(e) <=> ~last_out[e]
      BY <1>5, <1>8 DEF Right
    <3> QED
      BY <1>5, <3>1, <3>2
  <2> QED
    BY <1>5, <1>8, <2>1, <2>2, <2>3
<1>9. CASE ~half[e] /\ p \in 1 .. n /\ (Outputs(e, p) <=> last_out[e])
  <2>1. Phase(e) = p /\ Gone(e) = cnt[e] /\ cnt[e] <= Tokens(e, p)
    BY <1>1, <1>2, <1>4, <1>5, <1>9 DEF LocalOK, Phase, Gone
  <2>2. (Outputs(e, p) <=> Right(e)) /\ Data(e, t, p) = Tokens(e, p)
    BY <1>5, <1>7, <1>9 DEF Right
  <2>3. p - 1 \in 1 .. n => (Outputs(e, p - 1) <=> ~Right(e))
    BY <1>5, <1>6, <1>9, <2>2
  <2> QED
    BY <1>5, <1>9, <2>1, <2>2, <2>3
<1>10. CASE ~half[e] /\ ~(p \in 1 .. n /\ (Outputs(e, p) <=> last_out[e]))
  <2>1. Phase(e) = p - 1 /\ Gone(e) = Data(e, t, p - 1)
    BY <1>2, <1>4, <1>5, <1>10 DEF Phase, Gone
  <2>2. Data(e, t, p - 1) \in Nat /\ (p - 1 = 0 => Data(e, t, p - 1) = 0)
    <3>1. CASE p - 1 \in 1 .. n
      BY <1>5, <1>7, <3>1
    <3>2. CASE p - 1 = 0
      BY <1>5, <1>7, <3>2
    <3> QED
      BY <1>5, <3>1, <3>2
  <2>3. p - 1 \in 1 .. n => (Outputs(e, p - 1) <=> last_out[e])
    <3>1. p = n + 1 /\ n >= 1 => (last_out[e] <=> Outputs(e, n))
      BY <1>1, <1>2, <1>4, <1>5 DEF TurnOK
    <3>2. p \in 1 .. n /\ p - 1 \in 1 .. n - 1 => (Outputs(e, p - 1) <=> ~Outputs(e, p))
      BY <1>5, <1>6
    <3> QED
      BY <1>5, <1>10, <3>1, <3>2
  <2>4. (p - 1) - 1 \in 1 .. n => (Outputs(e, (p - 1) - 1) <=> ~last_out[e])
    <3>1. (p - 1) - 1 \in 1 .. n - 1 => (Outputs(e, (p - 1) - 1) <=> ~Outputs(e, p - 1))
      BY <1>5, <1>6
    <3> QED
      BY <1>5, <2>3, <3>1
  <2>5. (Right(e) <=> last_out[e]) /\ p - 1 \in 0 .. n
    BY <1>5, <1>10 DEF Right
  <2> QED
    BY <1>5, <1>10, <2>1, <2>2, <2>3, <2>4, <2>5
<1> QED
  BY <1>5, <1>8, <1>9, <1>10

(***************************************************************************)
(* What a step does to where its end is                                    *)
(***************************************************************************)
\* What is asked of the conversations and of each end by itself.
Regularity == TypeOK /\ Regular /\ LocalInv /\ TurnInv

\* e stays in its transaction, and is at k of it with g tokens of that run moved.
Reaches(e, k, g) == trans'[e] = trans[e] /\ run'[e] > 0 /\ Phase(e)' = k /\ Gone(e)' = g

\* The end that takes no step.
LEMMA KeptView ==
   ASSUME NEW e \in End, Kept(e), conv' = conv
   PROVE  /\ Phase(e)' = Phase(e) /\ Gone(e)' = Gone(e) /\ Right(e)' = Right(e)
          /\ Length(e)' = Length(e) /\ half'[e] = half[e]
          /\ trans'[e] = trans[e] /\ run'[e] = run[e]
          /\ Started(e)' <=> Started(e)
<1>1. /\ trans'[e] = trans[e] /\ run'[e] = run[e] /\ cnt'[e] = cnt[e]
      /\ last_out'[e] = last_out[e] /\ half'[e] = half[e]
  BY DEF Kept, Becomes
<1>2. Cur(e)' = Cur(e) /\ Length(e)' = Length(e)
  BY <1>1 DEF Cur, Length
<1>3. Phase(e)' = Phase(e)
  BY <1>1, <1>2 DEF Phase, Outputs
<1> QED
  BY <1>1, <1>2, <1>3 DEF Gone, Data, Right, Started

\* Starting a transaction, as either role.
LEMMA OpensView ==
   ASSUME Regularity, NEW e \in End, Busy(e), conv' = conv, OpensAsMaster(e) \/ OpensAsSlave(e)
   PROVE  /\ \E k \in {0, 1} : Reaches(e, k, 0)
          /\ ~half'[e] /\ cnt'[e] = 0 /\ run'[e] = 1
          /\ OpensAsMaster(e) => ~Right(e)' /\ Started(e)'
          /\ OpensAsSlave(e) => Right(e)'
<1>1. trans[e] \in 1 .. NumTrans /\ trans[e] <= NumTrans
  BY CurrentSide DEF Regularity, Busy
<1>2. /\ run[e] = 0 /\ trans'[e] = trans[e] /\ run'[e] = 1 /\ cnt'[e] = 0 /\ half'[e] = FALSE
      /\ OpensAsMaster(e) => last_out'[e] = FALSE /\ Cur(e).role = "master"
      /\ OpensAsSlave(e) => last_out'[e] = TRUE
  BY DEF OpensAsMaster, OpensAsSlave, Becomes, Regularity, LocalInv, LocalOK
<1>3. Phase(e)' \in {0, 1}
  BY <1>2 DEF Phase
<1>4. Data(e, trans[e], 0) = 0
  BY DEF Data
<1>5. Gone(e)' = 0
  BY <1>2, <1>3, <1>4 DEF Gone, Data
<1>6. \E k \in {0, 1} : Reaches(e, k, 0)
  BY <1>2, <1>3, <1>5 DEF Reaches
<1>7. OpensAsMaster(e) => ~Right(e)' /\ Started(e)'
  BY <1>1, <1>2 DEF Right, Started, Cur
<1>8. OpensAsSlave(e) => Right(e)'
  BY <1>2 DEF Right
<1> QED
  BY <1>2, <1>6, <1>7, <1>8

\* Moving a token of a run, and ending it.
LEMMA MovesView ==
   ASSUME Regularity, NEW e \in End, Busy(e), conv' = conv, PutsToken(e) \/ GetsToken(e)
   PROVE  /\ Reaches(e, Phase(e), Gone(e) + 1) /\ half'[e] = half[e]
          /\ PutsToken(e) => Right(e) /\ Right(e)'
          /\ GetsToken(e) => ~Right(e) /\ ~Right(e)'
<1>1. /\ run[e] \in 1 .. Length(e) /\ (Outputs(e, run[e]) <=> last_out[e]) /\ run[e] > 0
      /\ trans'[e] = trans[e] /\ run'[e] = run[e] /\ cnt'[e] = cnt[e] + 1
      /\ last_out'[e] = last_out[e] /\ half'[e] = half[e] /\ half[e] = FALSE
      /\ PutsToken(e) => last_out[e] = TRUE
      /\ GetsToken(e) => last_out[e] = FALSE
  <2>1. LocalOK(e) /\ trans[e] <= NumTrans /\ last_out[e] \in BOOLEAN
    BY DEF Regularity, LocalInv, Busy, TypeOK
  <2>2. run[e] \in 1 .. Length(e) /\ (Outputs(e, run[e]) <=> last_out[e])
    BY DEF PutsToken, GetsToken, InRunOut, InRunIn
  <2>3. run[e] > 0
    BY <2>1, <2>2, CurrentSide, SizeAssumption DEF Regularity
  <2> QED
    BY <2>1, <2>2, <2>3 DEF PutsToken, GetsToken, Becomes, LocalOK
<1>2. Length(e)' = Length(e) /\ (Outputs(e, run[e])' <=> Outputs(e, run[e]))
  BY <1>1, SameRuns
<1>3. Phase(e) = run[e] /\ Phase(e)' = run[e]
  BY <1>1, <1>2 DEF Phase, Outputs
<1> QED
  BY <1>1, <1>3 DEF Reaches, Gone, Right

LEMMA EndsView ==
   ASSUME Regularity, NEW e \in End, Busy(e), conv' = conv, EndsRun(e)
   PROVE  /\ Reaches(e, Phase(e), Gone(e)) /\ half'[e] = half[e] /\ Right(e)' = Right(e)
          /\ run[e] > 0 /\ cnt[e] > 0
<1>1. /\ LocalOK(e) /\ trans[e] \in 1 .. NumTrans /\ trans[e] <= NumTrans
      /\ last_out[e] \in BOOLEAN /\ Length(e) \in Nat
      /\ run[e] \in 1 .. Length(e) /\ (Outputs(e, run[e]) <=> last_out[e])
  BY CurrentSide DEF Regularity, LocalInv, Busy, TypeOK, EndsRun
<1>2. PICK t \in 1 .. NumTrans : t = trans[e]
  BY <1>1
<1>3. PICK p \in 1 .. Length(e) : p = run[e]
  BY <1>1
<1>4. /\ p > 0 /\ run'[e] = p + 1 /\ cnt'[e] = 0 /\ trans'[e] = t /\ half'[e] = FALSE
      /\ half[e] = FALSE /\ last_out'[e] = last_out[e] /\ cnt[e] = Tokens(e, p)
  BY <1>1, <1>2, <1>3 DEF EndsRun, Becomes, LocalOK
<1>5. Data(e, t, p) \in Nat \ {0} /\ Data(e, t, p) = Tokens(e, p) /\ Data(e, t, p)' = Data(e, t, p)
  BY <1>2, <1>3, RegularRuns DEF Regularity, Tokens, Length, Cur, Data
<1>6. Length(e)' = Length(e) /\ (Outputs(e, p + 1)' <=> Outputs(e, p + 1))
  BY <1>2, <1>4, SameRuns
<1>7. p + 1 \in 1 .. Length(e) => (Outputs(e, p + 1) <=> ~Outputs(e, p))
  <2>1. p + 1 \in 1 .. Length(e) => p \in 1 .. Length(e) - 1
    BY <1>1
  <2> QED
    BY <1>1, <2>1, TurnsAlternate DEF Regularity
<1>8. Phase(e) = p /\ Gone(e) = cnt[e]
  BY <1>1, <1>3 DEF Phase, Gone
<1>9. Phase(e)' = p
  <2>1. ~half'[e] /\ ~(p + 1 \in 1 .. Length(e) /\ (Outputs(e, p + 1)' <=> last_out[e]))
    BY <1>1, <1>3, <1>4, <1>6, <1>7
  <2>2. Outputs(e, run[e])' = Outputs(e, p + 1)'
    BY <1>4 DEF Outputs
  <2> QED
    BY <1>1, <1>3, <1>4, <1>6, <2>1, <2>2 DEF Phase
<1>10. Gone(e)' = Data(e, t, p)
  BY <1>3, <1>4, <1>5, <1>9 DEF Gone, Data
<1>11. Gone(e) = Data(e, t, p) /\ cnt[e] > 0 /\ p + 1 > 0
  BY <1>1, <1>4, <1>5, <1>8
<1> QED
  BY <1>2, <1>3, <1>4, <1>8, <1>9, <1>10, <1>11 DEF Reaches, Right

\* Passing the right to output, in a transaction or at its completion.
SendsEnd(e) == TurnsToInput(e) \/ SendsFirst(e)
ChecksEnd(e) == TurnsToOutput(e) \/ ChecksFirst(e)

LEMMA TurnsView ==
   ASSUME Regularity, NEW e \in End, Busy(e), conv' = conv, SendsEnd(e) \/ ChecksEnd(e)
   PROVE  /\ Reaches(e, Phase(e) + 1, 0)
          /\ Gone(e) = Data(e, trans[e], Phase(e)) /\ ~half[e] /\ run[e] > 0
          /\ SendsEnd(e) => Right(e) /\ ~Right(e)'
          /\ ChecksEnd(e) => ~Right(e) /\ Right(e)'
          /\ half'[e] => Phase(e) = Length(e)
<1>1. /\ LocalOK(e) /\ trans[e] \in 1 .. NumTrans /\ trans[e] <= NumTrans
      /\ last_out[e] \in BOOLEAN /\ half[e] \in BOOLEAN /\ Length(e) \in Nat
  BY CurrentSide, SizeAssumption DEF Regularity, LocalInv, Busy, TypeOK
<1>2. CASE TurnsToInput(e) \/ TurnsToOutput(e)
  <2>1. /\ run[e] \in 1 .. Length(e) /\ (Outputs(e, run[e]) <=> ~last_out[e])
        /\ trans'[e] = trans[e] /\ run'[e] = run[e] /\ cnt'[e] = cnt[e]
        /\ half'[e] = half[e] /\ last_out'[e] = ~last_out[e]
        /\ SendsEnd(e) => last_out[e] = TRUE
        /\ ChecksEnd(e) => last_out[e] = FALSE
    BY <1>1, <1>2 DEF TurnsToInput, TurnsToOutput, InRunIn, InRunOut, Becomes, SendsEnd, ChecksEnd,
       SendsFirst, ChecksFirst, AtCompletion
  <2>2. cnt[e] = 0 /\ half[e] = FALSE
    BY <1>1, <2>1, SizeAssumption DEF LocalOK, Regularity, TypeOK
  <2>3. Length(e)' = Length(e) /\ (Outputs(e, run[e])' <=> Outputs(e, run[e]))
    BY <2>1, SameRuns
  <2>4. PICK p \in 1 .. Length(e) : p = run[e]
    BY <2>1
  <2>5. p > 0 /\ p - 1 # p /\ (p - 1) + 1 = p
    BY <1>1
  <2>6. Outputs(e, run[e])' = Outputs(e, p)'
    BY <2>1, <2>4 DEF Outputs
  <2>7. Phase(e) = p - 1 /\ Phase(e)' = p
    BY <2>1, <2>2, <2>3, <2>4, <2>6 DEF Phase
  <2>8. Reaches(e, Phase(e) + 1, 0) /\ Gone(e) = Data(e, trans[e], Phase(e))
    BY <2>1, <2>2, <2>4, <2>5, <2>7 DEF Reaches, Gone
  <2> QED
    BY <1>1, <2>1, <2>2, <2>4, <2>5, <2>8 DEF Right
<1>3. CASE SendsFirst(e) \/ ChecksFirst(e)
  <2>1. /\ run[e] = Length(e) + 1 /\ half[e] = FALSE /\ cnt[e] = 0
        /\ trans'[e] = trans[e] /\ run'[e] = run[e] /\ cnt'[e] = cnt[e]
        /\ half'[e] = TRUE /\ last_out'[e] = last_out[e]
        /\ SendsEnd(e) => last_out[e] = TRUE
        /\ ChecksEnd(e) => last_out[e] = FALSE
    BY <1>1, <1>3 DEF TurnsToInput, TurnsToOutput, InRunIn, InRunOut, Becomes, SendsEnd, ChecksEnd,
       SendsFirst, ChecksFirst, AtCompletion, LocalOK
  <2>2. PICK n \in Nat : n = Length(e)
    BY <1>1
  <2>3. n + 1 > 0 /\ (n + 1) - 1 = n /\ n # n + 1 /\ n + 1 \notin 1 .. n
    OBVIOUS
  <2>4. Phase(e) = n /\ Phase(e)' = n + 1
    BY <2>1, <2>2, <2>3 DEF Phase
  <2>5. Reaches(e, Phase(e) + 1, 0) /\ Gone(e) = Data(e, trans[e], Phase(e))
    BY <2>1, <2>2, <2>3, <2>4 DEF Reaches, Gone
  <2> QED
    BY <2>1, <2>2, <2>3, <2>4, <2>5 DEF Right
<1> QED
  BY <1>2, <1>3 DEF SendsEnd, ChecksEnd

\* Leaving a transaction.
LEMMA LeavesView ==
   ASSUME Regularity, NEW e \in End, Busy(e), conv' = conv, SendsLast(e) \/ ChecksLast(e)
   PROVE  /\ trans'[e] = trans[e] + 1 /\ run'[e] = 0 /\ run[e] > 0
          /\ half[e] /\ Phase(e) = Length(e) + 1 /\ Gone(e) = 0
          /\ SendsLast(e) => Right(e)
          /\ ChecksLast(e) => ~Right(e)
<1>1. /\ LocalOK(e) /\ trans[e] <= NumTrans /\ Length(e) \in Nat
  BY CurrentSide, SizeAssumption DEF Regularity, LocalInv, Busy
<1>2. /\ run[e] = Length(e) + 1 /\ half[e] = TRUE /\ cnt[e] = 0
      /\ trans'[e] = trans[e] + 1 /\ run'[e] = 0
      /\ SendsLast(e) => last_out[e] = FALSE
      /\ ChecksLast(e) => last_out[e] = TRUE
  <2>1. last_out[e] \in BOOLEAN /\ half[e] \in BOOLEAN
    BY DEF Regularity, TypeOK
  <2> QED
    BY <1>1, <2>1 DEF SendsLast, ChecksLast, AtCompletion, Becomes, LocalOK
<1>3. Phase(e) = run[e] /\ Gone(e) = 0 /\ run[e] > 0
  BY <1>1, <1>2 DEF Phase, Gone
<1> QED
  BY <1>2, <1>3 DEF Right

\* A step that raises no exception keeps TurnInv.
LEMMA TurnStep ==
   ASSUME TypeOK, LocalInv, TurnInv, NEW e \in End, Moves(e)
   PROVE  TurnInv'
<1>0. /\ Busy(e) /\ conv' = conv /\ Kept(Other(e)) /\ LocalOK(e) /\ TurnOK(e) /\ trans[e] \in 1 .. NumTrans /\ trans[e] <= NumTrans
      /\ Length(e) \in Nat /\ NumTrans \in Nat
  BY CurrentSide, SizeAssumption DEF Moves, LocalInv, TurnInv, Busy
<1>1. TurnOK(Other(e))'
  <2>1. TurnOK(Other(e)) /\ Other(e) \in End
    BY EndFacts DEF TurnInv
  <2> QED
    BY <1>0, <2>1, SameRuns DEF TurnOK, Kept, Becomes, Outputs, Length, Cur
<1>2. TurnOK(e)'
  <2>1. CASE \/ OpensAsMaster(e) \/ OpensAsSlave(e) \/ TurnsToOutput(e) \/ TurnsToInput(e)
             \/ PutsToken(e) \/ GetsToken(e)
    <3>1. trans'[e] = trans[e] /\ (run'[e] = 1 \/ run'[e] \in 1 .. Length(e))
      BY <2>1 DEF OpensAsMaster, OpensAsSlave, TurnsToOutput, TurnsToInput, PutsToken, GetsToken,
         InRunOut, InRunIn, Becomes
    <3>2. ~(run'[e] = Length(e) + 1 /\ Length(e) >= 1)
      BY <1>0, <3>1
    <3> QED
      BY <1>0, <3>1, <3>2, SameRuns DEF TurnOK
  <2>2. CASE EndsRun(e)
    <3>1. /\ trans'[e] = trans[e] /\ run'[e] = run[e] + 1 /\ last_out'[e] = last_out[e]
          /\ run[e] \in 1 .. Length(e) /\ (last_out[e] <=> Outputs(e, run[e]))
      BY <2>2 DEF EndsRun, Becomes
    <3>2. run'[e] = Length(e) + 1 => run[e] = Length(e)
      BY <1>0, <3>1
    <3>3. Length(e)' = Length(e) /\ \A k : Outputs(e, k)' <=> Outputs(e, k)
      BY <1>0, <3>1, SameRuns
    <3>4. Outputs(e, Length(e))' <=> Outputs(e, Length(e))
      BY <1>0, <3>1, <3>3 DEF Outputs, Length, Cur
    <3> QED
      BY <3>1, <3>2, <3>3, <3>4 DEF TurnOK
  <2>3. CASE SendsFirst(e) \/ ChecksFirst(e)
    <3>1. trans'[e] = trans[e] /\ run'[e] = run[e] /\ last_out'[e] = last_out[e]
      BY <2>3 DEF SendsFirst, ChecksFirst, Becomes
    <3> QED
      BY <1>0, <3>1, SameRuns DEF TurnOK, Outputs, Length, Cur
  <2>4. CASE SendsLast(e) \/ ChecksLast(e)
    <3>1. run'[e] = 0 /\ trans'[e] = trans[e] + 1
      BY <2>4 DEF SendsLast, ChecksLast, Becomes
    <3>2. trans'[e] \in 1 .. NumTrans \/ ~(trans'[e] <= NumTrans)
      BY <1>0, <3>1
    <3>3. trans'[e] <= NumTrans => Length(e)' \in Nat
      BY SMTT(30), <1>0, <3>2, SideLength, SizeAssumption DEF Length, Cur
    <3> QED
      BY <3>1, <3>3 DEF TurnOK
  <2> QED
    BY <2>1, <2>2, <2>3, <2>4 DEF Moves
<1> QED
  BY <1>1, <1>2, EndFacts DEF TurnInv

(***************************************************************************)
(* The buffers                                                             *)
(***************************************************************************)
\* Data, or an END, is put behind the data on its way.
LEMMA FlightPut ==
   ASSUME LinkTypeOK, NEW e \in End, NEW x \in Token, Sends(e, x), NEW n \in Int,
          Flight(Other(e), n, 0)
   PROVE  /\ q'[e] = q[e]
          /\ x # CtEnd => Flight(Other(e), n + 1, 0)'
          /\ x = CtEnd => Flight(Other(e), n, 1)'
          /\ x = CtEnd /\ n = 0 => q'[Other(e)] = One
<1> DEFINE r == Other(e)
<1>1. r \in End /\ q[r] \in Seq(Token) /\ q'[r] = Append(q[r], x) /\ q'[e] = q[e]
  BY EndFacts DEF LinkTypeOK, Sends
<1>2. n >= 0 /\ Len(q[r]) = n /\ \A i \in 1 .. n : q[r][i] # CtEnd
  BY <1>1, LenProperties DEF Flight
<1>3. /\ Len(q'[r]) = n + 1 /\ q'[r][n + 1] = x
      /\ \A i \in 1 .. n : q'[r][i] = q[r][i]
  BY <1>1, <1>2, AppendToken
<1>4. n = 0 => q[r] = << >>
  BY <1>1, <1>2, EmptySeq
<1>5. x = CtEnd /\ n = 0 => q'[r] = One
  BY <1>1, <1>4, EndTokens
<1> HIDE DEF r
<1>6. x # CtEnd => Flight(r, n + 1, 0)'
  BY <1>2, <1>3 DEF Flight
<1>7. x = CtEnd => Flight(r, n, 1)'
  BY <1>2, <1>3 DEF Flight
<1> QED
  BY <1>1, <1>5, <1>6, <1>7 DEF r

\* The first token on its way is consumed: data, when there is some.
LEMMA FlightGet ==
   ASSUME LinkTypeOK, NEW e \in End, Gets(e), NEW n \in Int, NEW fin \in {0, 1}, Flight(e, n, fin)
   PROVE  /\ q'[Other(e)] = q[Other(e)]
          /\ Head(q[e]) # CtEnd => n > 0 /\ Flight(e, n - 1, fin)'
          /\ Head(q[e]) = CtEnd => n = 0 /\ fin = 1 /\ q'[e] = << >>
<1>1. /\ q[e] \in Seq(Token) /\ q[e] # << >> /\ q'[e] = Tail(q[e]) /\ q'[Other(e)] = q[Other(e)]
  BY DEF LinkTypeOK, Gets
<1>2. /\ Head(q[e]) = q[e][1] /\ Len(q[e]) \in Nat \ {0} /\ Len(q'[e]) = Len(q[e]) - 1
      /\ \A i \in 1 .. Len(q[e]) - 1 : q'[e][i] = q[e][i + 1]
      /\ Len(q[e]) = 1 => q'[e] = << >>
  BY <1>1, ConsumeToken
<1>3. /\ n >= 0 /\ Len(q[e]) = n + fin /\ \A i \in 1 .. n : q[e][i] # CtEnd
      /\ fin = 1 => q[e][n + 1] = CtEnd
  BY DEF Flight
<1>4. n > 0 => Head(q[e]) # CtEnd /\ Flight(e, n - 1, fin)'
  <2> SUFFICES ASSUME n > 0 PROVE Head(q[e]) # CtEnd /\ Flight(e, n - 1, fin)'
    OBVIOUS
  <2>1. Head(q[e]) # CtEnd /\ n - 1 >= 0 /\ Len(q'[e]) = (n - 1) + fin
    BY <1>2, <1>3
  <2>2. \A i \in 1 .. n - 1 : q'[e][i] # CtEnd
    BY <1>2, <1>3
  <2>3. fin = 1 => q'[e][(n - 1) + 1] = CtEnd
    BY <1>2, <1>3
  <2> QED
    BY <2>1, <2>2, <2>3 DEF Flight
<1>5. n = 0 => Head(q[e]) = CtEnd /\ fin = 1 /\ q'[e] = << >>
  BY <1>2, <1>3
<1> QED
  BY <1>1, <1>3, <1>4, <1>5

(***************************************************************************)
(* What each situation becomes                                             *)
(***************************************************************************)
\* The transactions that have now been completed by both ends mirror each other.
NewlyMet == \A u \in 1 .. NumTrans :
               u < trans'["a"] /\ u < trans'["b"] =>
                  (u < trans["a"] /\ u < trans["b"]) \/ Mirrors(conv["a"][u], conv["b"][u])

\* What the end with the right to output, or without it, can do inside a transaction.
LEMMA Kinds ==
   ASSUME Regularity, NEW e \in End, Moves(e), run[e] > 0
   PROVE  /\ Right(e) => PutsToken(e) \/ EndsRun(e) \/ SendsEnd(e) \/ SendsLast(e)
          /\ ~Right(e) => GetsToken(e) \/ EndsRun(e) \/ ChecksEnd(e) \/ ChecksLast(e)
          /\ PutsToken(e) => \E x \in Token : x # CtEnd /\ Sends(e, x)
          /\ GetsToken(e) => Gets(e) /\ Head(q[e]) # CtEnd
          /\ SendsEnd(e) \/ SendsLast(e) => Sends(e, CtEnd)
          /\ ChecksEnd(e) \/ ChecksLast(e) => Gets(e) /\ Head(q[e]) = CtEnd
          /\ EndsRun(e) => q' = q
<1>1. Busy(e) /\ conv' = conv
  BY DEF Moves
<1>2. ~OpensAsMaster(e) /\ ~OpensAsSlave(e)
  <2>1. run[e] \in Nat
    BY SizeAssumption DEF Regularity, TypeOK
  <2>2. run[e] # 0
    BY <2>1
  <2> QED
    BY <2>2 DEF OpensAsMaster, OpensAsSlave
<1>3. /\ PutsToken(e) \/ SendsEnd(e) \/ SendsLast(e) => Right(e)
      /\ GetsToken(e) \/ ChecksEnd(e) \/ ChecksLast(e) => ~Right(e)
  BY <1>1, MovesView, TurnsView, LeavesView
<1>4. PutsToken(e) => \E x \in Token : x # CtEnd /\ Sends(e, x)
  <2> DEFINE x == <<Base(e) + run[e], cnt[e] + 1>>
  <2>1. cnt[e] \in Nat /\ x \in Token
    <3>1. TypeOK /\ cnt[e] \in Nat
      BY SizeAssumption DEF Regularity, TypeOK
    <3> QED
      BY <1>1, <3>1, ItemFacts
  <2>2. x # CtEnd
    BY <2>1 DEF CtEnd
  <2> QED
    BY <2>1, <2>2 DEF PutsToken
<1> QED
  BY <1>2, <1>3, <1>4 DEF Moves, SendsEnd, ChecksEnd, GetsToken, TurnsToInput, TurnsToOutput, EndsRun,
     SendsFirst, ChecksFirst, SendsLast, ChecksLast, GetsEnd

\* The ends of a channel, and nobody newly met while one of them stays.
LEMMA StaysUnmet ==
   ASSUME TypeOK, NEW s \in End, NEW r \in End, r = Other(s), trans'[r] = trans[r],
          trans[s] >= trans[r]
   PROVE  NewlyMet
<1>1. trans[s] \in Nat /\ trans[r] \in Nat
  BY SizeAssumption DEF TypeOK
<1>2. \A u \in 1 .. NumTrans : u < trans[r] => u < trans[s]
  BY <1>1, SizeAssumption
<1> QED
  BY <1>2 DEF NewlyMet, End, Other

\* The same runs agree, and of the same data, for conv never changes.
LEMMA SameConv ==
   ASSUME conv' = conv
   PROVE  /\ \A t, k : Agreed(t, k)' <=> Agreed(t, k)
          /\ \A e, t, k : Data(e, t, k)' = Data(e, t, k)
BY DEF Agreed, Data

\* s goes on speaking, passes the right to output on, or leaves the transaction.
LEMMA SpeakerSteps ==
   ASSUME Regularity, NEW s \in End, NEW r \in End, r = Other(s), NEW t \in 1 .. NumTrans,
          NEW k \in 0 .. MaxRuns + 1, Speaking(s, r, t, k), Moves(s)
   PROVE  Situated(s, r)' /\ NewlyMet
<1>0. /\ Together(s, r) /\ trans[s] = t /\ trans[r] = t /\ run[s] > 0 /\ run[r] > 0
      /\ q[s] = << >> /\ Phase(s) = k /\ Right(s) /\ ~Right(r) /\ Agreed(t, k - 1)
      /\ k = Phase(r) \/ (k <= 1 /\ Phase(r) <= 1 /\ ~half[s] /\ ~half[r])
      /\ Flight(r, Gone(s) - Gone(r), 0)
  BY DEF Speaking, Together, SameTrans
<1>1. /\ TypeOK /\ LinkTypeOK /\ Busy(s) /\ conv' = conv /\ Kept(r)
  BY DEF Regularity, TypeOK, Moves
<1>2. /\ trans'[r] = t /\ run'[r] > 0 /\ ~Right(r)' /\ Phase(r)' = Phase(r) /\ Gone(r)' = Gone(r)
      /\ half'[r] = half[r]
  BY <1>0, <1>1, KeptView
<1>3. /\ t <= NumTrans /\ Gone(s) \in Nat /\ Gone(r) \in Nat /\ Phase(r) \in Nat /\ k \in Nat
      /\ half[s] <=> k = Length(s) + 1
      /\ Length(s) = Len(conv[s][t].runs)
      /\ Length(s) \in 0 .. MaxRuns /\ MaxRuns \in Nat
  BY <1>0, PhaseFacts, SizeAssumption DEF Regularity
<1>4. /\ \A i : Agreed(t, i)' <=> Agreed(t, i)
      /\ \A i : Data(s, t, i)' = Data(s, t, i)
  BY <1>1, SameConv
<1>5. CASE PutsToken(s)
  <2>1. PICK x \in Token : x # CtEnd /\ Sends(s, x)
    BY <1>0, <1>5, Kinds
  <2>2. /\ trans'[s] = t /\ run'[s] > 0 /\ Phase(s)' = k /\ Gone(s)' = Gone(s) + 1
        /\ half'[s] = half[s] /\ Right(s)'
    BY <1>0, <1>1, <1>5, MovesView DEF Reaches
  <2>3. PICK n \in Int : n = Gone(s) - Gone(r)
    BY <1>3
  <2>4. q'[s] = << >> /\ Flight(r, n + 1, 0)'
    BY <1>0, <1>1, <2>1, <2>3, FlightPut
  <2>5. Gone(s)' - Gone(r)' = n + 1
    BY <1>2, <1>3, <2>2, <2>3
  <2>6. Flight(r, Gone(s) - Gone(r), 0)'
    BY <2>4, <2>5 DEF Flight
  <2>7. Speaking(s, r, t, k)'
    BY <1>0, <1>2, <1>3, <1>4, <2>2, <2>4, <2>6 DEF Speaking, Together, SameTrans
  <2> QED
    BY <1>0, <1>1, <1>2, <2>7, StaysUnmet DEF Situated
<1>6. CASE EndsRun(s)
  <2>1. /\ trans'[s] = t /\ run'[s] > 0 /\ Phase(s)' = k /\ Gone(s)' = Gone(s)
        /\ half'[s] = half[s] /\ Right(s)' /\ q' = q
    BY <1>0, <1>1, <1>6, EndsView, Kinds DEF Reaches
  <2>2. Flight(r, Gone(s) - Gone(r), 0)'
    BY <1>0, <1>2, <2>1 DEF Flight
  <2>3. Speaking(s, r, t, k)'
    BY <1>0, <1>2, <1>3, <1>4, <2>1, <2>2 DEF Speaking, Together, SameTrans
  <2> QED
    BY <1>0, <1>1, <1>2, <2>3, StaysUnmet DEF Situated
<1>7. CASE SendsEnd(s)
  <2>1. /\ trans'[s] = t /\ run'[s] > 0 /\ Phase(s)' = k + 1 /\ Gone(s)' = 0
        /\ Gone(s) = Data(s, t, k) /\ ~Right(s)' /\ Sends(s, CtEnd)
    BY <1>0, <1>1, <1>7, TurnsView, Kinds DEF Reaches
  <2>2. PICK n \in Int : n = Gone(s) - Gone(r)
    BY <1>3
  <2>3. q'[s] = << >> /\ Flight(r, n, 1)'
    BY <1>0, <1>1, <2>1, <2>2, FlightPut, EndTokens
  <2>4. Data(s, t, k)' - Gone(r)' = n
    BY <1>2, <1>4, <2>1, <2>2
  <2>5. Flight(r, Data(s, t, k) - Gone(r), 1)'
    BY <2>3, <2>4 DEF Flight
  <2>6. Handing(s, r, t, k)'
    BY <1>0, <1>2, <1>3, <1>4, <2>1, <2>3, <2>5 DEF Handing, Together, SameTrans
  <2> QED
    BY <1>0, <1>1, <1>2, <2>6, StaysUnmet DEF Situated
<1>8. CASE SendsLast(s)
  <2>1. /\ trans'[s] = t + 1 /\ run'[s] = 0 /\ half[s] /\ k = Length(s) + 1 /\ Gone(s) = 0
        /\ Sends(s, CtEnd)
    BY <1>0, <1>1, <1>8, LeavesView, Kinds
  <2>2. Flight(r, 0 - Gone(r), 0)
    BY <1>0, <2>1 DEF Flight
  <2>3. Gone(r) = 0
    BY <1>3, <2>2 DEF Flight
  <2>4. q'[s] = << >> /\ q'[r] = One
    BY <1>0, <1>1, <2>1, <2>2, <2>3, FlightPut, EndTokens
  <2>5. Phase(r) = Len(conv[s][t].runs) + 1 /\ Agreed(t, Len(conv[s][t].runs))
    BY <1>0, <1>3, <2>1
  <2>6. LeftFirst(s, r, t)'
    BY <1>1, <1>2, <1>4, <2>1, <2>3, <2>4, <2>5 DEF LeftFirst
  <2> QED
    BY <1>0, <1>1, <1>2, <2>6, StaysUnmet DEF Situated
<1> QED
  BY <1>0, <1>5, <1>6, <1>7, <1>8, Kinds

\* The other end inputs what s has output so far.
LEMMA ListenerSteps ==
   ASSUME Regularity, NEW s \in End, NEW r \in End, r = Other(s), NEW t \in 1 .. NumTrans,
          NEW k \in 0 .. MaxRuns + 1, Speaking(s, r, t, k), Moves(r)
   PROVE  Situated(s, r)' /\ NewlyMet
<1>0. /\ Together(s, r) /\ trans[s] = t /\ trans[r] = t /\ run[s] > 0 /\ run[r] > 0
      /\ q[s] = << >> /\ Phase(s) = k /\ Right(s) /\ ~Right(r) /\ Agreed(t, k - 1)
      /\ k = Phase(r) \/ (k <= 1 /\ Phase(r) <= 1 /\ ~half[s] /\ ~half[r])
      /\ Flight(r, Gone(s) - Gone(r), 0) /\ s = Other(r)
  BY EndFacts DEF Speaking, Together, SameTrans
<1>1. /\ TypeOK /\ LinkTypeOK /\ Busy(r) /\ conv' = conv /\ Kept(s)
  BY <1>0 DEF Regularity, TypeOK, Moves
<1>2. /\ trans'[s] = t /\ run'[s] > 0 /\ Right(s)' /\ Phase(s)' = k /\ Gone(s)' = Gone(s)
      /\ half'[s] = half[s]
  BY <1>0, <1>1, KeptView
<1>3. t <= NumTrans /\ Gone(s) \in Nat /\ Gone(r) \in Nat
  BY <1>0, PhaseFacts, SizeAssumption DEF Regularity
<1>4. PICK n \in Int : n = Gone(s) - Gone(r)
  BY <1>3
<1>5. \A i : Agreed(t, i)' <=> Agreed(t, i)
  BY <1>1, SameConv
<1>6. CASE GetsToken(r)
  <2>1. /\ trans'[r] = t /\ run'[r] > 0 /\ Phase(r)' = Phase(r) /\ Gone(r)' = Gone(r) + 1
        /\ half'[r] = half[r] /\ ~Right(r)' /\ Gets(r) /\ Head(q[r]) # CtEnd
    BY <1>0, <1>1, <1>6, MovesView, Kinds DEF Reaches
  <2>2. q'[s] = << >> /\ Flight(r, n - 1, 0)'
    BY <1>0, <1>1, <1>4, <2>1, FlightGet
  <2>3. Gone(s)' - Gone(r)' = n - 1
    BY <1>2, <1>3, <1>4, <2>1
  <2>4. Flight(r, Gone(s) - Gone(r), 0)'
    BY <2>2, <2>3 DEF Flight
  <2>5. Speaking(s, r, t, k)'
    BY <1>0, <1>2, <1>3, <1>5, <2>1, <2>2, <2>4 DEF Speaking, Together, SameTrans
  <2> QED
    BY <1>0, <1>1, <1>2, <2>1, <2>5, StaysUnmet DEF Situated
<1>7. CASE EndsRun(r)
  <2>1. /\ trans'[r] = t /\ run'[r] > 0 /\ Phase(r)' = Phase(r) /\ Gone(r)' = Gone(r)
        /\ half'[r] = half[r] /\ ~Right(r)' /\ q' = q
    BY <1>0, <1>1, <1>7, EndsView, Kinds DEF Reaches
  <2>2. Flight(r, Gone(s) - Gone(r), 0)'
    BY <1>0, <1>2, <2>1 DEF Flight
  <2>3. Speaking(s, r, t, k)'
    BY <1>0, <1>2, <1>3, <1>5, <2>1, <2>2 DEF Speaking, Together, SameTrans
  <2> QED
    BY <1>0, <1>1, <1>2, <2>1, <2>3, StaysUnmet DEF Situated
<1>8. ~ChecksEnd(r) /\ ~ChecksLast(r)
  <2> SUFFICES ASSUME Gets(r), Head(q[r]) = CtEnd PROVE FALSE
    BY <1>0, Kinds
  <2>1. Flight(r, n, 0)
    BY <1>0, <1>4
  <2>2. 0 \in {0, 1} /\ 0 # 1
    OBVIOUS
  <2> QED
    BY <1>1, <2>1, <2>2, FlightGet
<1> QED
  BY <1>0, <1>6, <1>7, <1>8, Kinds

\* s has handed the right to output on: it does nothing but end a run it is past.
LEMMA HanderSteps ==
   ASSUME Regularity, NEW s \in End, NEW r \in End, r = Other(s), NEW t \in 1 .. NumTrans,
          NEW k \in 0 .. MaxRuns + 1, Handing(s, r, t, k), Moves(s)
   PROVE  Situated(s, r)' /\ NewlyMet
<1>0. /\ Together(s, r) /\ trans[s] = t /\ trans[r] = t /\ run[s] > 0 /\ run[r] > 0
      /\ q[s] = << >> /\ Phase(s) = k + 1 /\ Gone(s) = 0 /\ ~Right(s) /\ ~Right(r)
      /\ Agreed(t, k - 1)
      /\ k = Phase(r) \/ (k <= 1 /\ Phase(r) <= 1 /\ ~half[r])
      /\ Flight(r, Data(s, t, k) - Gone(r), 1) /\ t <= NumTrans
  BY DEF Handing, Together, SameTrans
<1>1. /\ TypeOK /\ LinkTypeOK /\ Busy(s) /\ conv' = conv /\ Kept(r)
  BY DEF Regularity, TypeOK, Moves
<1>2. /\ trans'[r] = t /\ run'[r] > 0 /\ ~Right(r)' /\ Phase(r)' = Phase(r) /\ Gone(r)' = Gone(r)
      /\ half'[r] = half[r]
  BY <1>0, <1>1, KeptView
<1>3. EndsRun(s)
  <2>1. ~Gets(s)
    BY <1>0 DEF Gets
  <2> QED
    BY <1>0, <2>1, Kinds
<1>4. /\ trans'[s] = t /\ run'[s] > 0 /\ Phase(s)' = k + 1 /\ Gone(s)' = 0 /\ ~Right(s)' /\ q' = q
  BY <1>0, <1>1, <1>3, EndsView, Kinds DEF Reaches
<1>5. (\A i : Agreed(t, i)' <=> Agreed(t, i)) /\ Data(s, t, k)' = Data(s, t, k)
  BY <1>1, SameConv
<1>6. Flight(r, Data(s, t, k) - Gone(r), 1)'
  BY <1>0, <1>2, <1>4, <1>5 DEF Flight
<1>7. Handing(s, r, t, k)'
  BY <1>0, <1>2, <1>4, <1>5, <1>6 DEF Handing, Together, SameTrans
<1> QED
  BY <1>0, <1>1, <1>2, <1>7, StaysUnmet DEF Situated

\* At the END of a run of s, r has input exactly that run: the END of a longer
\* one, or of another, would have been data, or the data an END.
LEMMA RunsMeet ==
   ASSUME Regularity, NEW s \in End, NEW r \in End, r = Other(s), NEW t \in 1 .. NumTrans,
          NEW k \in 0 .. MaxRuns + 1, Handing(s, r, t, k),
          Data(s, t, k) = Gone(r), Gone(r) = Data(r, t, Phase(r))
   PROVE  k = Phase(r) /\ Agreed(t, k)
<1>0. /\ trans[s] = t /\ trans[r] = t /\ t <= NumTrans /\ run[s] > 0 /\ run[r] > 0
      /\ Phase(s) = k + 1 /\ ~Right(s) /\ ~Right(r) /\ Agreed(t, k - 1)
      /\ k = Phase(r) \/ (k <= 1 /\ Phase(r) <= 1 /\ ~half[r])
  BY DEF Handing, Together, SameTrans
<1>1. PICK n \in 0 .. MaxRuns : n = Len(conv[s][t].runs)
  BY RegularRuns DEF Regularity
<1>2. PICK m \in 0 .. MaxRuns : m = Len(conv[r][t].runs)
  BY RegularRuns DEF Regularity
<1>3. n \in Nat /\ m \in Nat /\ k \in Nat
  BY SizeAssumption
<1>4. Length(s) = n /\ Length(r) = m
  BY <1>0, <1>1, <1>2 DEF Length, Cur
<1>5. /\ k + 1 \in 0 .. n + 1
      /\ k + 1 - 1 \in 1 .. n => Outputs(s, k + 1 - 1)
  BY <1>0, <1>4, PhaseFacts DEF Regularity
<1>6. PICK p \in 0 .. m + 1 : /\ p = Phase(r) /\ (half[r] <=> p = m + 1)
                              /\ p \in 1 .. m => ~Outputs(r, p)
  BY <1>0, <1>4, PhaseFacts DEF Regularity
<1>7. /\ \A i \in 1 .. n : Data(s, t, i) \in Nat \ {0} /\ Data(s, t, i) = conv[s][t].runs[i].n
      /\ \A i \in Int : i \notin 1 .. n => Data(s, t, i) = 0
  BY <1>1, RegularRuns DEF Regularity
<1>8. /\ \A i \in 1 .. m : Data(r, t, i) \in Nat \ {0} /\ Data(r, t, i) = conv[r][t].runs[i].n
      /\ \A i \in Int : i \notin 1 .. m => Data(r, t, i) = 0
  <2>1. TypeOK /\ Regular
    BY DEF Regularity
  <2> QED
    BY SMTT(30), <1>2, <2>1, RegularData
<1>9. Data(s, t, k) = Data(r, t, p)
  BY <1>6
<1>10. k \in 1 .. n <=> p \in 1 .. m
  BY <1>3, <1>6, <1>7, <1>8, <1>9
<1>11. k \in 0 .. n
  BY <1>3, <1>5
<1>12. k = p
  <2>1. CASE k = 0 /\ p <= 1 /\ p # m + 1
    BY <1>3, <1>10, <2>1
  <2>2. CASE k = 1 /\ p <= 1
    BY <1>3, <1>10, <1>11, <2>2
  <2> QED
    BY <1>0, <1>3, <1>6, <2>1, <2>2
<1>13. CASE k = 0
  <2>1. (1 .. k) = {} /\ k <= n /\ k <= m
    BY <1>3, <1>13
  <2> QED
    BY <1>1, <1>2, <1>6, <1>12, <2>1 DEF Agreed, End, Other
<1>14. CASE k > 0
  <2>1. k \in 1 .. n /\ k \in 1 .. m /\ k + 1 - 1 = k
    BY <1>3, <1>10, <1>11, <1>12, <1>14
  <2>2. Outputs(s, k) /\ ~Outputs(r, k)
    BY <1>5, <1>6, <1>12, <2>1
  <2>3. conv[s][t].runs[k].dir # conv[r][t].runs[k].dir
    BY <1>0, <2>2 DEF Outputs, Cur
  <2>4. conv[s][t].runs[k].n = conv[r][t].runs[k].n
    BY <1>7, <1>8, <1>9, <1>12, <2>1
  <2>5. Meets(conv["a"][t].runs[k], conv["b"][t].runs[k])
    BY <2>3, <2>4 DEF Meets, End, Other
  <2>6. \A i \in 1 .. k : i \in 1 .. k - 1 \/ i = k
    BY <1>3, <1>14
  <2>7. k <= n /\ k <= m
    BY <2>1, <1>3
  <2> QED
    BY <1>0, <1>1, <1>2, <1>6, <1>12, <2>5, <2>6, <2>7 DEF Agreed, End, Other
<1> QED
  BY <1>3, <1>13, <1>14

\* r inputs the rest of the run s handed on, and then has the right to output.
LEMMA TakerSteps ==
   ASSUME Regularity, NEW s \in End, NEW r \in End, r = Other(s), NEW t \in 1 .. NumTrans,
          NEW k \in 0 .. MaxRuns + 1, Handing(s, r, t, k), Moves(r)
   PROVE  (Situated(s, r)' \/ Situated(r, s)') /\ NewlyMet
<1>0. /\ Together(s, r) /\ trans[s] = t /\ trans[r] = t /\ run[s] > 0 /\ run[r] > 0
      /\ q[s] = << >> /\ Phase(s) = k + 1 /\ Gone(s) = 0 /\ ~Right(s) /\ ~Right(r)
      /\ Agreed(t, k - 1)
      /\ k = Phase(r) \/ (k <= 1 /\ Phase(r) <= 1 /\ ~half[r])
      /\ Flight(r, Data(s, t, k) - Gone(r), 1) /\ t <= NumTrans /\ s = Other(r)
  BY EndFacts DEF Handing, Together, SameTrans
<1>1. /\ TypeOK /\ LinkTypeOK /\ Busy(r) /\ conv' = conv /\ Kept(s)
  BY <1>0 DEF Regularity, TypeOK, Moves
<1>2. /\ trans'[s] = t /\ run'[s] > 0 /\ ~Right(s)' /\ Phase(s)' = k + 1 /\ Gone(s)' = 0
      /\ half'[s] = half[s]
  BY <1>0, <1>1, KeptView
<1>3. /\ Gone(r) \in Nat /\ k \in Nat
      /\ k + 1 \in 0 .. Length(s) + 1 /\ Length(s) = Len(conv[s][t].runs)
      /\ Length(r) = Len(conv[r][t].runs)
      /\ Length(s) \in Nat /\ Length(r) \in Nat
      /\ Phase(r) \in 0 .. Length(r) + 1
      /\ half[r] <=> Phase(r) = Length(r) + 1
  <2>1. /\ k + 1 \in 0 .. Length(s) + 1 /\ Length(s) = Len(conv[s][t].runs)
        /\ Length(s) \in 0 .. MaxRuns
    BY <1>0, PhaseFacts DEF Regularity
  <2>2. /\ Gone(r) \in Nat /\ Length(r) = Len(conv[r][t].runs)
        /\ Length(r) \in 0 .. MaxRuns
        /\ Phase(r) \in 0 .. Length(r) + 1
        /\ half[r] <=> Phase(r) = Length(r) + 1
    BY <1>0, PhaseFacts DEF Regularity
  <2> QED
    BY <2>1, <2>2, SizeAssumption
<1>4. Data(s, t, k) \in Nat
  <2>1. TypeOK /\ Regular
    BY DEF Regularity
  <2> QED
    BY SMTT(30), <1>3, <2>1, RegularData
<1>5. PICK n \in Int : n = Data(s, t, k) - Gone(r)
  BY <1>3, <1>4
<1>6. (\A i : Agreed(t, i)' <=> Agreed(t, i)) /\ Data(s, t, k)' = Data(s, t, k)
  BY <1>1, SameConv
<1>7. Flight(r, n, 1) /\ 1 \in {0, 1}
  BY <1>0, <1>5
<1>8. CASE GetsToken(r)
  <2>1. /\ trans'[r] = t /\ run'[r] > 0 /\ Phase(r)' = Phase(r) /\ Gone(r)' = Gone(r) + 1
        /\ half'[r] = half[r] /\ ~Right(r)' /\ Gets(r) /\ Head(q[r]) # CtEnd
    BY <1>0, <1>1, <1>8, MovesView, Kinds DEF Reaches
  <2>2. q'[s] = << >> /\ Flight(r, n - 1, 1)'
    BY <1>0, <1>1, <1>7, <2>1, FlightGet
  <2>3. Data(s, t, k)' - Gone(r)' = n - 1
    BY <1>3, <1>4, <1>5, <1>6, <2>1
  <2>4. Flight(r, Data(s, t, k) - Gone(r), 1)'
    BY <2>2, <2>3 DEF Flight
  <2>5. Handing(s, r, t, k)'
    BY <1>0, <1>2, <1>6, <2>1, <2>2, <2>4 DEF Handing, Together, SameTrans
  <2> QED
    BY <1>0, <1>1, <1>2, <2>1, <2>5, StaysUnmet DEF Situated
<1>9. CASE EndsRun(r)
  <2>1. /\ trans'[r] = t /\ run'[r] > 0 /\ Phase(r)' = Phase(r) /\ Gone(r)' = Gone(r)
        /\ half'[r] = half[r] /\ ~Right(r)' /\ q' = q
    BY <1>0, <1>1, <1>9, EndsView, Kinds DEF Reaches
  <2>2. Flight(r, Data(s, t, k) - Gone(r), 1)'
    BY <1>0, <1>6, <2>1 DEF Flight
  <2>3. Handing(s, r, t, k)'
    BY <1>0, <1>2, <1>6, <2>1, <2>2 DEF Handing, Together, SameTrans
  <2> QED
    BY <1>0, <1>1, <1>2, <2>1, <2>3, StaysUnmet DEF Situated
<1>10. CASE ChecksEnd(r)
  <2>1. /\ trans'[r] = t /\ run'[r] > 0 /\ Phase(r)' = Phase(r) + 1 /\ Gone(r)' = 0
        /\ Gone(r) = Data(r, t, Phase(r)) /\ Right(r)' /\ Gets(r) /\ Head(q[r]) = CtEnd
    BY <1>0, <1>1, <1>10, TurnsView, Kinds DEF Reaches
  <2>2. n = 0 /\ q'[s] = << >> /\ q'[r] = << >>
    BY <1>0, <1>1, <1>7, <2>1, FlightGet
  <2>3. k = Phase(r) /\ Agreed(t, k)
    BY <1>3, <1>4, <1>5, <2>1, <2>2, RunsMeet
  <2>4. Flight(s, Gone(r) - Gone(s), 0)'
    BY <1>2, <2>1, <2>2 DEF Flight
  <2>5. k + 1 \in 0 .. MaxRuns + 1 /\ (k + 1) - 1 = k
    BY <1>0, <1>3, CurrentSide, SizeAssumption DEF Regularity
  <2>6. Speaking(r, s, t, k + 1)'
    BY <1>0, <1>2, <1>6, <2>1, <2>2, <2>3, <2>4, <2>5 DEF Speaking, Together, SameTrans
  <2> QED
    BY <1>0, <1>1, <1>2, <2>1, <2>5, <2>6, StaysUnmet DEF Situated
<1>11. ~ChecksLast(r)
  <2> SUFFICES ASSUME ChecksLast(r) PROVE FALSE
    OBVIOUS
  <2>1. /\ half[r] /\ Phase(r) = Length(r) + 1 /\ Gone(r) = 0
        /\ Gets(r) /\ Head(q[r]) = CtEnd
    BY <1>0, <1>1, Kinds, LeavesView
  <2>2. n = 0 /\ k = Length(r) + 1
    BY <1>0, <1>1, <1>7, <2>1, FlightGet
  <2>3. Data(s, t, k) = 0
    BY <1>4, <1>5, <2>1, <2>2
  <2>4. k \in 1 .. Length(s)
    <3>1. PICK a \in Nat : a = Length(s)
      BY <1>3
    <3>2. PICK b \in Nat : b = Length(r)
      BY <1>3
    <3>3. k = b + 1 /\ k + 1 \in 0 .. a + 1
      BY <1>3, <2>2, <3>1, <3>2
    <3> QED
      BY <3>1, <3>3
  <2>5. Data(s, t, k) \in Nat \ {0}
    BY SMTT(30), <1>3, <2>4, RegularData DEF Regularity
  <2> QED
    BY <2>3, <2>5
<1> QED
  BY <1>0, <1>8, <1>9, <1>10, <1>11, Kinds

\* An end that has started a transaction as master can only wait.
LEMMA StartedWaits ==
   ASSUME Regularity, NEW s \in End, Started(s), q[s] = << >>
   PROVE  ~Moves(s)
<1> SUFFICES ASSUME Moves(s) PROVE FALSE
  OBVIOUS
<1>1. run[s] > 0 /\ ~Right(s) /\ Busy(s) /\ conv' = conv /\ cnt[s] = 0
  <2>1. run[s] = 1 /\ cnt[s] = 0 /\ last_out[s] = FALSE /\ half[s] = FALSE
    BY DEF Started, Regularity, TypeOK
  <2>2. run[s] > 0
    BY <2>1
  <2>3. ~Right(s)
    BY <2>1 DEF Right
  <2> QED
    BY <2>1, <2>2, <2>3 DEF Moves
<1>2. ~Gets(s)
  BY DEF Gets
<1>3. EndsRun(s)
  BY <1>1, <1>2, Kinds
<1> QED
  BY <1>1, <1>3, EndsView

\* It has got to no run, or to the first, and moved nothing.
LEMMA StartedView ==
   ASSUME Regularity, NEW s \in End, Started(s)
   PROVE  /\ run[s] > 0 /\ Phase(s) \in {0, 1} /\ Gone(s) = 0 /\ ~Right(s) /\ ~half[s]
<1>1. run[s] = 1 /\ cnt[s] = 0 /\ half[s] = FALSE /\ last_out[s] = FALSE
  BY DEF Started, Regularity, TypeOK
<1>2. Phase(s) \in {0, 1}
  BY <1>1 DEF Phase
<1>3. Gone(s) = 0
  BY <1>1, <1>2 DEF Gone, Data
<1>4. run[s] > 0
  BY <1>1
<1>5. ~Right(s)
  BY <1>1 DEF Right
<1> QED
  BY <1>1, <1>2, <1>3, <1>4, <1>5

\* Between transactions only a master can start.
LEMMA IdleSteps ==
   ASSUME Regularity, NEW s \in End, NEW r \in End, r = Other(s), Idle(s, r), Moves(s)
   PROVE  Situated(s, r)' /\ NewlyMet
<1>1. /\ trans[s] = trans[r] /\ run[s] = 0 /\ run[r] = 0 /\ q[s] = << >> /\ q[r] = << >>
      /\ Busy(s) /\ conv' = conv /\ Kept(r) /\ TypeOK /\ trans[s] <= NumTrans
  BY DEF Idle, Moves, Regularity, Busy
<1>2. Length(s) \in Nat
  BY <1>1, CurrentSide
<1>3. OpensAsMaster(s)
  <2>1. 0 \notin 1 .. Length(s) /\ 0 # Length(s) + 1
    BY <1>2
  <2>2. ~GetsEnd(s)
    BY <1>1 DEF GetsEnd, Gets
  <2> QED
    BY <1>1, <2>1, <2>2 DEF Moves, OpensAsSlave, TurnsToOutput, TurnsToInput, PutsToken, GetsToken, EndsRun,
       SendsFirst, ChecksFirst, SendsLast, ChecksLast, InRunOut, InRunIn, AtCompletion
<1>4. Started(s)' /\ trans'[s] = trans[s]
  BY <1>1, <1>3, OpensView DEF Reaches
<1>5. q'[s] = << >> /\ q'[r] = One
  BY <1>1, <1>3, EndTokens DEF OpensAsMaster, Sends
<1>6. trans'[r] = trans[r] /\ run'[r] = 0
  BY <1>1, KeptView
<1>7. AtStart(s, r)'
  BY <1>1, <1>4, <1>5, <1>6 DEF AtStart, SameTrans
<1>8. trans[r] \in Nat
  BY <1>1, SizeAssumption DEF TypeOK
<1> QED
  BY <1>1, <1>4, <1>6, <1>7, <1>8, StaysUnmet DEF Situated

\* The slave consumes the END of the master and has the right to output.
LEMMA AtStartSteps ==
   ASSUME Regularity, NEW s \in End, NEW r \in End, r = Other(s), AtStart(s, r), Moves(r)
   PROVE  Situated(r, s)' /\ NewlyMet
<1>0. /\ trans[s] = trans[r] /\ trans[s] <= NumTrans /\ Started(s) /\ run[r] = 0
      /\ q[s] = << >> /\ q[r] = One /\ s = Other(r)
  BY EndFacts DEF AtStart, SameTrans
<1>1. /\ Busy(r) /\ conv' = conv /\ Kept(s) /\ TypeOK
  BY <1>0 DEF Moves, Regularity
<1>2. PICK t \in 1 .. NumTrans : t = trans[s]
  BY <1>0, <1>1, CurrentSide
<1>3. trans[r] = t /\ Length(r) \in Nat /\ t <= NumTrans
  BY <1>0, <1>1, <1>2, CurrentSide
<1>4. Cur(r).role # "master"
  <2>1. conv[s][t].role # conv[r][t].role
    BY RegularRuns DEF Regularity
  <2> QED
    BY <1>0, <1>2, <1>3, <2>1 DEF Started, Cur
<1>5. OpensAsSlave(r)
  <2>1. 0 \notin 1 .. Length(r) /\ 0 # Length(r) + 1
    BY <1>3
  <2> QED
    BY <1>0, <1>4, <2>1 DEF Moves, OpensAsMaster, TurnsToOutput, TurnsToInput, PutsToken, GetsToken,
       EndsRun, SendsFirst, ChecksFirst, SendsLast, ChecksLast, InRunOut, InRunIn, AtCompletion
<1>6. PICK k \in {0, 1} : Reaches(r, k, 0)
  BY <1>1, <1>5, OpensView
<1>7. trans'[r] = t /\ run'[r] > 0 /\ Phase(r)' = k /\ Gone(r)' = 0 /\ ~half'[r] /\ Right(r)'
  BY <1>1, <1>3, <1>5, <1>6, OpensView DEF Reaches
<1>8. /\ trans'[s] = t /\ run'[s] > 0 /\ Phase(s)' \in {0, 1} /\ Gone(s)' = 0
      /\ ~Right(s)' /\ ~half'[s]
  BY <1>0, <1>1, <1>2, KeptView, StartedView
<1>9. q'[r] = << >> /\ q'[s] = << >>
  BY <1>0, <1>5, EndTokens DEF OpensAsSlave, GetsEnd, Gets
<1>10. Agreed(t, k - 1)'
  <2>1. Len(conv["a"][t].runs) \in Nat /\ Len(conv["b"][t].runs) \in Nat
    BY <1>1, SideLength DEF End
  <2>2. /\ k - 1 <= Len(conv["a"][t].runs) /\ k - 1 <= Len(conv["b"][t].runs)
        /\ 1 .. k - 1 = {}
    BY SMTT(30), <2>1
  <2> QED
    BY <1>1, <2>2 DEF Agreed
<1>11. Flight(s, Gone(r) - Gone(s), 0)'
  BY <1>7, <1>8, <1>9 DEF Flight
<1>12. k <= 1 /\ Phase(s)' <= 1
  BY <1>8
<1>13. Speaking(r, s, t, k)'
  BY <1>3, <1>7, <1>8, <1>9, <1>10, <1>11, <1>12 DEF Speaking, Together, SameTrans
<1>14. k \in 0 .. MaxRuns + 1
  BY SizeAssumption
<1>15. trans[r] \in Nat /\ trans[s] \in Nat
  BY <1>2, <1>3
<1> QED
  BY <1>0, <1>1, <1>2, <1>3, <1>7, <1>8, <1>13, <1>14, <1>15, StaysUnmet DEF Situated

\* The end that left first may start the next transaction, as master.
LEMMA LeaverSteps ==
   ASSUME Regularity, NEW s \in End, NEW r \in End, r = Other(s), NEW t \in 1 .. NumTrans,
          LeftFirst(s, r, t), Moves(s)
   PROVE  Situated(s, r)' /\ NewlyMet
<1>0. /\ trans[r] = t /\ trans[s] = t + 1 /\ run[r] > 0 /\ ~Right(r) /\ Gone(r) = 0
      /\ Phase(r) = Len(conv[s][t].runs) + 1 /\ Agreed(t, Len(conv[s][t].runs))
      /\ q[s] = << >>
      /\ (run[s] = 0 /\ q[r] = One) \/ (Started(s) /\ q[r] = Two)
  BY DEF LeftFirst
<1>1. /\ Busy(s) /\ conv' = conv /\ Kept(r) /\ TypeOK /\ trans[s] <= NumTrans
  BY DEF Moves, Regularity, Busy
<1>2. run[s] = 0 /\ q[r] = One
  BY <1>0, StartedWaits
<1>3. OpensAsMaster(s)
  <2>1. 0 \notin 1 .. Length(s) /\ 0 # Length(s) + 1
    BY <1>1, CurrentSide
  <2>2. ~GetsEnd(s)
    BY <1>0 DEF GetsEnd, Gets
  <2> QED
    BY <1>2, <2>1, <2>2 DEF Moves, OpensAsSlave, TurnsToOutput, TurnsToInput, PutsToken, GetsToken, EndsRun,
       SendsFirst, ChecksFirst, SendsLast, ChecksLast, InRunOut, InRunIn, AtCompletion
<1>4. Started(s)' /\ trans'[s] = t + 1
  BY <1>0, <1>1, <1>3, OpensView DEF Reaches
<1>5. q'[s] = << >> /\ q'[r] = Two
  BY <1>0, <1>2, <1>3, EndTokens DEF OpensAsMaster, Sends
<1>6. trans'[r] = t /\ run'[r] > 0 /\ ~Right(r)' /\ Phase(r)' = Phase(r) /\ Gone(r)' = 0
  BY <1>0, <1>1, KeptView
<1>7. Agreed(t, Len(conv[s][t].runs))'
  BY <1>0, <1>1 DEF Agreed
<1>8. LeftFirst(s, r, t)'
  BY <1>0, <1>1, <1>4, <1>5, <1>6, <1>7 DEF LeftFirst
<1> QED
  BY <1>0, <1>1, <1>6, <1>8, StaysUnmet DEF Situated

\* When the other end leaves too, the transaction is a match.
LEMMA LeftSteps ==
   ASSUME Regularity, NEW s \in End, NEW r \in End, r = Other(s), NEW t \in 1 .. NumTrans,
          LeftFirst(s, r, t), Moves(r)
   PROVE  Situated(s, r)' /\ NewlyMet
<1>0. /\ trans[r] = t /\ trans[s] = t + 1 /\ run[r] > 0 /\ ~Right(r) /\ Gone(r) = 0
      /\ Phase(r) = Len(conv[s][t].runs) + 1 /\ Agreed(t, Len(conv[s][t].runs))
      /\ q[s] = << >>
      /\ (run[s] = 0 /\ q[r] = One) \/ (Started(s) /\ q[r] = Two)
      /\ s = Other(r) /\ t <= NumTrans
  BY EndFacts DEF LeftFirst
<1>1. /\ Busy(r) /\ conv' = conv /\ Kept(s) /\ TypeOK
  BY <1>0 DEF Moves, Regularity
<1>2. /\ trans'[s] = t + 1 /\ run'[s] = run[s] /\ (Started(s)' <=> Started(s))
  BY <1>0, <1>1, KeptView
<1>3. /\ Len(conv[s][t].runs) \in Nat /\ Length(r) \in Nat /\ Length(r) = Len(conv[r][t].runs)
      /\ half[r] <=> Phase(r) = Length(r) + 1
      /\ Phase(r) \in 0 .. Length(r) + 1
  <2>1. Len(conv[s][t].runs) \in Nat
    BY <1>1, SideLength
  <2>2. /\ Length(r) = Len(conv[r][t].runs) /\ Length(r) \in 0 .. MaxRuns
        /\ half[r] <=> Phase(r) = Length(r) + 1
        /\ Phase(r) \in 0 .. Length(r) + 1
    BY <1>0, PhaseFacts DEF Regularity
  <2> QED
    BY <2>1, <2>2, SizeAssumption
<1>4. PICK n \in Nat : n = Len(conv[s][t].runs) /\ Phase(r) = n + 1
  BY <1>0, <1>3
<1>9. PICK m \in Nat : /\ m = Length(r) /\ m = Len(conv[r][t].runs)
                       /\ half[r] <=> Phase(r) = m + 1
                       /\ Phase(r) \in 0 .. m + 1
  BY <1>3
<1>10. Head(q[r]) = CtEnd
  BY <1>0, EndTokens
<1>5. ~GetsToken(r)
  BY <1>0, <1>10, Kinds
<1>6. CASE EndsRun(r)
  <2>1. /\ trans'[r] = t /\ run'[r] > 0 /\ Phase(r)' = Phase(r) /\ Gone(r)' = 0
        /\ ~Right(r)' /\ q' = q
    BY <1>0, <1>1, <1>6, EndsView, Kinds DEF Reaches
  <2>2. LeftFirst(s, r, t)'
    BY <1>0, <1>1, <1>2, <2>1, SameConv DEF LeftFirst
  <2> QED
    BY <1>0, <1>1, <2>1, <2>2, StaysUnmet DEF Situated
<1>7. ~ChecksEnd(r)
  <2> SUFFICES ASSUME ChecksEnd(r) PROVE FALSE
    OBVIOUS
  <2>1. Data(r, t, Phase(r)) = 0 /\ ~half[r]
    BY <1>0, <1>1, TurnsView
  <2>2. Phase(r) \in 1 .. Length(r)
    <3>1. PICK p \in 0 .. m + 1 : p = Phase(r) /\ p = n + 1 /\ p # m + 1
      BY <1>4, <1>9, <2>1
    <3>2. p \in 1 .. m
      BY <3>1
    <3> QED
      BY <1>9, <3>1, <3>2
  <2>3. Data(r, t, Phase(r)) \in Nat \ {0}
    BY SMTT(30), <1>3, <2>2, RegularData DEF Regularity
  <2> QED
    BY <2>1, <2>3
<1>8. CASE ChecksLast(r)
  <2>1. /\ trans'[r] = t + 1 /\ run'[r] = 0 /\ Phase(r) = Length(r) + 1 /\ Gets(r)
    BY <1>0, <1>1, <1>8, LeavesView, Kinds
  <2>2. Len(conv[r][t].runs) = Len(conv[s][t].runs)
    <3>1. n + 1 = m + 1
      BY <1>4, <1>9, <2>1
    <3>2. n = m
      BY <3>1
    <3> QED
      BY <1>4, <1>9, <3>2
  <2>3. Mirrors(conv["a"][t], conv["b"][t])
    <3>1. conv["a"][t].role # conv["b"][t].role
      BY DEF Regularity, Regular
    <3>2. Len(conv["a"][t].runs) = Len(conv["b"][t].runs)
      BY <2>2 DEF End, Other
    <3>3. Agreed(t, Len(conv["a"][t].runs))
      BY <1>0, <2>2 DEF End, Other
    <3> QED
      BY <3>1, <3>2, <3>3 DEF Mirrors, Agreed
  <2>4. q'[s] = << >> /\ (q[r] = One => q'[r] = << >>) /\ (q[r] = Two => q'[r] = One)
    BY <1>0, <2>1, EndTokens DEF Gets
  <2>5. Idle(s, r)' \/ AtStart(s, r)'
    <3>1. run[s] = 0 /\ q[r] = One => Idle(s, r)'
      BY <1>2, <2>1, <2>4 DEF Idle
    <3>2. Started(s) /\ q[r] = Two => AtStart(s, r)'
      BY <1>0, <1>2, <2>1, <2>4 DEF AtStart, SameTrans, Started
    <3> QED
      BY <1>0, <3>1, <3>2
  <2>6. NewlyMet
    <3>1. \A u \in 1 .. NumTrans : u < t + 1 => u < t \/ u = t
      BY SizeAssumption
    <3>2. \A u \in 1 .. NumTrans : u < t => u < t + 1
      BY SizeAssumption
    <3> QED
      BY <1>0, <1>2, <2>1, <2>3, <3>1, <3>2 DEF NewlyMet, End, Other
  <2> QED
    BY <2>5, <2>6 DEF Situated
<1> QED
  BY <1>0, <1>5, <1>6, <1>7, <1>8, Kinds

\* Each step of an end, from each situation.
LEMMA SituationStep ==
   ASSUME Regularity, SituatedInv, NEW e \in End, Moves(e)
   PROVE  SituatedInv' /\ NewlyMet
<1>1. PICK s \in End : Situated(s, Other(s))
  BY DEF SituatedInv
<1>2. PICK r \in End : r = Other(s) /\ s = Other(r) /\ (e = s \/ e = r)
  BY EndFacts
<1> SUFFICES (Situated(s, r)' \/ Situated(r, s)') /\ NewlyMet
  BY <1>2 DEF SituatedInv
<1>3. CASE Idle(s, r)
  <2>1. Idle(r, s)
    BY <1>3 DEF Idle
  <2> QED
    BY <1>2, <1>3, <2>1, IdleSteps
<1>4. CASE AtStart(s, r)
  <2>1. ~Moves(s)
    BY <1>4, StartedWaits DEF AtStart
  <2> QED
    BY <1>2, <1>4, <2>1, AtStartSteps
<1>5. ASSUME NEW t \in 1 .. NumTrans, NEW k \in 0 .. MaxRuns + 1, Speaking(s, r, t, k)
      PROVE  (Situated(s, r)' \/ Situated(r, s)') /\ NewlyMet
  BY <1>2, <1>5, SpeakerSteps, ListenerSteps
<1>6. ASSUME NEW t \in 1 .. NumTrans, NEW k \in 0 .. MaxRuns + 1, Handing(s, r, t, k)
      PROVE  (Situated(s, r)' \/ Situated(r, s)') /\ NewlyMet
  BY <1>2, <1>6, HanderSteps, TakerSteps
<1>7. ASSUME NEW t \in 1 .. NumTrans, LeftFirst(s, r, t)
      PROVE  (Situated(s, r)' \/ Situated(r, s)') /\ NewlyMet
  BY <1>2, <1>7, LeaverSteps, LeftSteps
<1> QED
  BY <1>1, <1>2, <1>3, <1>4, <1>5, <1>6, <1>7 DEF Situated

\* A step that changes none of it, as that of a core that traps.
LEMMA RegularSame ==
   ASSUME RInv, TypeOK', q' = q, UNCHANGED local
   PROVE  RInv'
<1>1. /\ q' = q /\ conv' = conv /\ trans' = trans /\ run' = run /\ cnt' = cnt
      /\ last_out' = last_out /\ half' = half
  BY DEF local
<1>2. Regular' /\ MetInv'
  BY <1>1 DEF RInv, Regular, MetInv
<1>3. LocalInv' /\ TurnInv'
  BY <1>1 DEF RInv, LocalInv, LocalOK, TurnInv, TurnOK, Length, Outputs, Tokens, Cur
<1>4. \A e \in End : /\ Phase(e)' = Phase(e) /\ Gone(e)' = Gone(e) /\ (Right(e)' <=> Right(e))
                     /\ (Started(e)' <=> Started(e))
  <2>1. \A e \in End : /\ Phase(e)' = Phase(e) /\ (Right(e)' <=> Right(e))
                       /\ (Started(e)' <=> Started(e))
    BY <1>1 DEF Phase, Right, Started, Length, Outputs, Cur
  <2> QED
    BY <1>1, <2>1 DEF Gone, Data
<1>5. ASSUME NEW s \in End, NEW r \in End, Situated(s, r) PROVE Situated(s, r)'
  <2>1. Idle(s, r) => Idle(s, r)'
    BY <1>1 DEF Idle
  <2>2. AtStart(s, r) => AtStart(s, r)'
    BY <1>1, <1>4 DEF AtStart, SameTrans
  <2>3. ASSUME NEW t \in 1 .. NumTrans, NEW k \in 0 .. MaxRuns + 1, Speaking(s, r, t, k)
        PROVE  Speaking(s, r, t, k)'
    BY <1>1, <1>4, <2>3 DEF Speaking, Together, SameTrans, Agreed, Flight
  <2>4. ASSUME NEW t \in 1 .. NumTrans, NEW k \in 0 .. MaxRuns + 1, Handing(s, r, t, k)
        PROVE  Handing(s, r, t, k)'
    BY <1>1, <1>4, <2>4 DEF Handing, Together, SameTrans, Agreed, Flight, Data
  <2>5. ASSUME NEW t \in 1 .. NumTrans, LeftFirst(s, r, t) PROVE LeftFirst(s, r, t)'
    BY <1>1, <1>4, <2>5 DEF LeftFirst, Agreed
  <2> QED
    BY <1>5, <2>1, <2>2, <2>3, <2>4, <2>5 DEF Situated
<1>6. SituatedInv'
  BY <1>5, EndFacts DEF RInv, SituatedInv
<1> QED
  BY <1>2, <1>3, <1>6 DEF RInv

LEMMA RegularInit == ASSUME Init, Regular PROVE RInv
<1>1. TypeOK
  BY TypeInit
<1>2. /\ q = [e \in End |-> << >>] /\ trans = [e \in End |-> 1] /\ run = [e \in End |-> 0]
      /\ cnt = [e \in End |-> 0] /\ half = [e \in End |-> FALSE]
  BY DEF Init, Start, LinkInit
<1>3. LocalInv
  <2>1. ASSUME NEW e \in End, trans[e] <= NumTrans PROVE Length(e) \in Nat
    BY <1>1, <2>1, CurrentSide, SizeAssumption
  <2> QED
    BY <1>2, <2>1 DEF LocalInv, LocalOK
<1>4. TurnInv
  <2>1. ASSUME NEW e \in End, trans[e] <= NumTrans PROVE run[e] # Length(e) + 1
    BY <1>1, <1>2, <2>1, CurrentSide, SizeAssumption
  <2> QED
    BY <2>1 DEF TurnInv, TurnOK
<1>5. Situated("a", Other("a"))
  BY <1>2, EndFacts DEF Situated, Idle, End
<1>6. SituatedInv
  BY <1>5 DEF SituatedInv, End
<1>7. MetInv
  BY <1>2 DEF MetInv, End
<1> QED
  BY <1>1, <1>3, <1>4, <1>6, <1>7 DEF RInv

LEMMA RegularNext == RInv /\ [Next]_vars => RInv'
<1> SUFFICES ASSUME RInv, [Next]_vars PROVE RInv'
  OBVIOUS
<1>1. TypeOK /\ TypeOK'
  BY TypeNext DEF RInv
<1>2. CASE UNCHANGED vars
  BY <1>1, <1>2, RegularSame DEF vars, local
<1>3. ASSUME NEW e \in End, Step(e) PROVE RInv'
  <2>1. Busy(e) /\ conv' = conv /\ ((q' = q /\ UNCHANGED local) \/ Moves(e))
    BY <1>1, <1>3, StepKinds
  <2>2. CASE Moves(e)
    <3>1. SituatedInv' /\ NewlyMet
      BY <2>2, SituationStep DEF RInv, Regularity
    <3>2. LocalInv' /\ TurnInv'
      BY <1>1, <2>2, LocalStep, TurnStep DEF RInv
    <3>3. Regular' /\ MetInv'
      BY <2>1, <3>1 DEF RInv, Regular, MetInv, NewlyMet
    <3> QED
      BY <1>1, <3>1, <3>2, <3>3 DEF RInv
  <2> QED
    BY <1>1, <2>1, <2>2, RegularSame
<1> QED
  BY <1>2, <1>3 DEF Next, Finished

\* Whatever runs of data the two ends make, in alternating directions, the
\* transactions that both of them have completed were a match: a core whose
\* calls do not meet those of the other end traps, or waits in the transaction.
THEOREM MismatchesAreNotSilent == Spec => []MismatchNeverSilent
<1>1. Init => TypeOK /\ (Regular => RInv)
  BY TypeInit, RegularInit
<1>2. TypeOK /\ (Regular => RInv) /\ [Next]_vars => (TypeOK /\ (Regular => RInv))'
  <2> SUFFICES ASSUME TypeOK, Regular => RInv, [Next]_vars, Regular'
               PROVE  RInv'
    BY TypeNext
  <2>1. conv' = conv
    BY StepKinds DEF Next, Finished, vars
  <2>2. Regular
    BY <2>1 DEF Regular
  <2> QED
    BY <2>2, RegularNext
<1>3. TypeOK /\ (Regular => RInv) => MismatchNeverSilent
  BY DEF RInv, MetInv, MismatchNeverSilent
<1> QED
  BY <1>1, <1>2, <1>3, PTL DEF Spec
=============================================================================
