-------------------------- MODULE ChanendPoolProofs --------------------------
(***************************************************************************)
(* Theorems about ChanendPool.tla, for any tasks, any number of chan-ends  *)
(* and any buffer capacity.                                                *)
(***************************************************************************)
EXTENDS ChanendPool, SequenceTheorems, FiniteSetTheorems, TLAPS

(***************************************************************************)
(* The inductive invariant                                                 *)
(***************************************************************************)
\* The allocated chan-ends are those that some field names, each one once.
Owners == /\ \A t, u \in Tasks : \A f, g \in Field :
                h[t][f] = h[u][g] /\ h[t][f] # Null => t = u /\ f = g
          /\ \A t \in Tasks : \A f \in Field : h[t][f] \notin pool
          /\ \A c \in Chanends \ pool : \E t \in Tasks : \E f \in Field : h[t][f] = c

A(t) == h[t]["end_a"]
B(t) == h[t]["end_b"]

\* A channel, the end it has when its allocation is not complete, and the end
\* it keeps when it was freed by halves.
Linked(t) == A(t) # Null /\ B(t) # Null /\ dest[A(t)] = B(t) /\ dest[B(t)] = A(t)
HalfMade(t) == A(t) # Null /\ B(t) = Null
HalfFreed(t) == A(t) = Null /\ B(t) # Null

\* What the handle of a task holds, by the instruction its call comes to next:
\* an output is only made on a channel whose two ends are both allocated.
HandleOK(t) ==
   /\ pc[t] = "idle" => \/ h[t] = NoChannel \/ Linked(t)
                        \/ HalfFreed(t) /\ res[t] = "ET_ILLEGAL_RESOURCE"
   /\ pc[t] \in {"getr b", "undo"} => HalfMade(t)
   /\ pc[t] \in {"setd a", "setd b"} => A(t) # Null /\ B(t) # Null
   /\ pc[t] = "setd b" => dest[A(t)] = B(t)
   /\ pc[t] \in {"outct a", "freer a"} => Linked(t) \/ HalfFreed(t)
   /\ pc[t] \in {"outct b", "chkct a", "chkct b"} => Linked(t)
   /\ pc[t] = "freer b" => HalfFreed(t)

Still(c) == q[c] = << >> /\ c \notin open
Ended(c) == q[c] = <<"END">> /\ c \notin open

\* When tasks complete their traffic first, the only tokens on the ends of a
\* channel that is being freed are the two ENDs of s_chan_free.
CarefulOK(t) ==
   /\ res[t] = "error_none"
   /\ pc[t] \in {"outct a", "freer a"} => Linked(t) /\ Still(A(t)) /\ Still(B(t))
   /\ pc[t] = "outct b" => Still(A(t)) /\ Ended(B(t))
   /\ pc[t] = "chkct a" => Ended(A(t)) /\ Ended(B(t))
   /\ pc[t] = "chkct b" => Still(A(t)) /\ Ended(B(t))
   /\ pc[t] = "freer b" => Still(B(t))

IInv == /\ TypeOK /\ Owners /\ RecycledClean
        /\ \A t \in Tasks : HandleOK(t)
        /\ careful => \A t \in Tasks : CarefulOK(t)

(***************************************************************************)
(* The parts of a step                                                     *)
(***************************************************************************)
\* The two fields of a handle.
LEMMA FieldFacts == /\ "end_a" \in Field /\ "end_b" \in Field /\ "end_a" # "end_b"
                    /\ \A f \in Field : f = "end_a" \/ f = "end_b"
BY DEF Field

\* A handle names chan-ends that are allocated.
LEMMA Named ==
   ASSUME IInv, NEW t \in Tasks, NEW f \in Field, h[t][f] # Null
   PROVE  h[t][f] \in Chanends /\ h[t][f] \notin pool
BY DEF IInv, TypeOK, Owners

\* What a task does to its own channel leaves those of the others alone.
LEMMA Assemble ==
   ASSUME IInv, NEW t \in Tasks, careful' = careful,
          \A u \in Tasks : u # t => h'[u] = h[u] /\ pc'[u] = pc[u] /\ res'[u] = res[u],
          \A c \in Chanends : c \notin pool /\ (\A f \in Field : h[t][f] # c) =>
             dest'[c] = dest[c] /\ q'[c] = q[c] /\ (c \in open' <=> c \in open),
          TypeOK', Owners', RecycledClean', HandleOK(t)', careful => CarefulOK(t)'
   PROVE  IInv'
<1>1. ASSUME NEW u \in Tasks, u # t
      PROVE  HandleOK(u)' /\ (careful => CarefulOK(u)')
  <2>1. HandleOK(u) /\ (careful => CarefulOK(u))
    BY DEF IInv
  <2>2. h'[u] = h[u] /\ pc'[u] = pc[u] /\ res'[u] = res[u]
    BY <1>1
  <2>3. A(u)' = A(u) /\ B(u)' = B(u)
    BY <2>2 DEF A, B
  <2>5. /\ A(u) # Null => /\ dest'[A(u)] = dest[A(u)]
                          /\ q'[A(u)] = q[A(u)] /\ (A(u) \in open' <=> A(u) \in open)
        /\ B(u) # Null => /\ dest'[B(u)] = dest[B(u)]
                          /\ q'[B(u)] = q[B(u)] /\ (B(u) \in open' <=> B(u) \in open)
    <3>1. ASSUME NEW f \in Field, h[u][f] # Null
          PROVE  /\ dest'[h[u][f]] = dest[h[u][f]] /\ q'[h[u][f]] = q[h[u][f]]
                 /\ h[u][f] \in open' <=> h[u][f] \in open
      <4>1. h[u][f] \in Chanends /\ h[u][f] \notin pool
        BY <3>1, Named
      <4>2. \A g \in Field : h[t][g] # h[u][f]
        BY <1>1, <3>1 DEF IInv, Owners
      <4> QED
        BY <4>1, <4>2
    <3> QED
      BY <3>1, FieldFacts DEF A, B
  <2>6. /\ (Linked(u)' <=> Linked(u)) /\ (HalfMade(u)' <=> HalfMade(u))
        /\ (HalfFreed(u)' <=> HalfFreed(u))
    BY <2>3, <2>5 DEF Linked, HalfMade, HalfFreed
  <2>7. HandleOK(u)'
    BY <2>1, <2>2, <2>3, <2>5, <2>6 DEF HandleOK
  <2>8. ASSUME careful PROVE CarefulOK(u)'
    <3>1. /\ pc[u] \in {"outct a", "outct b", "chkct a", "chkct b", "freer a"} /\ Linked(u) =>
               A(u) # Null /\ B(u) # Null
          /\ pc[u] = "freer b" => B(u) # Null
      BY <2>1 DEF HandleOK, Linked, HalfFreed
    <3>2. pc[u] \in {"outct b", "chkct a", "chkct b"} => Linked(u)
      BY <2>1 DEF HandleOK
    <3> QED
      BY <2>1, <2>2, <2>3, <2>5, <2>6, <2>8, <3>1, <3>2 DEF CarefulOK, Still, Ended
  <2> QED
    BY <2>7, <2>8
<1>2. (\A u \in Tasks : HandleOK(u)') /\ (careful' => \A u \in Tasks : CarefulOK(u)')
  BY <1>1
<1> QED
  BY <1>2 DEF IInv

\* The next instruction of the call a task is in, and of no other.
LEMMA GotoFacts ==
   ASSUME TypeOK, NEW t \in Tasks, NEW l \in Label, Goto(t, l)
   PROVE  /\ pc' \in [Tasks -> Label] /\ pc'[t] = l
          /\ \A u \in Tasks : u # t => pc'[u] = pc[u]
BY DEF TypeOK, Goto

\* The result of a call is its own.
LEMMA ResultFacts ==
   ASSUME TypeOK, NEW t \in Tasks, NEW r \in {"error_none", "ET_ILLEGAL_RESOURCE"}, Result(t, r)
   PROVE  /\ res' \in [Tasks -> {"error_none", "ET_ILLEGAL_RESOURCE"}] /\ res'[t] = r
          /\ \A u \in Tasks : u # t => res'[u] = res[u]
BY DEF TypeOK, Result

\* A handle is set one field at a time.
LEMMA SetFacts ==
   ASSUME TypeOK, NEW t \in Tasks, NEW f \in Field, NEW c \in Chanends \cup {Null}, Set(t, f, c)
   PROVE  /\ h' \in [Tasks -> [Field -> Chanends \cup {Null}]]
          /\ h'[t][f] = c
          /\ \A g \in Field : g # f => h'[t][g] = h[t][g]
          /\ \A u \in Tasks : u # t => h'[u] = h[u]
BY DEF TypeOK, Set

\* An allocated chan-end gets one owner.
LEMMA OwnersTake ==
   ASSUME IInv, NEW t \in Tasks, NEW f \in Field, GetR(t, f), h[t][f] = Null
   PROVE  /\ Owners' /\ \E c \in pool : pool' = pool \ {c} /\ h'[t][f] = c
          /\ pool' \subseteq Chanends
          /\ h' \in [Tasks -> [Field -> Chanends \cup {Null}]]
          /\ \A g \in Field : g # f => h'[t][g] = h[t][g]
          /\ \A u \in Tasks : u # t => h'[u] = h[u]
<1>1. PICK c \in pool : pool' = pool \ {c} /\ Set(t, f, c)
  BY DEF GetR
<1>2. TypeOK /\ Owners /\ c \in Chanends /\ c # Null /\ pool \subseteq Chanends
  BY PoolAssumption DEF IInv, TypeOK
<1>3. /\ h' \in [Tasks -> [Field -> Chanends \cup {Null}]]
      /\ h'[t][f] = c
      /\ \A g \in Field : g # f => h'[t][g] = h[t][g]
      /\ \A u \in Tasks : u # t => h'[u] = h[u]
  BY <1>1, <1>2, SetFacts
<1>4. \A u \in Tasks : \A g \in Field : h'[u][g] = IF u = t /\ g = f THEN c ELSE h[u][g]
  BY <1>3
<1>5. \A u \in Tasks : \A g \in Field : h[u][g] # c
  BY <1>2 DEF Owners
<1>6. ASSUME NEW u \in Tasks, NEW v \in Tasks, NEW g \in Field, NEW k \in Field,
             h'[u][g] = h'[v][k], h'[u][g] # Null
      PROVE  u = v /\ g = k
  BY <1>2, <1>4, <1>5, <1>6 DEF Owners
<1>7. ASSUME NEW u \in Tasks, NEW g \in Field PROVE h'[u][g] \notin pool'
  BY <1>1, <1>2, <1>4 DEF Owners
<1>8. ASSUME NEW d \in Chanends \ pool' PROVE \E u \in Tasks : \E g \in Field : h'[u][g] = d
  <2>1. CASE d = c
    BY <1>3, <2>1
  <2>2. CASE d # c
    <3>1. d \in Chanends \ pool /\ d # Null
      BY <1>1, <1>8, <2>2, PoolAssumption
    <3>2. PICK u \in Tasks, g \in Field : h[u][g] = d
      BY <1>2, <3>1 DEF Owners
    <3> QED
      BY <1>4, <3>1, <3>2
  <2> QED
    BY <2>1, <2>2
<1>9. Owners'
  BY <1>6, <1>7, <1>8 DEF Owners
<1> QED
  BY <1>1, <1>2, <1>3, <1>9

\* A freed chan-end loses its owner, and is clean.
LEMMA OwnersFree ==
   ASSUME IInv, NEW t \in Tasks, NEW f \in Field, FreeR(t, f), q' = q, open' = open
   PROVE  /\ Owners' /\ RecycledClean'
          /\ h[t][f] \in Chanends /\ h[t][f] \notin pool
          /\ pool' \subseteq Chanends
          /\ h' \in [Tasks -> [Field -> Chanends \cup {Null}]]
          /\ h'[t][f] = Null
          /\ \A g \in Field : g # f => h'[t][g] = h[t][g]
          /\ \A u \in Tasks : u # t => h'[u] = h[u]
          /\ dest' \in [Chanends -> Chanends \cup {Null}]
          /\ \A c \in Chanends : c # h[t][f] => dest'[c] = dest[c]
<1>0. TypeOK /\ Owners /\ RecycledClean
  BY DEF IInv
<1>1. /\ h[t][f] \in Chanends /\ h[t][f] \notin pool /\ Freeable(h[t][f])
      /\ pool' = pool \cup {h[t][f]} /\ Set(t, f, Null)
      /\ dest' = [dest EXCEPT ![h[t][f]] = Null]
  BY DEF FreeR, Freeable
<1>2. /\ h' \in [Tasks -> [Field -> Chanends \cup {Null}]]
      /\ h'[t][f] = Null
      /\ \A g \in Field : g # f => h'[t][g] = h[t][g]
      /\ \A u \in Tasks : u # t => h'[u] = h[u]
  BY <1>0, <1>1, SetFacts
<1>3. \A u \in Tasks : \A g \in Field : h'[u][g] = IF u = t /\ g = f THEN Null ELSE h[u][g]
  BY <1>2
<1>4. \A u \in Tasks : \A g \in Field : h[u][g] = h[t][f] => u = t /\ g = f
  BY <1>0, <1>1, PoolAssumption DEF Owners
<1>5. ASSUME NEW u \in Tasks, NEW v \in Tasks, NEW g \in Field, NEW k \in Field,
             h'[u][g] = h'[v][k], h'[u][g] # Null
      PROVE  u = v /\ g = k
  BY <1>0, <1>3, <1>5 DEF Owners
<1>6. ASSUME NEW u \in Tasks, NEW g \in Field PROVE h'[u][g] \notin pool'
  <2>1. Null \notin pool'
    BY <1>0, <1>1, PoolAssumption DEF TypeOK
  <2>2. CASE u = t /\ g = f
    BY <1>2, <2>1, <2>2
  <2>3. CASE ~(u = t /\ g = f)
    BY <1>0, <1>1, <1>3, <1>4, <2>3 DEF Owners
  <2> QED
    BY <2>2, <2>3
<1>7. ASSUME NEW d \in Chanends \ pool' PROVE \E u \in Tasks : \E g \in Field : h'[u][g] = d
  <2>1. d \in Chanends \ pool /\ d # h[t][f]
    BY <1>1, <1>7
  <2>2. PICK u \in Tasks, g \in Field : h[u][g] = d
    BY <1>0, <2>1 DEF Owners
  <2> QED
    BY <1>3, <2>1, <2>2
<1>8. Owners'
  BY <1>5, <1>6, <1>7 DEF Owners
<1>9. RecycledClean'
  BY <1>0, <1>1 DEF RecycledClean, Freeable
<1>10. /\ pool' \subseteq Chanends
       /\ dest' \in [Chanends -> Chanends \cup {Null}]
       /\ \A c \in Chanends : c # h[t][f] => dest'[c] = dest[c]
  BY <1>0, <1>1 DEF TypeOK
<1> QED
  BY <1>1, <1>2, <1>8, <1>9, <1>10

\* The owners depend on the handles and on the pool only.
LEMMA OwnersSame ==
   ASSUME Owners, h' = h, pool' = pool PROVE Owners'
BY DEF Owners

\* A step that only changes the place and the result of a call.
LEMMA MovesOn ==
   ASSUME IInv, NEW t \in Tasks, careful' = careful, UNCHANGED <<pool, q, open, dest, h>>,
          pc' \in [Tasks -> Label],
          res' \in [Tasks -> {"error_none", "ET_ILLEGAL_RESOURCE"}],
          \A u \in Tasks : u # t => pc'[u] = pc[u] /\ res'[u] = res[u],
          HandleOK(t)', careful => CarefulOK(t)'
   PROVE  IInv'
<1>1. /\ h' = h /\ pool' = pool /\ q' = q /\ open' = open /\ dest' = dest
  OBVIOUS
<1>2. TypeOK' /\ Owners' /\ RecycledClean'
  BY <1>1 DEF IInv, TypeOK, Owners, RecycledClean
<1> QED
  BY <1>1, <1>2, Assemble

\* An exception ends a call, and is never raised by a careful one.
LEMMA TrapInv ==
   ASSUME IInv, NEW t \in Tasks, careful' = careful, Trap(t), ~careful,
          Linked(t) \/ HalfFreed(t)
   PROVE  IInv'
<1>1. TypeOK
  BY DEF IInv
<1>2. /\ UNCHANGED <<pool, q, open, dest, h>>
      /\ pc' \in [Tasks -> Label] /\ pc'[t] = "idle"
      /\ res' \in [Tasks -> {"error_none", "ET_ILLEGAL_RESOURCE"}]
      /\ res'[t] = "ET_ILLEGAL_RESOURCE"
      /\ \A u \in Tasks : u # t => pc'[u] = pc[u] /\ res'[u] = res[u]
  BY <1>1, GotoFacts, ResultFacts DEF Trap, Label
<1>3. HandleOK(t)'
  <2>1. (Linked(t)' <=> Linked(t)) /\ (HalfFreed(t)' <=> HalfFreed(t))
    BY <1>2 DEF Linked, HalfFreed, A, B
  <2> QED
    BY <1>2, <2>1 DEF HandleOK
<1> QED
  BY <1>2, <1>3, MovesOn

\* The handle of a task is empty, or its fields are two different chan-ends.
LEMMA FieldsDiffer ==
   ASSUME IInv, NEW t \in Tasks
   PROVE  /\ A(t) # Null => A(t) \in Chanends /\ A(t) \notin pool
          /\ B(t) # Null => B(t) \in Chanends /\ B(t) \notin pool
          /\ A(t) # Null => A(t) # B(t)
          /\ h[t] = NoChannel <=> A(t) = Null /\ B(t) = Null
<1>1. /\ A(t) # Null => A(t) \in Chanends /\ A(t) \notin pool
      /\ B(t) # Null => B(t) \in Chanends /\ B(t) \notin pool
  BY Named, FieldFacts DEF A, B
<1>2. A(t) # Null => A(t) # B(t)
  BY FieldFacts DEF A, B, IInv, Owners
<1>3. h[t] = NoChannel <=> A(t) = Null /\ B(t) = Null
  <2>1. h[t] \in [Field -> Chanends \cup {Null}]
    BY DEF IInv, TypeOK
  <2>2. NoChannel \in [Field -> {Null}]
    BY DEF NoChannel
  <2>3. NoChannel["end_a"] = Null /\ NoChannel["end_b"] = Null
    BY FieldFacts DEF NoChannel
  <2>4. (\A f \in Field : h[t][f] = NoChannel[f]) => h[t] = NoChannel
    BY <2>1, <2>2
  <2> QED
    BY <2>3, <2>4, FieldFacts DEF A, B
<1> QED
  BY <1>1, <1>2, <1>3

(***************************************************************************)
(* Allocation                                                              *)
(***************************************************************************)
\* The first chan-end of an allocation.
LEMMA AllocFirstInv ==
   ASSUME IInv, NEW t \in Tasks, careful' = careful, AllocFirst(t) PROVE IInv'
<1>1. /\ TypeOK /\ RecycledClean /\ pc[t] = "idle" /\ h[t] = NoChannel
      /\ Result(t, "error_none") /\ q' = q /\ open' = open /\ dest' = dest
  BY DEF IInv, AllocFirst
<1>2. /\ res' \in [Tasks -> {"error_none", "ET_ILLEGAL_RESOURCE"}] /\ res'[t] = "error_none"
      /\ \A u \in Tasks : u # t => res'[u] = res[u]
  BY <1>1, ResultFacts
<1>3. CASE UNCHANGED <<pool, h, pc>>
  <2>1. /\ UNCHANGED <<pool, q, open, dest, h>> /\ pc' = pc
    BY <1>1, <1>3
  <2>2. HandleOK(t)' /\ CarefulOK(t)'
    BY <1>1, <1>2, <2>1 DEF HandleOK, CarefulOK
  <2>3. pc' \in [Tasks -> Label]
    BY <1>1, <2>1 DEF TypeOK
  <2> QED
    BY <1>2, <2>1, <2>2, <2>3, MovesOn
<1>4. CASE GetR(t, "end_a") /\ Goto(t, "getr b")
  <2>1. A(t) = Null /\ B(t) = Null /\ h[t]["end_a"] = Null
    BY <1>1, FieldsDiffer DEF A
  <2>2. /\ Owners' /\ \E c \in pool : pool' = pool \ {c} /\ h'[t]["end_a"] = c
        /\ pool' \subseteq Chanends
        /\ h' \in [Tasks -> [Field -> Chanends \cup {Null}]]
        /\ \A g \in Field : g # "end_a" => h'[t][g] = h[t][g]
        /\ \A u \in Tasks : u # t => h'[u] = h[u]
    BY <1>4, <2>1, OwnersTake, FieldFacts
  <2>3. /\ pc' \in [Tasks -> Label] /\ pc'[t] = "getr b"
        /\ \A u \in Tasks : u # t => pc'[u] = pc[u]
    BY <1>1, <1>4, GotoFacts DEF Label
  <2>4. A(t)' # Null /\ B(t)' = Null
    BY <1>1, <2>1, <2>2, FieldFacts, PoolAssumption DEF A, B, TypeOK
  <2>5. HandleOK(t)' /\ CarefulOK(t)'
    BY <1>2, <2>3, <2>4 DEF HandleOK, CarefulOK, HalfMade
  <2>6. TypeOK' /\ RecycledClean'
    BY <1>1, <1>2, <2>2, <2>3 DEF TypeOK, RecycledClean
  <2> QED
    BY <1>1, <1>2, <2>2, <2>3, <2>5, <2>6, Assemble
<1> QED
  BY <1>3, <1>4 DEF AllocFirst

\* The second, or the way back.
LEMMA AllocSecondInv ==
   ASSUME IInv, NEW t \in Tasks, careful' = careful, AllocSecond(t) PROVE IInv'
<1>1. /\ TypeOK /\ RecycledClean /\ pc[t] = "getr b" /\ HalfMade(t)
      /\ q' = q /\ open' = open /\ dest' = dest /\ res' = res
      /\ careful => res[t] = "error_none"
      /\ res' \in [Tasks -> {"error_none", "ET_ILLEGAL_RESOURCE"}]
  BY DEF IInv, AllocSecond, HandleOK, CarefulOK, TypeOK
<1>3. CASE Goto(t, "undo") /\ UNCHANGED <<pool, h>>
  <2>1. /\ UNCHANGED <<pool, q, open, dest, h>>
    BY <1>1, <1>3
  <2>2. /\ pc' \in [Tasks -> Label] /\ pc'[t] = "undo"
        /\ \A u \in Tasks : u # t => pc'[u] = pc[u] /\ res'[u] = res[u]
    BY <1>1, <1>3, GotoFacts DEF Label
  <2>3. HalfMade(t)'
    BY <1>1, <2>1 DEF HalfMade, A, B
  <2>4. HandleOK(t)' /\ (careful => CarefulOK(t)')
    BY <1>1, <2>2, <2>3 DEF HandleOK, CarefulOK
  <2> QED
    BY <1>1, <2>1, <2>2, <2>4, MovesOn
<1>4. CASE GetR(t, "end_b") /\ Goto(t, "setd a")
  <2>1. A(t) # Null /\ B(t) = Null /\ h[t]["end_b"] = Null
    BY <1>1 DEF A, B, HalfMade
  <2>2. /\ Owners' /\ \E c \in pool : pool' = pool \ {c} /\ h'[t]["end_b"] = c
        /\ pool' \subseteq Chanends
        /\ h' \in [Tasks -> [Field -> Chanends \cup {Null}]]
        /\ \A g \in Field : g # "end_b" => h'[t][g] = h[t][g]
        /\ \A u \in Tasks : u # t => h'[u] = h[u]
    BY <1>4, <2>1, OwnersTake, FieldFacts
  <2>3. /\ pc' \in [Tasks -> Label] /\ pc'[t] = "setd a"
        /\ \A u \in Tasks : u # t => pc'[u] = pc[u] /\ res'[u] = res[u]
    BY <1>1, <1>4, GotoFacts DEF Label
  <2>4. A(t)' # Null /\ B(t)' # Null
    BY <1>1, <2>1, <2>2, FieldFacts, PoolAssumption DEF A, B, TypeOK
  <2>5. HandleOK(t)' /\ (careful => CarefulOK(t)')
    BY <1>1, <2>3, <2>4 DEF HandleOK, CarefulOK
  <2>6. TypeOK' /\ RecycledClean'
    BY <1>1, <2>2, <2>3 DEF TypeOK, RecycledClean
  <2> QED
    BY <1>1, <2>2, <2>3, <2>5, <2>6, Assemble
<1> QED
  BY <1>3, <1>4 DEF AllocSecond

\* The chan-end of an allocation that fails half way goes back.
LEMMA UndoInv ==
   ASSUME IInv, NEW t \in Tasks, careful' = careful, Undo(t) PROVE IInv'
<1>1. /\ TypeOK /\ pc[t] = "undo" /\ HalfMade(t)
      /\ q' = q /\ open' = open /\ res' = res
      /\ careful => res[t] = "error_none"
      /\ res' \in [Tasks -> {"error_none", "ET_ILLEGAL_RESOURCE"}]
  BY DEF IInv, Undo, HandleOK, CarefulOK, TypeOK
<1>2. FreeR(t, "end_a") /\ Goto(t, "idle")
  BY DEF Undo
<1>3. /\ Owners' /\ RecycledClean' /\ pool' \subseteq Chanends
      /\ h' \in [Tasks -> [Field -> Chanends \cup {Null}]]
      /\ h'[t]["end_a"] = Null
      /\ \A g \in Field : g # "end_a" => h'[t][g] = h[t][g]
      /\ \A u \in Tasks : u # t => h'[u] = h[u]
      /\ dest' \in [Chanends -> Chanends \cup {Null}]
      /\ \A c \in Chanends : c # h[t]["end_a"] => dest'[c] = dest[c]
  BY <1>1, <1>2, OwnersFree, FieldFacts
<1>4. /\ pc' \in [Tasks -> Label] /\ pc'[t] = "idle"
      /\ \A u \in Tasks : u # t => pc'[u] = pc[u] /\ res'[u] = res[u]
  BY <1>1, <1>2, GotoFacts DEF Label
<1>5. h'[t] = NoChannel
  <2>1. h'[t]["end_b"] = Null
    BY <1>1, <1>3, FieldFacts DEF HalfMade, B
  <2>2. \A f \in Field : h'[t][f] = Null
    BY <1>3, <2>1, FieldFacts
  <2>3. h'[t] \in [Field -> Chanends \cup {Null}]
    BY <1>3
  <2> QED
    BY <2>2, <2>3 DEF NoChannel
<1>6. HandleOK(t)' /\ (careful => CarefulOK(t)')
  BY <1>1, <1>4, <1>5 DEF HandleOK, CarefulOK
<1>7. TypeOK'
  BY <1>1, <1>3, <1>4 DEF TypeOK
<1> QED
  BY <1>1, <1>3, <1>4, <1>6, <1>7, FieldFacts, Assemble

\* The two ends are each made the destination of the other.
LEMMA SetDestInv ==
   ASSUME IInv, NEW t \in Tasks, careful' = careful,
          \/ SetDest(t, "end_a", "end_b", "setd a", "setd b")
          \/ SetDest(t, "end_b", "end_a", "setd b", "idle")
   PROVE  IInv'
<1>1. /\ TypeOK /\ pc[t] \in {"setd a", "setd b"} /\ A(t) # Null /\ B(t) # Null
      /\ pool' = pool /\ q' = q /\ open' = open /\ h' = h /\ res' = res
      /\ careful => res[t] = "error_none"
      /\ pc[t] = "setd b" => dest[A(t)] = B(t)
      /\ RecycledClean /\ Owners
  BY DEF IInv, SetDest, HandleOK, CarefulOK
<1>2. A(t) \in Chanends /\ B(t) \in Chanends /\ A(t) # B(t) /\ dest \in [Chanends -> Chanends \cup {Null}]
  BY <1>1, FieldsDiffer DEF TypeOK
<1>3. \E l \in Label : Goto(t, l)
  BY DEF SetDest, Label
<1>4. pc' \in [Tasks -> Label] /\ \A u \in Tasks : u # t => pc'[u] = pc[u]
  BY <1>1, <1>3, GotoFacts
<1>5. CASE SetDest(t, "end_a", "end_b", "setd a", "setd b")
  <2>1. dest' = [dest EXCEPT ![A(t)] = B(t)] /\ pc'[t] = "setd b"
    BY <1>1, <1>5, GotoFacts DEF SetDest, A, B, Label
  <2>2. dest'[A(t)] = B(t) /\ dest' \in [Chanends -> Chanends \cup {Null}]
    BY <1>2, <2>1
  <2>3. A(t)' = A(t) /\ B(t)' = B(t)
    BY <1>1 DEF A, B
  <2>4. HandleOK(t)' /\ (careful => CarefulOK(t)')
    BY <1>1, <2>1, <2>2, <2>3 DEF HandleOK, CarefulOK
  <2>5. TypeOK' /\ Owners' /\ RecycledClean'
    <3>1. TypeOK'
      BY <1>1, <1>4, <2>2 DEF TypeOK
    <3>2. Owners'
      BY <1>1, OwnersSame
    <3>3. RecycledClean'
      BY <1>1 DEF RecycledClean
    <3> QED
      BY <3>1, <3>2, <3>3
  <2>6. \A c \in Chanends : (\A f \in Field : h[t][f] # c) => dest'[c] = dest[c]
    BY <1>2, <2>1, FieldFacts DEF A
  <2> QED
    BY <1>1, <1>4, <2>4, <2>5, <2>6, Assemble
<1>6. CASE SetDest(t, "end_b", "end_a", "setd b", "idle")
  <2>1. dest' = [dest EXCEPT ![B(t)] = A(t)] /\ pc'[t] = "idle" /\ pc[t] = "setd b"
    BY <1>1, <1>6, GotoFacts DEF SetDest, A, B, Label
  <2>2. /\ dest'[B(t)] = A(t) /\ dest'[A(t)] = B(t)
        /\ dest' \in [Chanends -> Chanends \cup {Null}]
    BY <1>1, <1>2, <2>1
  <2>3. A(t)' = A(t) /\ B(t)' = B(t)
    BY <1>1 DEF A, B
  <2>4. HandleOK(t)' /\ (careful => CarefulOK(t)')
    BY <1>1, <2>1, <2>2, <2>3 DEF HandleOK, CarefulOK, Linked
  <2>5. TypeOK' /\ Owners' /\ RecycledClean'
    <3>1. TypeOK'
      BY <1>1, <1>4, <2>2 DEF TypeOK
    <3>2. Owners'
      BY <1>1, OwnersSame
    <3>3. RecycledClean'
      BY <1>1 DEF RecycledClean
    <3> QED
      BY <3>1, <3>2, <3>3
  <2>6. \A c \in Chanends : (\A f \in Field : h[t][f] # c) => dest'[c] = dest[c]
    BY <1>2, <2>1, FieldFacts DEF B
  <2> QED
    BY <1>1, <1>4, <2>4, <2>5, <2>6, Assemble
<1> QED
  BY <1>5, <1>6

(***************************************************************************)
(* Deallocation                                                            *)
(***************************************************************************)
\* The instructions of s_chan_free are six different ones.
LEMMA OrderLength == DOMAIN Order = 1 .. 6 /\ Len(Order) = 6
<1>1. DOMAIN Order = 1 .. 6
  BY DEF Order
<1>2. Len(Order) = 6
  BY DEF Order
<1> QED
  BY <1>1, <1>2

\* The same, instruction by instruction.
LEMMA OrderFacts ==
   /\ Order[1] = "outct a" /\ Order[2] = "outct b" /\ Order[3] = "chkct a"
   /\ Order[4] = "chkct b" /\ Order[5] = "freer a" /\ Order[6] = "freer b"
   /\ \A i, j \in 1 .. 6 : Order[i] = Order[j] => i = j
<1>1. \A i \in 1 .. 6 : i = 1 \/ i = 2 \/ i = 3 \/ i = 4 \/ i = 5 \/ i = 6
  OBVIOUS
<1>2. /\ Order[1] = "outct a" /\ Order[2] = "outct b" /\ Order[3] = "chkct a"
      /\ Order[4] = "chkct b" /\ Order[5] = "freer a" /\ Order[6] = "freer b"
  BY DEF Order
<1> QED
  BY <1>1, <1>2

\* They follow each other, and the last ends the call.
LEMMA NextLabel ==
   ASSUME NEW t \in Tasks, GotoNext(t), NEW n \in 1 .. 6, pc[t] = Order[n]
   PROVE  Goto(t, IF n = 6 THEN "idle" ELSE Order[n + 1])
<1>1. n = CHOOSE i \in DOMAIN Order : Order[i] = pc[t]
  BY OrderLength, OrderFacts
<1> QED
  BY <1>1, OrderLength DEF GotoNext

\* The same, instruction by instruction.
LEMMA NextLabels ==
   ASSUME NEW t \in Tasks, GotoNext(t)
   PROVE  /\ pc[t] = "outct a" => Goto(t, "outct b")
          /\ pc[t] = "outct b" => Goto(t, "chkct a")
          /\ pc[t] = "chkct a" => Goto(t, "chkct b")
          /\ pc[t] = "chkct b" => Goto(t, "freer a")
          /\ pc[t] = "freer a" => Goto(t, "freer b")
          /\ pc[t] = "freer b" => Goto(t, "idle")
<1>1. ASSUME NEW n \in 1 .. 5, NEW m \in 1 .. 6, m = n + 1, pc[t] = Order[n]
      PROVE  Goto(t, Order[m])
  <2>1. n \in 1 .. 6 /\ n # 6
    OBVIOUS
  <2>2. Goto(t, IF n = 6 THEN "idle" ELSE Order[n + 1])
    BY <1>1, <2>1, NextLabel
  <2> QED
    BY <1>1, <2>1, <2>2
<1>2. ASSUME pc[t] = "freer b" PROVE Goto(t, "idle")
  <2>1. 6 \in 1 .. 6
    OBVIOUS
  <2>2. Goto(t, IF 6 = 6 THEN "idle" ELSE Order[6 + 1])
    BY <1>2, <2>1, NextLabel, OrderFacts
  <2> QED
    BY <2>2
<1>3. /\ pc[t] = Order[1] => Goto(t, Order[2])
      /\ pc[t] = Order[2] => Goto(t, Order[3])
      /\ pc[t] = Order[3] => Goto(t, Order[4])
      /\ pc[t] = Order[4] => Goto(t, Order[5])
      /\ pc[t] = Order[5] => Goto(t, Order[6])
  BY <1>1
<1> QED
  BY <1>2, <1>3, OrderFacts

\* A buffer that holds one END gives an END, and is empty then.
LEMMA TailOfEnd == \A s : s = <<"END">> => s # << >> /\ Head(s) = "END" /\ Tail(s) = << >>
OBVIOUS

\* An empty buffer that receives an END holds one END.
LEMMA OneEnd == \A k : k = "END" => Append(<< >>, k) = <<"END">>
<1>1. \A k : Append(<< >>, k) = <<k>>
  OBVIOUS
<1> QED
  BY <1>1

\* A step that changes no more than the tokens of the task's own channel.
LEMMA TokensMove ==
   ASSUME IInv, NEW t \in Tasks, careful' = careful, UNCHANGED <<pool, dest, h, res>>,
          pc' \in [Tasks -> Label], \A u \in Tasks : u # t => pc'[u] = pc[u],
          q' \in [Chanends -> Seq(Tok)], \A c \in Chanends : Len(q'[c]) <= Cap,
          open' \subseteq Chanends,
          \A c \in Chanends : (\A f \in Field : h[t][f] # c) =>
             q'[c] = q[c] /\ (c \in open' <=> c \in open),
          HandleOK(t)', careful => CarefulOK(t)'
   PROVE  IInv'
<1>1. pool' = pool /\ dest' = dest /\ h' = h /\ res' = res
  OBVIOUS
<1>2. TypeOK /\ Owners /\ RecycledClean
  BY DEF IInv
<1>3. TypeOK'
  BY <1>1, <1>2 DEF TypeOK
<1>4. Owners'
  BY <1>1, <1>2 DEF Owners
<1>5. RecycledClean'
  <2> SUFFICES ASSUME NEW c \in pool PROVE q'[c] = << >> /\ c \notin open'
    BY <1>1 DEF RecycledClean
  <2>1. c \in Chanends /\ \A f \in Field : h[t][f] # c
    BY <1>2 DEF TypeOK, Owners
  <2> QED
    BY <1>2, <2>1 DEF RecycledClean
<1> QED
  BY <1>1, <1>3, <1>4, <1>5, Assemble

\* An output arrives at the other end of the channel, and nowhere else.
LEMMA OutFacts ==
   ASSUME TypeOK, NEW c \in Chanends, NEW o \in Chanends, dest[c] = o, NEW k \in Tok,
          OutTok(c, k)
   PROVE  /\ q' \in [Chanends -> Seq(Tok)] /\ \A x \in Chanends : Len(q'[x]) <= Cap
          /\ open' \subseteq Chanends
          /\ q'[o] = Append(q[o], k)
          /\ \A x \in Chanends : x # o => q'[x] = q[x]
          /\ \A x \in Chanends : x # c => (x \in open' <=> x \in open)
          /\ k = "END" => c \notin open'
<1>1. /\ Len(q[o]) < Cap
      /\ q' = [q EXCEPT ![o] = Append(q[o], k)]
      /\ open' = IF k = "END" THEN open \ {c} ELSE open \cup {c}
  BY DEF OutTok
<1>2. q \in [Chanends -> Seq(Tok)] /\ open \subseteq Chanends /\ \A x \in Chanends : Len(q[x]) <= Cap
  BY DEF TypeOK
<1>3. q[o] \in Seq(Tok)
  BY <1>2
<1>4. /\ Append(q[o], k) \in Seq(Tok) /\ Len(Append(q[o], k)) = Len(q[o]) + 1
      /\ Len(q[o]) \in Nat
  BY <1>3
<1>5. Len(Append(q[o], k)) <= Cap
  BY <1>1, <1>4, PoolAssumption
<1>6. q' \in [Chanends -> Seq(Tok)] /\ q'[o] = Append(q[o], k) /\ \A x \in Chanends : x # o => q'[x] = q[x]
  BY <1>1, <1>2, <1>4
<1>7. \A x \in Chanends : Len(q'[x]) <= Cap
  BY <1>2, <1>5, <1>6
<1>8. /\ open' \subseteq Chanends
      /\ \A x \in Chanends : x # c => (x \in open' <=> x \in open)
      /\ k = "END" => c \notin open'
  BY <1>1, <1>2
<1> QED
  BY <1>6, <1>7, <1>8

\* An input takes the first token of the end it is made on, and nothing else.
LEMMA InFacts ==
   ASSUME IInv, NEW t \in Tasks, NEW f \in Field, NEW k \in Tok, TakeTok(h[t][f], k)
   PROVE  /\ h[t][f] \in Chanends
          /\ q' \in [Chanends -> Seq(Tok)] /\ \A c \in Chanends : Len(q'[c]) <= Cap
          /\ open' = open
          /\ q'[h[t][f]] = Tail(q[h[t][f]])
          /\ \A c \in Chanends : c # h[t][f] => q'[c] = q[c]
<1>1. TypeOK
  BY DEF IInv
<1>2. h[t][f] # Null
  BY DEF TakeTok
<1>3. PICK o : o = h[t][f]
  OBVIOUS
<1>4. o \in Chanends
  BY <1>2, <1>3, Named
<1>5. q' = [q EXCEPT ![o] = Tail(q[o])] /\ q[o] # << >> /\ open' = open
  BY <1>3, <1>4 DEF TakeTok
<1>6. q \in [Chanends -> Seq(Tok)] /\ \A c \in Chanends : Len(q[c]) <= Cap
  BY <1>1 DEF TypeOK
<1>7. q[o] \in Seq(Tok)
  BY <1>4, <1>6
<1>8. Tail(q[o]) \in Seq(Tok) /\ Len(Tail(q[o])) = Len(q[o]) - 1 /\ Len(q[o]) \in Nat
  BY <1>5, <1>7
<1>9. Len(Tail(q[o])) <= Cap
  BY <1>4, <1>6, <1>8, PoolAssumption
<1>10. q' \in [Chanends -> Seq(Tok)] /\ q'[o] = Tail(q[o]) /\ \A c \in Chanends : c # o => q'[c] = q[c]
  BY <1>4, <1>5, <1>6, <1>8
<1>11. \A c \in Chanends : Len(q'[c]) <= Cap
  BY <1>6, <1>9, <1>10
<1> QED
  BY <1>3, <1>4, <1>5, <1>10, <1>11

\* A call to free a channel begins.
LEMMA FreeFromInv ==
   ASSUME IInv, NEW t \in Tasks, careful' = careful,
          NEW l \in {"outct a", "freer a"}, FreeFrom(t, l)
   PROVE  IInv'
<1>1. /\ TypeOK /\ pc[t] = "idle" /\ MayFree(t) /\ HandleOK(t) /\ Goto(t, l)
      /\ Result(t, "error_none") /\ UNCHANGED <<pool, q, open, dest, h>>
  BY DEF IInv, FreeFrom
<1>2. /\ pc' \in [Tasks -> Label] /\ pc'[t] = l
      /\ res' \in [Tasks -> {"error_none", "ET_ILLEGAL_RESOURCE"}] /\ res'[t] = "error_none"
      /\ \A u \in Tasks : u # t => pc'[u] = pc[u] /\ res'[u] = res[u]
  BY <1>1, GotoFacts, ResultFacts DEF Label
<1>3. Linked(t) \/ HalfFreed(t)
  BY <1>1 DEF MayFree, HandleOK
<1>4. careful => Linked(t) /\ Still(A(t)) /\ Still(B(t))
  BY <1>1, <1>3, FieldFacts DEF MayFree, Joined, Quiet, HalfFreed, Still, A, B
<1>5. /\ (Linked(t)' <=> Linked(t)) /\ (HalfFreed(t)' <=> HalfFreed(t))
      /\ (Still(A(t))' <=> Still(A(t))) /\ (Still(B(t))' <=> Still(B(t)))
  BY <1>1 DEF Linked, HalfFreed, Still, A, B
<1>6. HandleOK(t)'
  BY <1>2, <1>3, <1>5 DEF HandleOK
<1>7. careful => CarefulOK(t)'
  BY <1>2, <1>4, <1>5 DEF CarefulOK
<1> QED
  BY <1>1, <1>2, <1>6, <1>7, MovesOn

\* s_chan_free outputs an END on each of the two ends.
LEMMA FreeOutInv ==
   ASSUME IInv, NEW t \in Tasks, careful' = careful,
          \/ pc[t] = "outct a" /\ FreeOut(t, "end_a")
          \/ pc[t] = "outct b" /\ FreeOut(t, "end_b")
   PROVE  IInv'
<1>1. TypeOK /\ HandleOK(t) /\ (careful => CarefulOK(t))
  BY DEF IInv
<1>2. /\ pc[t] = "outct a" => Linked(t) \/ HalfFreed(t)
      /\ pc[t] = "outct b" => Linked(t)
  BY <1>1 DEF HandleOK
<1>3. /\ A(t) # Null => A(t) \in Chanends
      /\ B(t) # Null => B(t) \in Chanends
      /\ A(t) # Null => A(t) # B(t)
  BY FieldsDiffer
<1>4. CASE pc[t] = "outct a" /\ OutTok(h[t]["end_a"], "END") /\ GotoNext(t)
                             /\ UNCHANGED <<pool, dest, h, res>>
  <2>1. Linked(t)
    BY <1>2, <1>4 DEF OutTok, HalfFreed, A
  <2>2. /\ q' \in [Chanends -> Seq(Tok)] /\ \A c \in Chanends : Len(q'[c]) <= Cap
        /\ open' \subseteq Chanends
        /\ q[B(t)] = << >> => q'[B(t)] = <<"END">>
        /\ \A c \in Chanends : c # B(t) => q'[c] = q[c]
        /\ \A c \in Chanends : c # A(t) => (c \in open' <=> c \in open)
        /\ A(t) \notin open'
    <3>1. PICK c, o \in Chanends : c = A(t) /\ o = B(t)
      BY <1>3, <2>1 DEF Linked
    <3>2. OutTok(c, "END") /\ dest[c] = o /\ "END" \in Tok
      BY <1>4, <2>1, <3>1 DEF OutTok, Linked, Tok, A, B
    <3>3. TypeOK
      BY <1>1
    <3>4. PICK k \in Tok : k = "END"
      BY <3>2
    <3>5. /\ q' \in [Chanends -> Seq(Tok)] /\ \A x \in Chanends : Len(q'[x]) <= Cap
          /\ open' \subseteq Chanends
          /\ q'[o] = Append(q[o], k)
          /\ \A x \in Chanends : x # o => q'[x] = q[x]
          /\ \A x \in Chanends : x # c => (x \in open' <=> x \in open)
          /\ k = "END" => c \notin open'
      <4>1. OutTok(c, k) /\ dest[c] = o
        BY <3>2, <3>4
      <4> QED
        BY <3>3, <4>1, OutFacts
    <3>6. q[o] = << >> => q'[o] = <<"END">>
      BY <3>4, <3>5, OneEnd
    <3> QED
      BY <3>1, <3>4, <3>5, <3>6
  <2>3. Goto(t, "outct b")
    BY <1>4, NextLabels
  <2>4. /\ pc' \in [Tasks -> Label] /\ pc'[t] = "outct b"
        /\ \A u \in Tasks : u # t => pc'[u] = pc[u]
    BY <1>1, <2>3, GotoFacts DEF Label
  <2>5. Linked(t)' /\ A(t)' = A(t) /\ B(t)' = B(t)
    BY <1>4, <2>1 DEF Linked, A, B
  <2>6. careful => Still(A(t))' /\ Ended(B(t))'
    <3>1. careful => Still(A(t)) /\ Still(B(t))
      BY <1>1, <1>4 DEF CarefulOK
    <3> QED
      BY <1>3, <2>1, <2>2, <2>5, <3>1 DEF Still, Ended, Linked
  <2>7. HandleOK(t)' /\ (careful => CarefulOK(t)')
    BY <1>1, <1>4, <2>4, <2>5, <2>6 DEF HandleOK, CarefulOK
  <2>8. \A c \in Chanends : (\A f \in Field : h[t][f] # c) =>
           q'[c] = q[c] /\ (c \in open' <=> c \in open)
    BY <2>2, FieldFacts DEF A, B
  <2> QED
    BY <1>4, <2>2, <2>4, <2>7, <2>8, TokensMove
<1>5. CASE pc[t] = "outct b" /\ OutTok(h[t]["end_b"], "END") /\ GotoNext(t)
                             /\ UNCHANGED <<pool, dest, h, res>>
  <2>1. Linked(t)
    BY <1>2, <1>5
  <2>2. /\ q' \in [Chanends -> Seq(Tok)] /\ \A c \in Chanends : Len(q'[c]) <= Cap
        /\ open' \subseteq Chanends
        /\ q[A(t)] = << >> => q'[A(t)] = <<"END">>
        /\ \A c \in Chanends : c # A(t) => q'[c] = q[c]
        /\ \A c \in Chanends : c # B(t) => (c \in open' <=> c \in open)
        /\ B(t) \notin open'
    <3>1. PICK c, o \in Chanends : c = B(t) /\ o = A(t)
      BY <1>3, <2>1 DEF Linked
    <3>2. OutTok(c, "END") /\ dest[c] = o /\ "END" \in Tok
      BY <1>5, <2>1, <3>1 DEF OutTok, Linked, Tok, A, B
    <3>3. TypeOK
      BY <1>1
    <3>4. PICK k \in Tok : k = "END"
      BY <3>2
    <3>5. /\ q' \in [Chanends -> Seq(Tok)] /\ \A x \in Chanends : Len(q'[x]) <= Cap
          /\ open' \subseteq Chanends
          /\ q'[o] = Append(q[o], k)
          /\ \A x \in Chanends : x # o => q'[x] = q[x]
          /\ \A x \in Chanends : x # c => (x \in open' <=> x \in open)
          /\ k = "END" => c \notin open'
      <4>1. OutTok(c, k) /\ dest[c] = o
        BY <3>2, <3>4
      <4> QED
        BY <3>3, <4>1, OutFacts
    <3>6. q[o] = << >> => q'[o] = <<"END">>
      BY <3>4, <3>5, OneEnd
    <3> QED
      BY <3>1, <3>4, <3>5, <3>6
  <2>3. Goto(t, "chkct a")
    BY <1>5, NextLabels
  <2>4. /\ pc' \in [Tasks -> Label] /\ pc'[t] = "chkct a"
        /\ \A u \in Tasks : u # t => pc'[u] = pc[u]
    BY <1>1, <2>3, GotoFacts DEF Label
  <2>5. Linked(t)' /\ A(t)' = A(t) /\ B(t)' = B(t)
    BY <1>5, <2>1 DEF Linked, A, B
  <2>6. careful => Ended(A(t))' /\ Ended(B(t))'
    <3>1. careful => Still(A(t)) /\ Ended(B(t))
      BY <1>1, <1>5 DEF CarefulOK
    <3> QED
      BY <1>3, <2>1, <2>2, <2>5, <3>1 DEF Still, Ended, Linked
  <2>7. HandleOK(t)' /\ (careful => CarefulOK(t)')
    BY <1>1, <1>5, <2>4, <2>5, <2>6 DEF HandleOK, CarefulOK
  <2>8. \A c \in Chanends : (\A f \in Field : h[t][f] # c) =>
           q'[c] = q[c] /\ (c \in open' <=> c \in open)
    BY <2>2, FieldFacts DEF A, B
  <2> QED
    BY <1>5, <2>2, <2>4, <2>7, <2>8, TokensMove
<1>6. CASE /\ Trap(t)
           /\ \/ pc[t] = "outct a" /\ A(t) = Null
              \/ pc[t] = "outct b" /\ B(t) = Null
  <2>1. HalfFreed(t) /\ pc[t] = "outct a" /\ ~Linked(t)
    BY <1>2, <1>6 DEF Linked
  <2>2. ~careful
    BY <1>1, <2>1 DEF CarefulOK
  <2> QED
    BY <1>6, <2>1, <2>2, TrapInv
<1> QED
  BY <1>4, <1>5, <1>6 DEF FreeOut, A, B

\* It then inputs an END from each of them.
LEMMA FreeCheckInv ==
   ASSUME IInv, NEW t \in Tasks, careful' = careful,
          \/ pc[t] = "chkct a" /\ FreeCheck(t, "end_a")
          \/ pc[t] = "chkct b" /\ FreeCheck(t, "end_b")
   PROVE  IInv'
<1>1. TypeOK /\ HandleOK(t) /\ (careful => CarefulOK(t))
  BY DEF IInv
<1>2. pc[t] \in {"chkct a", "chkct b"} /\ Linked(t)
  BY <1>1 DEF HandleOK
<1>3. A(t) \in Chanends /\ B(t) \in Chanends /\ A(t) # B(t) /\ A(t) # Null /\ B(t) # Null
  BY <1>2, FieldsDiffer DEF Linked
<1>4. ASSUME Trap(t), \/ pc[t] = "chkct a" /\ WrongTok(A(t), "END")
                      \/ pc[t] = "chkct b" /\ WrongTok(B(t), "END")
      PROVE  IInv'
  <2>1. ~careful
    BY <1>1, <1>4, TailOfEnd DEF CarefulOK, Ended, WrongTok
  <2> QED
    BY <1>2, <1>4, <2>1, TrapInv
<1>5. CASE pc[t] = "chkct a" /\ TakeTok(h[t]["end_a"], "END") /\ GotoNext(t)
                             /\ UNCHANGED <<pool, dest, h, res>>
  <2>1. /\ q' \in [Chanends -> Seq(Tok)] /\ \A c \in Chanends : Len(q'[c]) <= Cap
        /\ open' = open /\ q'[A(t)] = Tail(q[A(t)])
        /\ \A c \in Chanends : c # A(t) => q'[c] = q[c]
    BY <1>5, InFacts, FieldFacts DEF A, Tok
  <2>2. Goto(t, "chkct b")
    BY <1>5, NextLabels
  <2>3. /\ pc' \in [Tasks -> Label] /\ pc'[t] = "chkct b"
        /\ \A u \in Tasks : u # t => pc'[u] = pc[u]
    BY <1>1, <2>2, GotoFacts DEF Label
  <2>4. Linked(t)' /\ A(t)' = A(t) /\ B(t)' = B(t)
    BY <1>2, <1>5 DEF Linked, A, B
  <2>5. careful => Still(A(t))' /\ Ended(B(t))'
    <3>1. careful => Ended(A(t)) /\ Ended(B(t))
      BY <1>1, <1>5 DEF CarefulOK
    <3> QED
      BY <1>3, <2>1, <2>4, <3>1, TailOfEnd DEF Still, Ended
  <2>6. HandleOK(t)' /\ (careful => CarefulOK(t)')
    BY <1>1, <1>5, <2>3, <2>4, <2>5 DEF HandleOK, CarefulOK
  <2>7. \A c \in Chanends : (\A f \in Field : h[t][f] # c) =>
           q'[c] = q[c] /\ (c \in open' <=> c \in open)
    BY <2>1, FieldFacts DEF A
  <2>8. open' \subseteq Chanends
    BY <1>1, <2>1 DEF TypeOK
  <2> QED
    BY <1>5, <2>1, <2>3, <2>6, <2>7, <2>8, TokensMove
<1>6. CASE pc[t] = "chkct b" /\ TakeTok(h[t]["end_b"], "END") /\ GotoNext(t)
                             /\ UNCHANGED <<pool, dest, h, res>>
  <2>1. /\ q' \in [Chanends -> Seq(Tok)] /\ \A c \in Chanends : Len(q'[c]) <= Cap
        /\ open' = open /\ q'[B(t)] = Tail(q[B(t)])
        /\ \A c \in Chanends : c # B(t) => q'[c] = q[c]
    BY <1>6, InFacts, FieldFacts DEF B, Tok
  <2>2. Goto(t, "freer a")
    BY <1>6, NextLabels
  <2>3. /\ pc' \in [Tasks -> Label] /\ pc'[t] = "freer a"
        /\ \A u \in Tasks : u # t => pc'[u] = pc[u]
    BY <1>1, <2>2, GotoFacts DEF Label
  <2>4. Linked(t)' /\ A(t)' = A(t) /\ B(t)' = B(t)
    BY <1>2, <1>6 DEF Linked, A, B
  <2>5. careful => Still(A(t))' /\ Still(B(t))'
    <3>1. careful => Still(A(t)) /\ Ended(B(t))
      BY <1>1, <1>6 DEF CarefulOK
    <3> QED
      BY <1>3, <2>1, <2>4, <3>1, TailOfEnd DEF Still, Ended
  <2>6. HandleOK(t)' /\ (careful => CarefulOK(t)')
    BY <1>1, <1>6, <2>3, <2>4, <2>5 DEF HandleOK, CarefulOK
  <2>7. \A c \in Chanends : (\A f \in Field : h[t][f] # c) =>
           q'[c] = q[c] /\ (c \in open' <=> c \in open)
    BY <2>1, FieldFacts DEF B
  <2>8. open' \subseteq Chanends
    BY <1>1, <2>1 DEF TypeOK
  <2> QED
    BY <1>6, <2>1, <2>3, <2>6, <2>7, <2>8, TokensMove
<1> QED
  BY <1>3, <1>4, <1>5, <1>6 DEF FreeCheck, A, B

\* And frees each of them.
LEMMA FreeEndInv ==
   ASSUME IInv, NEW t \in Tasks, careful' = careful,
          \/ pc[t] = "freer a" /\ FreeEnd(t, "end_a")
          \/ pc[t] = "freer b" /\ FreeEnd(t, "end_b")
   PROVE  IInv'
<1>1. TypeOK /\ HandleOK(t) /\ (careful => CarefulOK(t))
  BY DEF IInv
<1>2. /\ pc[t] = "freer a" => Linked(t) \/ HalfFreed(t)
      /\ pc[t] = "freer b" => HalfFreed(t)
  BY <1>1 DEF HandleOK
<1>3. /\ A(t) # Null => A(t) \in Chanends /\ A(t) \notin pool
      /\ B(t) # Null => B(t) \in Chanends /\ B(t) \notin pool
      /\ A(t) # Null => A(t) # B(t)
  BY FieldsDiffer
<1>4. CASE Trap(t) /\ (\/ pc[t] = "freer a" /\ ~Freeable(A(t))
                       \/ pc[t] = "freer b" /\ ~Freeable(B(t)))
  <2>1. Linked(t) \/ HalfFreed(t)
    BY <1>2, <1>4
  <2>2. ~careful
    BY <1>1, <1>2, <1>3, <1>4 DEF CarefulOK, Freeable, Still, Linked, HalfFreed
  <2> QED
    BY <1>4, <2>1, <2>2, TrapInv
<1>5. CASE pc[t] = "freer a" /\ FreeR(t, "end_a") /\ GotoNext(t) /\ UNCHANGED <<q, open, res>>
  <2>1. q' = q /\ open' = open /\ res' = res
    BY <1>5
  <2>2. /\ Owners' /\ RecycledClean' /\ pool' \subseteq Chanends
        /\ h[t]["end_a"] \in Chanends
        /\ h' \in [Tasks -> [Field -> Chanends \cup {Null}]]
        /\ h'[t]["end_a"] = Null
        /\ \A g \in Field : g # "end_a" => h'[t][g] = h[t][g]
        /\ \A u \in Tasks : u # t => h'[u] = h[u]
        /\ dest' \in [Chanends -> Chanends \cup {Null}]
        /\ \A c \in Chanends : c # h[t]["end_a"] => dest'[c] = dest[c]
    BY <1>5, <2>1, OwnersFree, FieldFacts
  <2>3. Goto(t, "freer b")
    BY <1>5, NextLabels
  <2>4. /\ pc' \in [Tasks -> Label] /\ pc'[t] = "freer b"
        /\ \A u \in Tasks : u # t => pc'[u] = pc[u]
    BY <1>1, <2>3, GotoFacts DEF Label
  <2>5. Linked(t)
    BY <1>2, <1>5, <2>2, PoolAssumption DEF HalfFreed, A
  <2>6. HalfFreed(t)' /\ B(t)' = B(t)
    BY <2>2, <2>5, FieldFacts DEF HalfFreed, Linked, A, B
  <2>7. careful => Still(B(t))'
    BY <1>1, <1>5, <2>1, <2>6 DEF CarefulOK, Still
  <2>8. HandleOK(t)' /\ (careful => CarefulOK(t)')
    BY <1>1, <2>1, <2>4, <2>6, <2>7 DEF HandleOK, CarefulOK
  <2>9. TypeOK'
    BY <1>1, <2>1, <2>2, <2>4 DEF TypeOK
  <2> QED
    BY <2>1, <2>2, <2>4, <2>8, <2>9, FieldFacts, Assemble
<1>6. CASE pc[t] = "freer b" /\ FreeR(t, "end_b") /\ GotoNext(t) /\ UNCHANGED <<q, open, res>>
  <2>1. q' = q /\ open' = open /\ res' = res
    BY <1>6
  <2>2. /\ Owners' /\ RecycledClean' /\ pool' \subseteq Chanends
        /\ h' \in [Tasks -> [Field -> Chanends \cup {Null}]]
        /\ h'[t]["end_b"] = Null
        /\ \A g \in Field : g # "end_b" => h'[t][g] = h[t][g]
        /\ \A u \in Tasks : u # t => h'[u] = h[u]
        /\ dest' \in [Chanends -> Chanends \cup {Null}]
        /\ \A c \in Chanends : c # h[t]["end_b"] => dest'[c] = dest[c]
    BY ZenonT(60), <1>6, <2>1, OwnersFree, FieldFacts
  <2>3. Goto(t, "idle")
    BY <1>6, NextLabels
  <2>4. /\ pc' \in [Tasks -> Label] /\ pc'[t] = "idle"
        /\ \A u \in Tasks : u # t => pc'[u] = pc[u]
    BY <1>1, <2>3, GotoFacts DEF Label
  <2>5. h'[t] = NoChannel
    <3>1. h'[t]["end_a"] = Null
      BY <1>2, <1>6, <2>2, FieldFacts DEF HalfFreed, A
    <3>2. \A f \in Field : h'[t][f] = Null
      BY <2>2, <3>1, FieldFacts
    <3>3. h'[t] \in [Field -> Chanends \cup {Null}]
      BY <2>2
    <3> QED
      BY <3>2, <3>3 DEF NoChannel
  <2>6. HandleOK(t)' /\ (careful => CarefulOK(t)')
    BY <1>1, <2>1, <2>4, <2>5 DEF HandleOK, CarefulOK
  <2>7. TypeOK'
    BY <1>1, <2>1, <2>2, <2>4 DEF TypeOK
  <2> QED
    BY <2>1, <2>2, <2>4, <2>6, <2>7, FieldFacts, Assemble
<1> QED
  BY <1>4, <1>5, <1>6 DEF FreeEnd, A, B

(***************************************************************************)
(* Traffic                                                                 *)
(***************************************************************************)
\* Tokens only travel on a channel between two calls.
LEMMA TrafficInv ==
   ASSUME IInv, NEW t \in Tasks, careful' = careful, Traffic(t) PROVE IInv'
<1>1. TypeOK /\ HandleOK(t) /\ (careful => CarefulOK(t))
  BY DEF IInv
<1>2. /\ pc[t] = "idle" /\ Joined(t) /\ UNCHANGED <<pool, dest, h, pc, res>>
  BY DEF Traffic, s_chan_out, s_chan_in
<1>3. A(t) # Null /\ B(t) # Null
  BY <1>2, FieldFacts DEF Joined, A, B
<1>4. Linked(t)
  BY <1>1, <1>2, <1>3, FieldsDiffer DEF HandleOK, HalfFreed
<1>5. A(t) \in Chanends /\ B(t) \in Chanends
  BY <1>3, FieldsDiffer
<1>6. HandleOK(t)' /\ (careful => CarefulOK(t)')
  <2>1. Linked(t)'
    BY <1>2, <1>4 DEF Linked, A, B
  <2>2. pc'[t] = "idle" /\ res' = res
    BY <1>2
  <2> QED
    BY <1>1, <2>1, <2>2 DEF HandleOK, CarefulOK
<1>7. /\ q' \in [Chanends -> Seq(Tok)] /\ \A c \in Chanends : Len(q'[c]) <= Cap
      /\ open' \subseteq Chanends
      /\ \A c \in Chanends : (\A f \in Field : h[t][f] # c) =>
            q'[c] = q[c] /\ (c \in open' <=> c \in open)
  <2>1. PICK f \in Field, k \in Tok : s_chan_out(t, f, k) \/ s_chan_in(t, f, k)
    BY DEF Traffic
  <2>2. CASE s_chan_out(t, f, k)
    <3>1. PICK c, o \in Chanends : c = h[t][f] /\ dest[c] = o /\ \E g \in Field : h[t][g] = o
      BY <1>4, <1>5, FieldFacts DEF Linked, A, B
    <3>2. OutTok(c, k)
      BY <2>2, <3>1 DEF s_chan_out, OutTok
    <3>3. /\ q' \in [Chanends -> Seq(Tok)] /\ \A x \in Chanends : Len(q'[x]) <= Cap
          /\ open' \subseteq Chanends
          /\ \A x \in Chanends : x # o => q'[x] = q[x]
          /\ \A x \in Chanends : x # c => (x \in open' <=> x \in open)
      BY <1>1, <3>1, <3>2, OutFacts
    <3> QED
      BY <3>1, <3>3
  <2>3. CASE s_chan_in(t, f, k)
    <3>1. TakeTok(h[t][f], k)
      BY <2>3 DEF s_chan_in
    <3>2. /\ q' \in [Chanends -> Seq(Tok)] /\ \A c \in Chanends : Len(q'[c]) <= Cap
          /\ open' = open /\ \A c \in Chanends : c # h[t][f] => q'[c] = q[c]
      BY <3>1, InFacts
    <3>3. open \subseteq Chanends
      BY <1>1 DEF TypeOK
    <3> QED
      BY <3>2, <3>3
  <2> QED
    BY <2>1, <2>2, <2>3
<1>8. pc' \in [Tasks -> Label] /\ \A u \in Tasks : u # t => pc'[u] = pc[u]
  BY <1>1, <1>2 DEF TypeOK
<1> QED
  BY <1>2, <1>6, <1>7, <1>8, TokensMove

(***************************************************************************)
(* Theorems                                                                *)
(***************************************************************************)
\* Before the first call no chan-end is allocated.
LEMMA InitInv == Init => IInv
<1> SUFFICES ASSUME Init PROVE IInv
  OBVIOUS
<1>1. /\ \A t \in Tasks : \A f \in Field : h[t][f] = Null
      /\ \A t \in Tasks : h[t] = NoChannel /\ pc[t] = "idle" /\ res[t] = "error_none"
      /\ pool = Chanends /\ open = {} /\ \A c \in Chanends : q[c] = << >>
  BY DEF Init, NoChannel
<1>2. TypeOK
  <2>1. NoChannel \in [Field -> Chanends \cup {Null}]
    BY DEF NoChannel
  <2>2. << >> \in Seq(Tok) /\ Len(<< >>) = 0
    OBVIOUS
  <2>3. \A c \in Chanends : Len(q[c]) <= Cap
    BY <1>1, <2>2, PoolAssumption
  <2> QED
    BY <2>1, <2>2, <2>3 DEF Init, TypeOK, Label
<1>3. Owners
  BY <1>1, PoolAssumption DEF Owners
<1>4. RecycledClean
  BY <1>1 DEF RecycledClean
<1>5. \A t \in Tasks : HandleOK(t) /\ CarefulOK(t)
  BY <1>1 DEF HandleOK, CarefulOK
<1> QED
  BY <1>2, <1>3, <1>4, <1>5 DEF IInv

\* A state in which nothing moves stays as it is.
LEMMA StutterInv == IInv /\ UNCHANGED vars => IInv'
<1> SUFFICES ASSUME IInv, UNCHANGED vars PROVE IInv'
  OBVIOUS
<1>1. /\ careful' = careful /\ pool' = pool /\ q' = q /\ open' = open /\ dest' = dest
      /\ h' = h /\ pc' = pc /\ res' = res
  BY DEF vars
<1>2. TypeOK /\ Owners /\ RecycledClean
  BY DEF IInv
<1>3. TypeOK'
  BY <1>1, <1>2 DEF TypeOK
<1>4. Owners'
  BY <1>1, <1>2, OwnersSame
<1>5. RecycledClean'
  BY <1>1, <1>2 DEF RecycledClean
<1>6. ASSUME NEW t \in Tasks
      PROVE  /\ HandleOK(t)' <=> HandleOK(t)
             /\ CarefulOK(t)' <=> CarefulOK(t)
  <2>1. A(t)' = A(t) /\ B(t)' = B(t)
    BY <1>1 DEF A, B
  <2> QED
    BY <1>1, <2>1 DEF HandleOK, CarefulOK, Linked, HalfMade, HalfFreed, Still, Ended
<1> QED
  BY <1>1, <1>3, <1>4, <1>5, <1>6 DEF IInv

\* Every step of every task keeps the invariant.
LEMMA NextInv == IInv /\ Next => IInv'
<1> SUFFICES ASSUME IInv, Next PROVE IInv'
  OBVIOUS
<1>1. PICK t \in Tasks : Step(t) \/ (Traffic(t) /\ UNCHANGED careful)
  BY DEF Next
<1>2. careful' = careful
  BY <1>1 DEF Step
<1>3. CASE Traffic(t)
  BY <1>2, <1>3, TrafficInv
<1>4. CASE s_chan_alloc(t)
  BY <1>2, <1>4, AllocFirstInv, AllocSecondInv, UndoInv, SetDestInv DEF s_chan_alloc
<1>5. CASE FreeNextInstruction(t)
  BY <1>2, <1>5, FreeOutInv, FreeCheckInv, FreeEndInv DEF FreeNextInstruction
<1>6. CASE FreeFrom(t, Order[1]) \/ FreeFrom(t, "freer a")
  BY <1>2, <1>6, FreeFromInv, OrderFacts
<1> QED
  BY <1>1, <1>3, <1>4, <1>5, <1>6 DEF Step, s_chan_free, chan_free

\* The channel of every task, the pool and the tokens in every buffer stay
\* consistent at every instruction of every call.
THEOREM CallsKeepTheirChannels == Spec => []IInv
<1>1. Init => IInv
  BY InitInv
<1>2. IInv /\ [Next]_vars => IInv'
  BY NextInv, StutterInv
<1> QED
  BY <1>1, <1>2, PTL DEF Spec

\* The owners of the chan-ends, counted: an allocated one is named by one field
\* of one handle.
LEMMA OwnersNameOnce == TypeOK /\ Owners => NamedOnce
<1> SUFFICES ASSUME TypeOK, Owners, NEW c \in Chanends
             PROVE  Cardinality(NamedBy(c)) = IF c \in pool THEN 0 ELSE 1
  BY DEF NamedOnce
<1>1. CASE c \in pool
  <2>1. NamedBy(c) = {}
    BY <1>1 DEF NamedBy, Owners
  <2> QED
    BY <1>1, <2>1, FS_EmptySet
<1>2. CASE c \notin pool
  <2>1. PICK t \in Tasks, f \in Field : h[t][f] = c
    BY <1>2 DEF Owners
  <2>2. c # Null
    BY PoolAssumption
  <2>3. \A u \in Tasks : \A g \in Field : h[u][g] = c => u = t /\ g = f
    BY <2>1, <2>2 DEF Owners
  <2>4. NamedBy(c) = {<<t, f>>}
    BY <2>1, <2>3 DEF NamedBy
  <2> QED
    BY <1>2, <2>4, FS_Singleton
<1> QED
  BY <1>1, <1>2

\* No chan-end is lost, shared, or recycled with tokens in it, and a call on a
\* channel whose traffic is complete never fails, for any number of tasks and
\* of chan-ends, wherever the allocation of one of them fails.
THEOREM PoolInvariant == Spec => []Inv
<1>1. IInv => Inv
  BY OwnersNameOnce DEF IInv, Inv, FreeSucceeds, CarefulOK
<1> QED
  BY <1>1, CallsKeepTheirChannels, PTL

\* A call that returns error_none leaves a whole channel or none.
THEOREM ChannelsAreWhole == Spec => []WholeOrReported
<1>1. IInv => WholeOrReported
  <2> SUFFICES ASSUME IInv, NEW t \in Tasks, pc[t] = "idle", res[t] = "error_none",
                      h[t] # NoChannel
               PROVE  Joined(t) /\ \A f \in Field : dest[h[t][f]] = h[t][OtherField(f)]
    BY DEF WholeOrReported
  <2>1. Linked(t)
    BY DEF IInv, HandleOK
  <2> QED
    BY <2>1, FieldFacts DEF Linked, Joined, OtherField, A, B
<1> QED
  BY <1>1, CallsKeepTheirChannels, PTL

=============================================================================
