----------------------------- MODULE LockProofs -----------------------------
(***************************************************************************)
(* Theorems about Lock.tla, for every number of cores.                     *)
(***************************************************************************)
EXTENDS Lock, FiniteSetTheorems, NaturalsInduction, TLAPS

(***************************************************************************)
(* The rotation                                                            *)
(***************************************************************************)
\* A set of natural numbers that is not empty has a smallest element.
LEMMA SmallestElement ==
   ASSUME NEW S, S \subseteq Nat, S # {}
   PROVE  \E x \in S : \A y \in S : x <= y
<1>1. \E x \in S : \A y \in S : ~(<<y, x>> \in OpToRel(<, Nat))
  BY NatLessThanWellFounded, WFMin
<1>2. \A x, y \in Nat : <<y, x>> \in OpToRel(<, Nat) <=> y < x
  BY DEF OpToRel
<1>3. PICK x \in S : \A y \in S : ~(<<y, x>> \in OpToRel(<, Nat))
  BY <1>1
<1>4. \A y \in S : y \in Nat /\ x \in Nat /\ ~(y < x)
  BY <1>2, <1>3
<1>5. \A y \in S : x <= y
  BY <1>4
<1> QED
  BY <1>5

\* How far core d comes after core c in rotation.
LEMMA DistanceFacts ==
   ASSUME NEW c \in Core, NEW d \in Core
   PROVE  Distance(c, d) = IF d > c THEN d - c - 1 ELSE d + N - c - 1
  BY CoresAssumption DEF Distance, Core

\* The next core in rotation is one of those that wait, and none of them comes
\* before it (the hardware's choice behind lock_release).
LEMMA NextFacts ==
   ASSUME NEW c \in Core, NEW S \in SUBSET Core, S # {}
   PROVE  /\ NextInRotation(c, S) \in S
          /\ \A e \in S : Distance(c, NextInRotation(c, S)) <= Distance(c, e)
<1>1. \A d \in Core : Distance(c, d) \in Nat
  BY DistanceFacts, CoresAssumption DEF Core
<1> DEFINE D == {Distance(c, d) : d \in S}
<1>2. D \subseteq Nat /\ D # {}
  BY <1>1
<1>3. PICK x \in D : \A y \in D : x <= y
  BY <1>2, SmallestElement
<1>4. PICK d \in S : x = Distance(c, d)
  BY <1>3
<1>5. \A e \in S : Distance(c, d) <= Distance(c, e)
  BY <1>3, <1>4
<1> QED
  BY <1>5 DEF NextInRotation

(***************************************************************************)
(* The inductive invariant                                                 *)
(***************************************************************************)
\* The owner is the core that got the lock last, and it is past its acquire.
OwnerInv == /\ owner # Null => last = owner /\ pc[owner] = "critical"
            /\ owner # Null => allocated

\* While only owners release, nobody else is past its acquire.
CriticalInv == ~abused => \A c \in Core : pc[c] = "critical" => owner = c

\* Each time the lock passes over a waiting core, it comes nearer to it in
\* rotation: the distance that is left bounds how often it still can.
BypassInv == \A c \in Core :
                IF pc[c] = "acquire"
                THEN c # last /\ bypass[c] + Distance(last, c) <= N - 2
                ELSE bypass[c] = 0

IInv == TypeOK /\ NoLostWaiter /\ OwnerInv /\ CriticalInv /\ BypassInv

\* The invariant holds while no core has asked for the lock.
LEMMA InitInv == Init => IInv
<1>1. 0 \in Core /\ 0 \in 0 .. N - 1
  BY CoresAssumption DEF Core
<1>2. Init => TypeOK
  BY <1>1 DEF Init, TypeOK
<1>3. Init => NoLostWaiter /\ OwnerInv /\ CriticalInv /\ BypassInv
  BY DEF Init, NoLostWaiter, Waiting, OwnerInv, CriticalInv, BypassInv
<1> QED
  BY <1>2, <1>3 DEF IInv

\* Giving the lock to core d, which comes before all waiting cores in rotation,
\* preserves the invariant.  The caller has put the core that releases in the
\* state "idle".
LEMMA GrantInv ==
   ASSUME IInv, NEW d \in Core, NEW base \in [Core -> {"idle", "acquire", "critical"}],
          Grant(d, base), allocated, allocated' = allocated, abused' \in BOOLEAN,
          \A c \in Core : base[c] = "acquire" <=> pc[c] = "acquire",
          \A e \in Waiting : Distance(last, d) <= Distance(last, e),
          d \in Waiting \/ Waiting = {},
          ~abused' => \A c \in Core : base[c] # "critical"
   PROVE  IInv'
<1>1. /\ owner' = d /\ last' = d /\ pc' = [base EXCEPT ![d] = "critical"]
      /\ d # Null /\ last \in Core
      /\ bypass' = [e \in Core |-> IF e \in Waiting \ {d} THEN bypass[e] + 1 ELSE 0]
  BY CoresAssumption DEF Grant, Core, IInv, TypeOK
<1>2. pc' \in [Core -> {"idle", "acquire", "critical"}]
  BY <1>1
<1>3. NoLostWaiter' /\ OwnerInv'
  BY <1>1 DEF NoLostWaiter, OwnerInv
<1>4. CriticalInv'
  BY <1>1 DEF CriticalInv
<1>5. ASSUME NEW c \in Core
      PROVE  /\ bypass'[c] \in 0 .. N - 1
             /\ IF pc'[c] = "acquire"
                THEN c # last' /\ bypass'[c] + Distance(last', c) <= N - 2
                ELSE bypass'[c] = 0
  <2>1. CASE c \in Waiting \ {d}
    <3>1. /\ pc[c] = "acquire" /\ c # d /\ bypass[c] \in Nat
          /\ bypass'[c] = bypass[c] + 1 /\ pc'[c] = "acquire"
      BY <1>1, <2>1 DEF Waiting, IInv, TypeOK
    <3>2. bypass[c] + Distance(last, c) <= N - 2 /\ c # last
      BY <3>1 DEF IInv, BypassInv
    <3>3. d \in Waiting /\ d # last /\ Distance(last, d) <= Distance(last, c)
      BY <2>1 DEF Waiting, IInv, BypassInv
    <3>4. /\ Distance(last, c) = IF c > last THEN c - last - 1 ELSE c + N - last - 1
          /\ Distance(last, d) = IF d > last THEN d - last - 1 ELSE d + N - last - 1
          /\ Distance(d, c) = IF c > d THEN c - d - 1 ELSE c + N - d - 1
      BY <1>1, DistanceFacts
    <3>5. Distance(d, c) + 1 <= Distance(last, c)
      BY <1>1, <3>1, <3>2, <3>3, <3>4, CoresAssumption DEF Core
    <3>6. Distance(d, c) \in Nat /\ Distance(last, c) \in Nat
      BY <1>1, <3>4, CoresAssumption DEF Core
    <3>7. bypass'[c] + Distance(d, c) <= N - 2
      BY <3>1, <3>2, <3>5, <3>6, CoresAssumption
    <3> QED
      BY <1>1, <3>1, <3>6, <3>7, CoresAssumption
  <2>2. CASE c \notin Waiting \ {d}
    <3>1. bypass'[c] = 0 /\ pc'[c] # "acquire"
      BY <1>1, <2>2 DEF Waiting
    <3> QED
      BY <3>1, CoresAssumption
  <2> QED
    BY <2>1, <2>2
<1>6. BypassInv'
  BY <1>5 DEF BypassInv
<1>7. TypeOK'
  BY <1>1, <1>2, <1>5 DEF TypeOK, IInv
<1> QED
  BY <1>3, <1>4, <1>6, <1>7 DEF IInv

\* lock_alloc and lock_free.
LEMMA AllocFreeInv == ASSUME IInv, lock_alloc \/ lock_free PROVE IInv'
<1> USE DEF IInv
<1>1. TypeOK'
  BY DEF lock_alloc, lock_free, TypeOK
<1>2. NoLostWaiter' /\ OwnerInv' /\ CriticalInv' /\ BypassInv'
  BY DEF lock_alloc, lock_free, NoLostWaiter, Waiting, OwnerInv, CriticalInv, BypassInv
<1> QED
  BY <1>1, <1>2

\* A core that acquires a free lock gets it, and any other waits.
LEMMA AcquireInv == ASSUME IInv, NEW c \in Core, lock_acquire(c) PROVE IInv'
<1>1. /\ allocated /\ pc[c] = "idle" /\ allocated' = allocated /\ abused' = abused
      /\ pc \in [Core -> {"idle", "acquire", "critical"}] /\ abused \in BOOLEAN
  BY DEF lock_acquire, IInv, TypeOK
<1>2. CASE owner = Null /\ Grant(c, pc)
  <2>1. Waiting = {} /\ (~abused => \A e \in Core : pc[e] # "critical")
    BY <1>2, CoresAssumption DEF IInv, NoLostWaiter, CriticalInv, Core
  <2> QED
    BY <1>1, <1>2, <2>1, GrantInv
<1>3. CASE /\ owner # Null
           /\ pc' = [pc EXCEPT ![c] = "acquire"]
           /\ UNCHANGED <<owner, last, bypass>>
  <2>1. TypeOK'
    BY <1>1, <1>3 DEF IInv, TypeOK
  <2>2. NoLostWaiter' /\ OwnerInv' /\ CriticalInv'
    BY <1>1, <1>3 DEF IInv, NoLostWaiter, OwnerInv, CriticalInv, TypeOK
  <2>3. c # last /\ bypass[c] = 0 /\ last \in Core
    BY <1>1, <1>3 DEF IInv, OwnerInv, BypassInv, TypeOK
  <2>4. Distance(last, c) <= N - 2
    BY <2>3, DistanceFacts, CoresAssumption DEF Core
  <2>5. Distance(last, c) \in Int
    BY <2>3, DistanceFacts, CoresAssumption DEF Core
  <2>6. BypassInv'
    <3>1. bypass'[c] + Distance(last', c) <= N - 2 /\ c # last' /\ pc'[c] = "acquire"
      BY <1>1, <1>3, <2>3, <2>4, <2>5, CoresAssumption
    <3>2. \A e \in Core : e # c => pc'[e] = pc[e]
      BY <1>1, <1>3
    <3> QED
      BY <1>3, <3>1, <3>2 DEF IInv, BypassInv
  <2> QED
    BY <2>1, <2>2, <2>6 DEF IInv
<1> QED
  BY <1>2, <1>3 DEF lock_acquire

\* A release hands the lock to the next waiting core, or frees it if there is
\* none, whether or not the core that releases is the owner.
LEMMA ReleaseInv == ASSUME IInv, NEW c \in Core, lock_release(c) PROVE IInv'
<1> DEFINE base == [pc EXCEPT ![c] = "idle"]
<1>1. /\ allocated /\ pc[c] # "acquire" /\ allocated' = allocated
      /\ abused' = (abused \/ pc[c] # "critical") /\ HandOver(base)
      /\ pc \in [Core -> {"idle", "acquire", "critical"}] /\ abused \in BOOLEAN
      /\ last \in Core /\ Waiting \in SUBSET Core
  BY DEF lock_release, IInv, TypeOK, Waiting
<1>2. /\ base \in [Core -> {"idle", "acquire", "critical"}]
      /\ abused' \in BOOLEAN
      /\ \A e \in Core : base[e] = "acquire" <=> pc[e] = "acquire"
  BY <1>1
<1>3. ~abused' => \A e \in Core : base[e] # "critical"
  BY <1>1 DEF IInv, CriticalInv
<1>4. CASE Waiting # {} /\ Grant(NextInRotation(last, Waiting), base)
  <2>1. /\ NextInRotation(last, Waiting) \in Waiting
        /\ \A e \in Waiting : Distance(last, NextInRotation(last, Waiting)) <= Distance(last, e)
    BY <1>1, <1>4, NextFacts
  <2> HIDE DEF base
  <2> QED
    BY <1>1, <1>2, <1>3, <1>4, <2>1, GrantInv
<1>5. CASE /\ Waiting = {} /\ owner' = Null /\ pc' = base
           /\ UNCHANGED <<last, bypass>>
  <2>1. TypeOK'
    BY <1>1, <1>2, <1>5 DEF IInv, TypeOK
  <2>2. NoLostWaiter' /\ OwnerInv' /\ CriticalInv'
    BY <1>1, <1>2, <1>3, <1>5 DEF NoLostWaiter, Waiting, OwnerInv, CriticalInv
  <2>3. BypassInv'
    BY <1>1, <1>2, <1>5 DEF IInv, BypassInv, Waiting
  <2> QED
    BY <2>1, <2>2, <2>3 DEF IInv
<1> QED
  BY <1>1, <1>4, <1>5 DEF HandOver

\* Every instruction of acquire and release keeps it.
LEMMA NextInv == IInv /\ [Next]_vars => IInv'
<1> SUFFICES ASSUME IInv, [Next]_vars PROVE IInv'
  OBVIOUS
<1>1. CASE lock_alloc \/ lock_free
  BY <1>1, AllocFreeInv
<1>2. ASSUME NEW c \in Core, lock_acquire(c) PROVE IInv'
  BY <1>2, AcquireInv
<1>3. ASSUME NEW c \in Core, lock_release(c) PROVE IInv'
  BY <1>3, ReleaseInv
<1>4. CASE UNCHANGED vars
  BY <1>4 DEF vars, IInv, TypeOK, NoLostWaiter, Waiting, OwnerInv, CriticalInv, BypassInv
<1> QED
  BY <1>1, <1>2, <1>3, <1>4 DEF Next

(***************************************************************************)
(* Theorems                                                                *)
(***************************************************************************)
\* At most one core is past its acquire while only owners release; then no
\* lock is freed in use; and no core waits for a lock that is free.
THEOREM LockInvariant == Spec => []Inv
<1>1. IInv => MutualExclusion
  <2> SUFFICES ASSUME IInv, ~abused
               PROVE  Cardinality({c \in Core : pc[c] = "critical"}) <= 1
    BY DEF MutualExclusion
  <2> DEFINE C == {c \in Core : pc[c] = "critical"}
  <2>1. C \in SUBSET {owner}
    BY DEF IInv, CriticalInv
  <2>2. IsFiniteSet({owner}) /\ Cardinality({owner}) = 1
    BY FS_Singleton
  <2>3. Cardinality(C) <= Cardinality({owner})
    BY <2>1, <2>2, FS_Subset
  <2> QED
    BY <2>2, <2>3
<1>2. IInv => FreedUnused
  <2> SUFFICES ASSUME IInv, ~abused, ~allocated, NEW c \in Core
               PROVE  pc[c] = "idle"
    BY DEF FreedUnused
  <2>1. owner = Null
    BY DEF IInv, OwnerInv
  <2>2. pc[c] # "critical" /\ c \notin Waiting
    BY <2>1, CoresAssumption DEF IInv, CriticalInv, NoLostWaiter, Core
  <2> QED
    BY <2>2 DEF Waiting, IInv, TypeOK
<1>3. IInv => Inv
  BY <1>1, <1>2 DEF IInv, Inv
<1> QED
  BY <1>3, InitInv, NextInv, PTL DEF Spec

\* Each core other than the owner overtakes a waiting core at most once, and
\* the owner not at all, however many cores share the lock.
THEOREM RoundRobinHolds == Spec => []RoundRobin
<1>1. IInv => RoundRobin
  <2> SUFFICES ASSUME IInv, NEW c \in Waiting PROVE bypass[c] <= N - 2
    BY DEF RoundRobin
  <2>1. /\ c \in Core /\ last \in Core /\ bypass[c] \in Nat
        /\ bypass[c] + Distance(last, c) <= N - 2
    BY DEF Waiting, IInv, TypeOK, BypassInv
  <2>2. Distance(last, c) \in Nat
    BY <2>1, DistanceFacts, CoresAssumption DEF Core
  <2> QED
    BY <2>1, <2>2, CoresAssumption
<1> QED
  BY <1>1, InitInv, NextInv, PTL DEF Spec
=============================================================================
