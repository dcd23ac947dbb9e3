------------------------------- MODULE Lock -------------------------------
(***************************************************************************)
(* The hardware lock of xcore_c_lock.h, shared by the cores of a tile.  A  *)
(* core that inputs from a lock somebody owns is paused; an output hands   *)
(* the lock to the next paused core, in rotation.  Nothing checks that the *)
(* core that outputs is the owner.                                         *)
(***************************************************************************)
EXTENDS Naturals, FiniteSets

CONSTANTS N,    \* the cores are numbered 0 .. N - 1
          Null  \* no owner

ASSUME CoresAssumption == N \in Nat \ {0} /\ Null \notin 0 .. N - 1

VARIABLES allocated,  \* the lock is allocated
          owner,      \* the core the hardware gave it to
          last,       \* the core that owned it last
          pc,         \* "idle", paused in "acquire", or "critical" after it
          bypass,     \* bypass[c]: times the lock went to others while c waits
          abused      \* a core released the lock without having acquired it

vars == <<allocated, owner, last, pc, bypass, abused>>

Core == 0 .. N - 1
Waiting == {c \in Core : pc[c] = "acquire"}

TypeOK == /\ allocated \in BOOLEAN
          /\ owner \in Core \cup {Null}
          /\ last \in Core
          /\ pc \in [Core -> {"idle", "acquire", "critical"}]
          /\ bypass \in [Core -> 0 .. N - 1]
          /\ abused \in BOOLEAN

Init == /\ allocated = FALSE /\ owner = Null /\ last = 0
        /\ pc = [c \in Core |-> "idle"]
        /\ bypass = [c \in Core |-> 0]
        /\ abused = FALSE

lock_alloc == /\ ~allocated /\ allocated' = TRUE
              /\ UNCHANGED <<owner, last, pc, bypass, abused>>

\* Mutant: the lock is freed whether or not it has been released.
lock_freeHeld == /\ allocated
                 /\ allocated' = FALSE /\ owner' = Null
                 /\ UNCHANGED <<last, pc, bypass, abused>>

\* freer traps unless the lock is free; the trap changes nothing.
lock_free == /\ allocated /\ owner = Null
             /\ allocated' = FALSE
             /\ UNCHANGED <<owner, last, pc, bypass, abused>>

\* The first core of S in rotation after core c.
Distance(c, d) == (d + N - c - 1) % N
\* Mutant: the lock goes to the lowest numbered core that waits.
LowestNumbered(c, S) == CHOOSE d \in S : \A e \in S : d <= e

NextInRotation(c, S) == CHOOSE d \in S : \A e \in S : Distance(c, d) <= Distance(c, e)

\* Core d gets the lock; base is pc but for that.
Grant(d, base) ==
   /\ owner' = d /\ last' = d
   /\ pc' = [base EXCEPT ![d] = "critical"]
   /\ bypass' = [e \in Core |-> IF e \in Waiting \ {d} THEN bypass[e] + 1 ELSE 0]

\* in res[l]: takes a free lock, otherwise pauses.
lock_acquire(c) ==
   /\ allocated /\ pc[c] = "idle"
   /\ \/ owner = Null /\ Grant(c, pc)
      \/ /\ owner # Null
         /\ pc' = [pc EXCEPT ![c] = "acquire"]
         /\ UNCHANGED <<owner, last, bypass>>
   /\ UNCHANGED <<allocated, abused>>

\* Mutant: the release frees the lock and leaves the waiting cores paused.
HandOverToNobody(base) == owner' = Null /\ pc' = base /\ UNCHANGED <<last, bypass>>

\* out res[l]: hands the lock over, or frees it when no core waits.
HandOver(base) == \/ Waiting # {} /\ Grant(NextInRotation(last, Waiting), base)
                  \/ /\ Waiting = {}
                     /\ owner' = Null /\ pc' = base
                     /\ UNCHANGED <<last, bypass>>

lock_release(c) == /\ allocated /\ pc[c] # "acquire"
                   /\ abused' = (abused \/ pc[c] # "critical")
                   /\ HandOver([pc EXCEPT ![c] = "idle"])
                   /\ UNCHANGED allocated

Next == \/ lock_alloc \/ lock_free
        \/ \E c \in Core : lock_acquire(c) \/ lock_release(c)

Spec == Init /\ [][Next]_vars

\* A core that acquired the lock releases it, sooner or later.
FairSpec == Spec /\ \A c \in Core : WF_vars(pc[c] = "critical" /\ lock_release(c))

(***************************************************************************)
(* Properties                                                              *)
(***************************************************************************)
\* "Only one core at a time can acquire a lock", while only owners release it.
MutualExclusion == ~abused => Cardinality({c \in Core : pc[c] = "critical"}) <= 1

\* Nor is a lock then freed under a core that holds it or waits for it.
FreedUnused == ~abused /\ ~allocated => \A c \in Core : pc[c] = "idle"

\* A release wakes a waiting core if there is one, whoever releases and
\* however acquire, release and free interleave: no core is left paused on a
\* lock that is free, or that another task may allocate.
NoLostWaiter == owner = Null => Waiting = {}

\* The lock excludes, is not freed in use, and forgets no core that waits.
Inv == TypeOK /\ MutualExclusion /\ FreedUnused /\ NoLostWaiter

\* "allocates the next owner from the list of waiting cores in round-robin
\* manner": each other core but the owner overtakes a waiting core at most
\* once, and the owner not at all.
RoundRobin == \A c \in Waiting : bypass[c] <= N - 2

\* A core that waits for the lock gets it, even after an abuse.
AcquireReturns == \A c \in Core : pc[c] = "acquire" ~> pc[c] = "critical"
=============================================================================
