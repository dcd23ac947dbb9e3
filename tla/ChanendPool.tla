----------------------------- MODULE ChanendPool -----------------------------
(***************************************************************************)
(* Allocation, use and deallocation of streaming and handshaken channels   *)
(* (xcore_c_chanend.h, xcore_c_channel_streaming.h, chan_alloc and         *)
(* chan_free) by tasks that share the chan-ends of a tile, one instruction *)
(* at a time.  A trap ends the call it happens in, which then returns      *)
(* ET_ILLEGAL_RESOURCE; what the call did before the trap stays done.      *)
(***************************************************************************)
EXTENDS Naturals, Sequences, FiniteSets

CONSTANTS Tasks,
          Chanends,  \* the chan-ends of the tile
          Null,      \* the handle value 0
          Cap        \* tokens a chan-end buffers

ASSUME PoolAssumption == Null \notin Chanends /\ Cap \in Nat \ {0}

VARIABLES careful,  \* the tasks complete their traffic before they free
          pool,   \* the chan-ends that are not allocated
          q,      \* q[c]: tokens in the input buffer of c
          open,   \* the chan-ends whose last output was not an END
          dest,   \* dest[c]: destination of c
          h,      \* h[t]: the (streaming_)channel_t of task t
          pc,     \* pc[t]: the next instruction of t's call; "idle" between calls
          res     \* res[t]: result of t's last call

vars == <<careful, pool, q, open, dest, h, pc, res>>

Tok == {"data", "END"}
Field == {"end_a", "end_b"}
OtherField(f) == IF f = "end_a" THEN "end_b" ELSE "end_a"
NoChannel == [f \in Field |-> Null]
Label == {"idle", "getr b", "undo", "setd a", "setd b",
          "outct a", "outct b", "chkct a", "chkct b", "freer a", "freer b"}

TypeOK == /\ careful \in BOOLEAN /\ pool \subseteq Chanends
          /\ q \in [Chanends -> Seq(Tok)] /\ \A c \in Chanends : Len(q[c]) <= Cap
          /\ open \subseteq Chanends
          /\ dest \in [Chanends -> Chanends \cup {Null}]
          /\ h \in [Tasks -> [Field -> Chanends \cup {Null}]]
          /\ pc \in [Tasks -> Label]
          /\ res \in [Tasks -> {"error_none", "ET_ILLEGAL_RESOURCE"}]

Init == /\ careful \in BOOLEAN /\ pool = Chanends
        /\ q = [c \in Chanends |-> << >>] /\ open = {}
        /\ dest = [c \in Chanends |-> Null]
        /\ h = [t \in Tasks |-> NoChannel]
        /\ pc = [t \in Tasks |-> "idle"]
        /\ res = [t \in Tasks |-> "error_none"]

(***************************************************************************)
(* Instructions                                                            *)
(***************************************************************************)
Goto(t, l) == pc' = [pc EXCEPT ![t] = l]
Set(t, f, c) == h' = [h EXCEPT ![t][f] = c]

GetR(t, f) == \E c \in pool : pool' = pool \ {c} /\ Set(t, f, c)

\* freer needs an allocated chan-end with no input pending and no open output.
Freeable(c) == c \in Chanends \ pool /\ q[c] = << >> /\ c \notin open
FreeR(t, f) == /\ Freeable(h[t][f])
               /\ pool' = pool \cup {h[t][f]}
               /\ dest' = [dest EXCEPT ![h[t][f]] = Null]
               /\ Set(t, f, Null)

OutTok(c, k) == /\ c # Null /\ Len(q[dest[c]]) < Cap
                /\ q' = [q EXCEPT ![dest[c]] = Append(@, k)]
                /\ open' = IF k = "END" THEN open \ {c} ELSE open \cup {c}

TakeTok(c, k) == /\ c # Null /\ q[c] # << >> /\ Head(q[c]) = k
                 /\ q' = [q EXCEPT ![c] = Tail(@)]
                 /\ UNCHANGED open
WrongTok(c, k) == c # Null /\ q[c] # << >> /\ Head(q[c]) # k

Result(t, r) == res' = [res EXCEPT ![t] = r]
Trap(t) == /\ Goto(t, "idle") /\ Result(t, "ET_ILLEGAL_RESOURCE")
           /\ UNCHANGED <<pool, q, open, dest, h>>

(***************************************************************************)
(* s_chan_alloc and chan_alloc                                             *)
(***************************************************************************)
AllocFirst(t) == /\ pc[t] = "idle" /\ h[t] = NoChannel
                 /\ Result(t, "error_none")
                 /\ \/ pool = {} /\ UNCHANGED <<pool, h, pc>>
                    \/ GetR(t, "end_a") /\ Goto(t, "getr b")
                 /\ UNCHANGED <<q, open, dest>>

AllocSecond(t) == /\ pc[t] = "getr b"
                  /\ \/ pool = {} /\ Goto(t, "undo") /\ UNCHANGED <<pool, h>>
                     \/ GetR(t, "end_b") /\ Goto(t, "setd a")
                  /\ UNCHANGED <<q, open, dest, res>>

\* Mutant: the first chan-end is kept.
UndoKeeps(t) == /\ pc[t] = "undo" /\ Goto(t, "idle")
                /\ UNCHANGED <<pool, q, open, dest, h, res>>

\* There was no second chan-end: the first is freed.
Undo(t) == /\ pc[t] = "undo" /\ FreeR(t, "end_a") /\ Goto(t, "idle")
           /\ UNCHANGED <<q, open, res>>

SetDest(t, f, g, at, next) ==
   /\ pc[t] = at /\ Goto(t, next)
   /\ dest' = [dest EXCEPT ![h[t][f]] = h[t][g]]
   /\ UNCHANGED <<pool, q, open, h, res>>

s_chan_alloc(t) == \/ AllocFirst(t) \/ AllocSecond(t) \/ Undo(t)
                   \/ SetDest(t, "end_a", "end_b", "setd a", "setd b")
                   \/ SetDest(t, "end_b", "end_a", "setd b", "idle")

(***************************************************************************)
(* s_chan_free and chan_free                                               *)
(***************************************************************************)
\* Both ends of t's channel are allocated.
Joined(t) == \A f \in Field : h[t][f] # Null
Quiet(t) == \A f \in Field : q[h[t][f]] = << >> /\ h[t][f] \notin open
MayFree(t) == h[t] # NoChannel /\ (careful => Joined(t) /\ Quiet(t))

\* Mutants: each end checks for an END before one is sent to it; one end is
\* freed before the other has output its END.
OrderChecksFirst == <<"chkct a", "outct a", "chkct b", "outct b", "freer a", "freer b">>
OrderTooSoon == <<"outct a", "chkct b", "freer a", "outct b", "freer b">>

\* The instructions of s_chan_free.
Order == <<"outct a", "outct b", "chkct a", "chkct b", "freer a", "freer b">>

GotoNext(t) == LET i == CHOOSE i \in DOMAIN Order : Order[i] = pc[t]
               IN  Goto(t, IF i = Len(Order) THEN "idle" ELSE Order[i + 1])

FreeOut(t, f) == \/ /\ OutTok(h[t][f], "END") /\ GotoNext(t)
                    /\ UNCHANGED <<pool, dest, h, res>>
                 \/ h[t][f] = Null /\ Trap(t)
FreeCheck(t, f) == \/ /\ TakeTok(h[t][f], "END") /\ GotoNext(t)
                      /\ UNCHANGED <<pool, dest, h, res>>
                   \/ (h[t][f] = Null \/ WrongTok(h[t][f], "END")) /\ Trap(t)
FreeEnd(t, f) == \/ FreeR(t, f) /\ GotoNext(t) /\ UNCHANGED <<q, open, res>>
                 \/ ~Freeable(h[t][f]) /\ Trap(t)

FreeNextInstruction(t) == \/ pc[t] = "outct a" /\ FreeOut(t, "end_a")
                          \/ pc[t] = "outct b" /\ FreeOut(t, "end_b")
                          \/ pc[t] = "chkct a" /\ FreeCheck(t, "end_a")
                          \/ pc[t] = "chkct b" /\ FreeCheck(t, "end_b")
                          \/ pc[t] = "freer a" /\ FreeEnd(t, "end_a")
                          \/ pc[t] = "freer b" /\ FreeEnd(t, "end_b")

FreeFrom(t, l) == /\ pc[t] = "idle" /\ MayFree(t)
                  /\ Goto(t, l) /\ Result(t, "error_none")
                  /\ UNCHANGED <<pool, q, open, dest, h>>

s_chan_free(t) == FreeFrom(t, Order[1]) \/ FreeNextInstruction(t)

\* chan_free only frees the two ends: the calls on them have left no token.
chan_free(t) == FreeFrom(t, "freer a") \/ FreeNextInstruction(t)

(***************************************************************************)
(* Traffic on the two ends, which the tasks hand to other cores.  A core   *)
(* that inputs a token of the wrong kind traps; that changes nothing here. *)
(* Nothing in the code keeps a user from an end that a failed s_chan_free  *)
(* left half freed: that it is not used (Joined) is assumed.               *)
(***************************************************************************)
s_chan_out(t, f, k) == /\ pc[t] = "idle" /\ Joined(t)
                       /\ OutTok(h[t][f], k)
                       /\ UNCHANGED <<pool, dest, h, pc, res>>

s_chan_in(t, f, k) == /\ pc[t] = "idle" /\ Joined(t)
                      /\ TakeTok(h[t][f], k)
                      /\ UNCHANGED <<pool, dest, h, pc, res>>

Traffic(t) == \E f \in Field, k \in Tok : s_chan_out(t, f, k) \/ s_chan_in(t, f, k)
Step(t) == \/ s_chan_alloc(t) /\ UNCHANGED careful
           \/ s_chan_free(t) /\ UNCHANGED careful
           \/ chan_free(t) /\ UNCHANGED careful

Next == \E t \in Tasks : Step(t) \/ (Traffic(t) /\ UNCHANGED careful)

Spec == Init /\ [][Next]_vars

\* A call that has begun goes on whenever its next instruction can issue.
FairSpec == Spec /\ \A t \in Tasks : WF_vars(pc[t] # "idle" /\ Step(t))

(***************************************************************************)
(* Properties                                                              *)
(***************************************************************************)
\* No chan-end leaks and none is shared: whatever fails, and however the calls
\* of the tasks interleave, an allocated chan-end is named by exactly one
\* field of one task, and a free one by none.
NamedBy(c) == {x \in Tasks \X Field : h[x[1]][x[2]] = c}
NamedOnce == \A c \in Chanends : Cardinality(NamedBy(c)) = IF c \in pool THEN 0 ELSE 1

\* A call never leaves half a channel behind unless it reports an error: after
\* error_none the two fields are both set, and joined to each other, or both 0.
WholeOrReported ==
   \A t \in Tasks : pc[t] = "idle" /\ res[t] = "error_none" =>
      \/ h[t] = NoChannel
      \/ Joined(t) /\ \A f \in Field : dest[h[t][f]] = h[t][OtherField(f)]

\* A chan-end goes back to the pool empty, so that a task that allocates it
\* next never reads tokens of the channel it belonged to before.
RecycledClean == \A c \in pool : q[c] = << >> /\ c \notin open

\* Allocating and freeing channels whose traffic is complete never fails.
FreeSucceeds == careful => \A t \in Tasks : res[t] = "error_none"

\* Chan-ends are neither lost, shared nor recycled with tokens in them.
Inv == TypeOK /\ NamedOnce /\ RecycledClean /\ FreeSucceeds

\* And it always returns: s_chan_free never waits for a token that does not
\* come, nor for room in a buffer.
CarefulCallsReturn == \A t \in Tasks : careful /\ pc[t] # "idle" ~> pc[t] = "idle"

\* "ET_ILLEGAL_RESOURCE ... or an input/output is pending": any call returns,
\* if only with an exception.  (s_chan_free outputs before it checks, and
\* pauses for ever when a buffer is full.)
CallsReturn == \A t \in Tasks : pc[t] # "idle" ~> pc[t] = "idle"
=============================================================================
