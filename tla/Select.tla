------------------------------- MODULE Select -------------------------------
(***************************************************************************)
(* Select events on one logical core: xcore_c_select.h, xcore_c_select.S   *)
(* and the trigger calls the resources share (xcore_c_resource_impl.h).    *)
(*                                                                         *)
(* The hardware takes the event of a resource that is ready and enabled    *)
(* while the core's EEBLE bit is set: it clears EEBLE and jumps to the     *)
(* vector of the resource, forgetting where the core was.  Vectors are     *)
(* _select_non_callback (mode "select"), which returns from the select_*   *)
(* function, or the body of a select callback (mode "callback").  What is  *)
(* set up on a resource for either is its own id, which the event leaves   *)
(* in register ED.                                                         *)
(***************************************************************************)
EXTENDS Naturals, Sequences, SequencesExt

CONSTANTS Resources,  \* chan-ends, ports and timers the core owns
          Callbacks,  \* the resources it may set up with a callback
          NoWaitId,   \* the id it passes to the select_no_wait functions
          None        \* no value returned yet

ASSUME ResourcesAssumption == /\ IsFiniteSet(Resources)
                              /\ {NoWaitId, None} \cap Resources = {}

VARIABLES mode,     \* mode[r]: the vector set up on r; "none" before any setup
          enabled,  \* the resources whose trigger is enabled (eeu, edu, clre)
          ready,    \* the resources with an event to take
          eeble,    \* the core takes events (setsr 1, waiteu / clrsr 1)
          pc,       \* where the core is, see TypeOK
          fn,       \* the select_* function it called last
          list,     \* the ids[] it passed
          pos,      \* index into list
          ed,       \* register ED, or the callback's argument: whose event this is
          ret,      \* what that function returned
          due       \* select resources it could return when it was called

setup == <<mode, enabled, ready>>
frame == <<fn, list, due>>
vars == <<mode, enabled, ready, eeble, pc, fn, list, pos, ed, ret, due>>

Ordered == {"select_wait_ordered", "select_no_wait_ordered"}
NoWait == {"select_no_wait", "select_no_wait_ordered"}

\* ids[] arguments: resources that have been set up, none of them twice.
Lists == {s \in SeqOf(Resources, Cardinality(Resources)) :
             /\ IsInjective(s)
             /\ \A i \in DOMAIN s : mode[s[i]] # "none"}

TypeOK == /\ mode \in [Resources -> {"none", "select", "callback"}]
          /\ enabled \subseteq Resources
          /\ ready \subseteq Resources
          /\ eeble \in BOOLEAN
          \* "poll": between setsr and clrsr; "list": in the enabling loop;
          \* "wait": paused in waiteu; "select": at _select_non_callback
          /\ pc \in {"user", "poll", "list", "wait", "select", "callback"}
          /\ fn \in Ordered \cup {"select_wait", "select_no_wait", None}
          /\ list \in Lists
          /\ pos \in 1 .. Cardinality(Resources) + 1
          /\ ed \in Resources \cup {None}
          /\ ret \in Resources \cup {NoWaitId, None}
          /\ due \subseteq Resources

Init == /\ mode = [r \in Resources |-> "none"]
        /\ enabled = {} /\ ready = {} /\ due = {}
        /\ eeble = FALSE /\ pc = "user"
        /\ fn = None /\ list = << >> /\ pos = 1 /\ ed = None /\ ret = None

(***************************************************************************)
(* The environment and the hardware                                        *)
(***************************************************************************)
\* A token, a port condition or a time arrives; it stays until it is read.
Arrive(r) == /\ r \notin ready
             /\ ready' = ready \cup {r}
             /\ UNCHANGED <<mode, enabled, eeble, pc, fn, list, pos, ed, ret, due>>

Takeable == IF eeble THEN enabled \cap ready ELSE {}

TakeSelectEvent(r) ==
   /\ r \in Takeable /\ mode[r] = "select"
   /\ eeble' = FALSE /\ pc' = "select" /\ ed' = r
   /\ UNCHANGED <<setup, frame, pos, ret>>

TakeCallbackEvent(r) ==
   /\ r \in Takeable /\ mode[r] = "callback"
   /\ eeble' = FALSE /\ pc' = "callback" /\ ed' = r
   /\ UNCHANGED <<setup, frame, pos, ret>>

\* _select_non_callback: get ed, and return it.
ReturnEventId == /\ pc = "select"
                 /\ ret' = ed /\ ed' = None /\ pc' = "user"
                 /\ UNCHANGED <<setup, eeble, frame, pos>>

\* An instruction is issued only when there is no event to take first.
Issue(at) == pc = at /\ Takeable = {}

(***************************************************************************)
(* Calls that configure the triggers                                       *)
(***************************************************************************)
Configure == /\ pc = "user"
             /\ UNCHANGED <<eeble, pc, fn, list, pos, ed, ret, due>>

setup_select(r) == /\ Configure
                   /\ mode' = [mode EXCEPT ![r] = "select"]
                   /\ UNCHANGED <<enabled, ready>>

setup_select_callback(r) == /\ Configure /\ r \in Callbacks
                            /\ mode' = [mode EXCEPT ![r] = "callback"]
                            /\ UNCHANGED <<enabled, ready>>

enable_trigger(r) == /\ Configure /\ mode[r] # "none"
                     /\ enabled' = enabled \cup {r}
                     /\ UNCHANGED <<mode, ready>>

disable_trigger(r) == /\ Configure
                      /\ enabled' = enabled \ {r}
                      /\ UNCHANGED <<mode, ready>>

select_disable_trigger_all == /\ Configure
                              /\ enabled' = {}
                              /\ UNCHANGED <<mode, ready>>

\* Reading the value clears the event.
Read(r) == /\ Configure /\ r \in ready
           /\ ready' = ready \ {r}
           /\ UNCHANGED <<mode, enabled>>

(***************************************************************************)
(* The select functions                                                    *)
(***************************************************************************)
Selectable(S) == {r \in S \cap ready : mode[r] = "select"}

Call(f, ids) == /\ pc = "user"
                /\ fn' = f /\ list' = ids /\ pos' = 1
                /\ eeble' = TRUE /\ ret' = None
                /\ UNCHANGED <<mode, ready, ed>>

select_wait == /\ Call("select_wait", << >>)
               /\ pc' = "wait"
               /\ due' = Selectable(enabled)
               /\ UNCHANGED enabled

select_no_wait == /\ Call("select_no_wait", << >>)
                  /\ pc' = "poll"
                  /\ due' = Selectable(enabled)
                  /\ UNCHANGED enabled

\* Mutant: the function does not start with clre.
select_orderedNoClre(f, ids) == /\ Call(f, ids)
                                /\ pc' = "list"
                                /\ due' = Selectable(Range(ids))
                                /\ UNCHANGED enabled

\* Both ordered functions start with clre.
select_ordered(f, ids) == /\ Call(f, ids)
                          /\ pc' = "list"
                          /\ due' = Selectable(Range(ids))
                          /\ enabled' = {}

\* One turn of the enabling loop (ldw, eeu).
EnableNext == /\ Issue("list") /\ pos <= Len(list)
              /\ enabled' = enabled \cup {list[pos]}
              /\ pos' = pos + 1
              /\ UNCHANGED <<mode, ready, eeble, pc, frame, ed, ret>>

\* The null at the end of ids[] (bf), then waiteu.
EndOfListWait == /\ Issue("list") /\ pos > Len(list) /\ fn \notin NoWait
                 /\ pc' = "wait"
                 /\ UNCHANGED <<setup, eeble, frame, pos, ed, ret>>

\* Mutants: no clrsr before the return; clrsr before an event can be taken.
ReturnNoWaitIdNoClrsr == /\ \/ Issue("poll")
                            \/ Issue("list") /\ pos > Len(list) /\ fn \in NoWait
                         /\ pc' = "user" /\ ret' = NoWaitId
                         /\ UNCHANGED <<setup, frame, pos, ed, eeble>>
ReturnNoWaitIdTooSoon == /\ \/ pc = "poll"
                            \/ Issue("list") /\ pos > Len(list) /\ fn \in NoWait
                         /\ eeble' = FALSE /\ pc' = "user" /\ ret' = NoWaitId
                         /\ UNCHANGED <<setup, frame, pos, ed>>

\* No event was taken: clrsr, and return no_wait_id.
ReturnNoWaitId == /\ \/ Issue("poll")
                     \/ Issue("list") /\ pos > Len(list) /\ fn \in NoWait
                  /\ eeble' = FALSE /\ pc' = "user" /\ ret' = NoWaitId
                  /\ UNCHANGED <<setup, frame, pos, ed>>

\* Mutant: after a callback the core pauses with its events disabled.
CallbackReturnsDisabled ==
   /\ pc = "callback"
   /\ ready' \in {ready, ready \ {ed}}
   /\ enabled' \in {enabled, enabled \ {ed}}
   /\ pc' = "wait" /\ ed' = None
   /\ UNCHANGED <<mode, frame, pos, ret, eeble>>

\* The callback may read the value and may disable its own trigger; then
\* _xcore_c_select_callback_common ends in waiteu, whatever function the
\* event interrupted.
CallbackReturns ==
   /\ pc = "callback"
   /\ ready' \in {ready, ready \ {ed}}
   /\ enabled' \in {enabled, enabled \ {ed}}
   /\ eeble' = TRUE /\ pc' = "wait" /\ ed' = None
   /\ UNCHANGED <<mode, frame, pos, ret>>

Hardware == \E r \in Resources : TakeSelectEvent(r) \/ TakeCallbackEvent(r)
Function == EnableNext \/ EndOfListWait \/ ReturnNoWaitId \/ ReturnEventId
User == \/ \E r \in Resources : \/ setup_select(r)
                                \/ setup_select_callback(r)
                                \/ enable_trigger(r)
                                \/ disable_trigger(r)
                                \/ Read(r)
        \/ select_disable_trigger_all
        \/ select_wait
        \/ select_no_wait
        \/ \E f \in Ordered, ids \in Lists : select_ordered(f, ids)

Next == \/ \E r \in Resources : Arrive(r)
        \/ Hardware \/ Function \/ CallbackReturns \/ User

Spec == Init /\ [][Next]_vars

\* The core runs, an event that can be taken is, and callbacks return.
FairSpec == Spec /\ WF_vars(Hardware) /\ WF_vars(Function) /\ WF_vars(CallbackReturns)

(***************************************************************************)
(* Properties                                                              *)
(***************************************************************************)
\* Events are taken only inside a select function: whichever way it returns,
\* and while a callback runs, EEBLE is clear, so that no event can jump out
\* of the user's code.
EventsOnlyInSelect == eeble <=> pc \notin {"user", "select", "callback"}

\* Every variable has its type, and events are taken in select functions only.
Inv == TypeOK /\ EventsOnlyInSelect

\* no_wait_id is returned only if no select event was there to be returned
\* when the function was called.
NoWaitIdHonest == (pc = "user" /\ ret = NoWaitId) => due = {}

\* An ordered select returns a resource of its list, and none that was ready
\* at the call comes before it in the list.
OrderRespected ==
   (pc = "user" /\ fn \in Ordered /\ ret \in Resources) =>
      \E i \in DOMAIN list : /\ list[i] = ret
                             /\ \A j \in 1 .. i - 1 : list[j] \notin due

\* select_wait returns once a select event is there, if the callbacks do not
\* keep the core to themselves for ever.
CallbackDue == \E r \in enabled \cap ready : mode[r] = "callback"
WaitReturns ==
   <>[](pc \notin {"callback"} /\ ~CallbackDue) =>
      ((fn = "select_wait" /\ pc # "user" /\ Selectable(enabled) # {}) ~> pc = "user")

\* "If no events are ready then returns the no_wait_id" and "select_callback_t
\* events are handled, but are not considered 'select events'": a no_wait
\* function never pauses.  (It does, once it has taken a callback event.)
NoWaitNeverPauses == pc = "wait" => fn \notin NoWait
=============================================================================
