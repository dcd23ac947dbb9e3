--------------------------- MODULE InterruptProofs ---------------------------
(***************************************************************************)
(* Theorems about Select.tla and Interrupt.tla, for every set of resources *)
(* and of callbacks.                                                       *)
(***************************************************************************)
EXTENDS Interrupt, FiniteSetTheorems, TLAPS

(***************************************************************************)
(* The lists of the ordered select functions                               *)
(***************************************************************************)
\* A list of a select function is a sequence of set-up resources, at most as
\* long as there are resources, and the empty list is one.
LEMMA ListFacts ==
   /\ Cardinality(Resources) \in Nat
   /\ << >> \in Lists
   /\ \A s \in Lists : /\ s \in Seq(Resources)
                       /\ Len(s) \in 0 .. Cardinality(Resources)
                       /\ DOMAIN s = 1 .. Len(s)
                       /\ \A i \in 1 .. Len(s) : s[i] \in Resources
<1>1. Cardinality(Resources) \in Nat
  BY ResourcesAssumption, FS_CardinalityType
<1>2. << >> \in Lists
  <2>1. << >> \in [1 .. 0 -> Resources]
    OBVIOUS
  <2>2. << >> \in SeqOf(Resources, Cardinality(Resources))
    BY <1>1, <2>1 DEF SeqOf
  <2>3. IsInjective(<< >>) /\ \A i \in DOMAIN << >> : mode[<< >>[i]] # "none"
    BY DEF IsInjective
  <2> QED
    BY <2>2, <2>3 DEF Lists
<1>3. ASSUME NEW s \in Lists
      PROVE  /\ s \in Seq(Resources)
             /\ Len(s) \in 0 .. Cardinality(Resources)
             /\ DOMAIN s = 1 .. Len(s)
             /\ \A i \in 1 .. Len(s) : s[i] \in Resources
  <2>1. PICK m \in 0 .. Cardinality(Resources) : s \in [1 .. m -> Resources]
    BY <1>3 DEF Lists, SeqOf
  <2>2. m \in Nat
    BY <1>1, <2>1
  <2>3. s \in Seq(Resources) /\ Len(s) = m
    BY <2>1, <2>2
  <2> QED
    BY <2>1, <2>2, <2>3
<1> QED
  BY <1>1, <1>2, <1>3

\* A list stays one when a resource is set up again.
LEMMA ListsGrow ==
   ASSUME \A r \in Resources : mode[r] # "none" => mode'[r] # "none"
   PROVE  Lists \subseteq Lists'
<1> SUFFICES ASSUME NEW s \in Lists PROVE s \in Lists'
  OBVIOUS
<1>1. /\ s \in SeqOf(Resources, Cardinality(Resources)) /\ IsInjective(s)
      /\ \A i \in DOMAIN s : mode[s[i]] # "none"
  BY DEF Lists
<1>2. \A i \in DOMAIN s : s[i] \in Resources
  BY ListFacts
<1> QED
  BY <1>1, <1>2 DEF Lists

(***************************************************************************)
(* Select: the inductive invariant                                         *)
(***************************************************************************)
\* While a select function runs, the select events it could have returned when
\* it was called still can be: no callback reads another resource.
DueInv == pc # "user" => \A r \in due : r \in ready /\ mode[r] = "select"

\* select_no_wait leaves the enabled triggers alone until it returns.
PollInv == pc = "poll" => fn \notin Ordered /\ due \subseteq enabled

\* The enabling loop has come to pos: the triggers before it are enabled, and
\* no resource before the last of them had an event to take.
Enabled(n) == {list[i] : i \in 1 .. n}
LoopInv == /\ pc = "list" => /\ fn \in Ordered /\ due \subseteq Enabled(Len(list))
                             /\ enabled = Enabled(pos - 1)
           /\ pc # "user" /\ fn \in Ordered =>
                /\ pos <= Len(list) + 1
                /\ enabled \subseteq Enabled(pos - 1)
                /\ \A j \in 1 .. pos - 2 : list[j] \notin due

\* The resource whose event was taken is enabled; an ordered select can return
\* it: no resource before it in the list was ready.
FirstReady(r) == \E i \in 1 .. Len(list) : /\ list[i] = r
                                           /\ \A j \in 1 .. i - 1 : list[j] \notin due
EventInv == /\ pc = "select" => ed \in Resources
            /\ pc = "select" /\ fn \in Ordered => FirstReady(ed)
            /\ pc = "callback" => ed \in Resources /\ mode[ed] = "callback"

SelectInv == /\ TypeOK /\ EventsOnlyInSelect /\ DueInv /\ PollInv /\ LoopInv /\ EventInv
             /\ NoWaitIdHonest /\ OrderRespected

\* The initial states of Select satisfy its invariant.
LEMMA SelectInit == Init => SelectInv
<1> SUFFICES ASSUME Init PROVE SelectInv
  OBVIOUS
<1>1. TypeOK
  <2>1. << >> \in Lists /\ 1 \in 1 .. Cardinality(Resources) + 1
    BY ListFacts
  <2> QED
    BY <2>1 DEF Init, TypeOK
<1> QED
  BY <1>1, ResourcesAssumption DEF Init, SelectInv, EventsOnlyInSelect, DueInv, PollInv,
     LoopInv, EventInv, NoWaitIdHonest, OrderRespected, Ordered

\* An event arrives.
LEMMA ArriveInv == ASSUME SelectInv, NEW r \in Resources, Arrive(r) PROVE SelectInv'
<1> USE DEF Arrive, SelectInv
<1>1. Lists' = Lists
  BY DEF Lists
<1>2. TypeOK'
  BY <1>1 DEF TypeOK
<1>3. EventsOnlyInSelect' /\ DueInv' /\ PollInv' /\ NoWaitIdHonest' /\ OrderRespected'
  BY DEF EventsOnlyInSelect, DueInv, PollInv, NoWaitIdHonest, OrderRespected
<1>4. LoopInv' /\ EventInv'
  BY DEF LoopInv, Enabled, EventInv, FirstReady
<1> QED
  BY <1>2, <1>3, <1>4

\* The hardware takes an event, of the first ready resource of an ordered list.
LEMMA HardwareInv ==
   ASSUME SelectInv, NEW r \in Resources, TakeSelectEvent(r) \/ TakeCallbackEvent(r)
   PROVE  SelectInv'
<1>0. /\ eeble = TRUE /\ r \in enabled \cap ready /\ eeble' = FALSE /\ ed' = r
      /\ pc' = IF mode[r] = "select" THEN "select" ELSE "callback"
      /\ UNCHANGED <<setup, frame, pos, ret>>
      /\ pc # "user"
  BY DEF TakeSelectEvent, TakeCallbackEvent, Takeable, SelectInv, EventsOnlyInSelect, TypeOK
<1> USE <1>0 DEF SelectInv, setup, frame
<1>1. Lists' = Lists
  BY DEF Lists
<1>2. TypeOK'
  BY <1>1 DEF TypeOK
<1>3. EventsOnlyInSelect' /\ DueInv' /\ PollInv' /\ NoWaitIdHonest' /\ OrderRespected'
  BY DEF EventsOnlyInSelect, DueInv, PollInv, NoWaitIdHonest, OrderRespected
<1>4. LoopInv'
  BY DEF LoopInv, Enabled
<1>5. EventInv'
  <2> SUFFICES ASSUME fn \in Ordered PROVE FirstReady(r)
    BY DEF EventInv, FirstReady, TakeSelectEvent, TakeCallbackEvent
  <2>1. r \in Enabled(pos - 1) /\ pos <= Len(list) + 1 /\ \A j \in 1 .. pos - 2 : list[j] \notin due
    BY DEF LoopInv
  <2>2. PICK i \in 1 .. pos - 1 : r = list[i]
    BY <2>1 DEF Enabled
  <2>3. pos \in Nat /\ Len(list) \in Nat
    BY ListFacts DEF TypeOK
  <2> QED
    BY <2>1, <2>2, <2>3 DEF FirstReady
<1> QED
  BY <1>2, <1>3, <1>4, <1>5

\* _select_non_callback returns the resource of the event.
LEMMA ReturnEventInv == ASSUME SelectInv, ReturnEventId PROVE SelectInv'
<1> USE DEF ReturnEventId, SelectInv, setup, frame
<1>1. Lists' = Lists
  BY DEF Lists
<1>2. TypeOK'
  BY <1>1 DEF TypeOK, EventInv
<1>3. EventsOnlyInSelect' /\ DueInv' /\ PollInv' /\ LoopInv' /\ EventInv'
  BY DEF EventsOnlyInSelect, DueInv, PollInv, LoopInv, EventInv
<1>4. NoWaitIdHonest'
  BY ResourcesAssumption DEF NoWaitIdHonest, EventInv
<1>5. OrderRespected'
  BY ListFacts DEF OrderRespected, EventInv, FirstReady, TypeOK
<1> QED
  BY <1>2, <1>3, <1>4, <1>5

\* The calls that configure triggers do not disturb what a select function
\* returned.
LEMMA ConfigureInv ==
   ASSUME SelectInv, Configure,
          enabled' \subseteq Resources, ready' \subseteq Resources,
          mode' \in [Resources -> {"none", "select", "callback"}],
          \A r \in Resources : mode[r] # "none" => mode'[r] # "none"
   PROVE  SelectInv'
<1> USE DEF Configure, SelectInv
<1>1. Lists \subseteq Lists'
  BY ListsGrow
<1>2. TypeOK'
  BY <1>1 DEF TypeOK
<1>3. EventsOnlyInSelect' /\ DueInv' /\ PollInv' /\ LoopInv' /\ EventInv'
  BY DEF EventsOnlyInSelect, DueInv, PollInv, LoopInv, EventInv
<1>4. NoWaitIdHonest' /\ OrderRespected'
  BY DEF NoWaitIdHonest, OrderRespected
<1> QED
  BY <1>2, <1>3, <1>4

\* A select function is called.
LEMMA CallInv ==
   ASSUME SelectInv, NEW f \in {"select_wait", "select_no_wait"} \cup Ordered,
          NEW ids \in Lists, Call(f, ids),
          \/ /\ f \notin Ordered /\ enabled' = enabled /\ due' = Selectable(enabled)
             /\ pc' = IF f = "select_wait" THEN "wait" ELSE "poll"
          \/ /\ f \in Ordered /\ enabled' = {} /\ due' = Selectable(Range(ids)) /\ pc' = "list"
   PROVE  SelectInv'
<1> USE DEF Call, SelectInv, Ordered
<1>1. Lists' = Lists
  BY DEF Lists
<1>2. /\ fn' = f /\ list' = ids /\ pos' = 1 /\ eeble' = TRUE /\ ret' = None /\ pc = "user"
      /\ mode' = mode /\ ready' = ready /\ ed' = ed
  OBVIOUS
<1>3. due' \subseteq Resources /\ \A r \in due' : r \in ready /\ mode[r] = "select"
  BY DEF Selectable, TypeOK
<1>4. TypeOK'
  BY <1>1, <1>2, <1>3, ListFacts DEF TypeOK
<1>5. EventsOnlyInSelect' /\ DueInv' /\ PollInv' /\ EventInv'
  BY <1>2, <1>3 DEF EventsOnlyInSelect, DueInv, PollInv, EventInv, Selectable
<1>6. LoopInv'
  <2>1. Len(ids) \in Nat /\ DOMAIN ids = 1 .. Len(ids)
    BY ListFacts
  <2>2. f \in Ordered => due' \subseteq {ids[i] : i \in 1 .. Len(ids)}
    BY <2>1 DEF Selectable, Range
  <2> QED
    BY <1>2, <2>1, <2>2 DEF LoopInv, Enabled
<1>7. NoWaitIdHonest' /\ OrderRespected'
  BY <1>2 DEF NoWaitIdHonest, OrderRespected
<1> QED
  BY <1>4, <1>5, <1>6, <1>7

\* The enabling loop turns: the triggers it had enabled have no event.
LEMMA EnableNextInv == ASSUME SelectInv, EnableNext PROVE SelectInv'
<1> USE DEF EnableNext, Issue, SelectInv, frame
<1>1. /\ Lists' = Lists /\ Len(list) \in 0 .. Cardinality(Resources) /\ list[pos] \in Resources
      /\ pos \in 1 .. Len(list) /\ Cardinality(Resources) \in Nat
  BY ListFacts DEF Lists, TypeOK
<1>2. TypeOK'
  BY <1>1 DEF TypeOK
<1>3. EventsOnlyInSelect' /\ DueInv' /\ PollInv' /\ EventInv' /\ NoWaitIdHonest' /\ OrderRespected'
  BY DEF EventsOnlyInSelect, DueInv, PollInv, EventInv, NoWaitIdHonest, OrderRespected
<1>4. LoopInv'
  <2>1. /\ fn \in Ordered /\ due \subseteq Enabled(Len(list)) /\ enabled = Enabled(pos - 1)
        /\ \A j \in 1 .. pos - 2 : list[j] \notin due
    BY DEF LoopInv
  <2>2. Enabled(pos) = Enabled(pos - 1) \cup {list[pos]}
    BY <1>1 DEF Enabled
  <2>3. enabled \cap ready = {}
    BY DEF Takeable, EventsOnlyInSelect, TypeOK
  <2>4. \A j \in 1 .. pos - 1 : list[j] \notin due
    BY <2>1, <2>3 DEF DueInv, Enabled
  <2>5. pos' = pos + 1 /\ list' = list /\ due' = due /\ enabled' = Enabled(pos)
    BY <2>1, <2>2
  <2> QED
    BY <1>1, <2>1, <2>4, <2>5 DEF LoopInv, Enabled
<1> QED
  BY <1>2, <1>3, <1>4

\* The enabling loop ends in waiteu.
LEMMA EndOfListInv == ASSUME SelectInv, EndOfListWait PROVE SelectInv'
<1> USE DEF EndOfListWait, Issue, SelectInv, setup, frame
<1>1. Lists' = Lists
  BY DEF Lists
<1>2. TypeOK'
  BY <1>1 DEF TypeOK
<1>3. EventsOnlyInSelect' /\ DueInv' /\ PollInv' /\ EventInv' /\ NoWaitIdHonest' /\ OrderRespected'
  BY DEF EventsOnlyInSelect, DueInv, PollInv, EventInv, NoWaitIdHonest, OrderRespected
<1>4. LoopInv'
  BY DEF LoopInv, Enabled
<1> QED
  BY <1>2, <1>3, <1>4

\* A select_no_wait function finds no event: all it may return was enabled.
LEMMA ReturnNoWaitInv == ASSUME SelectInv, ReturnNoWaitId PROVE SelectInv'
<1> USE DEF ReturnNoWaitId, Issue, SelectInv, setup, frame
<1>1. Lists' = Lists
  BY DEF Lists
<1>2. TypeOK'
  BY <1>1 DEF TypeOK
<1>3. EventsOnlyInSelect' /\ DueInv' /\ PollInv' /\ EventInv' /\ LoopInv'
  BY DEF EventsOnlyInSelect, DueInv, PollInv, EventInv, LoopInv
<1>4. OrderRespected'
  BY ResourcesAssumption DEF OrderRespected
<1>5. due = {}
  <2>1. enabled \cap ready = {} /\ due \subseteq ready
    BY DEF Takeable, EventsOnlyInSelect, DueInv, TypeOK
  <2>2. due \subseteq enabled
    <3>1. CASE pc = "poll"
      BY <3>1 DEF PollInv
    <3>2. CASE pc = "list" /\ pos > Len(list)
      <4>1. pos - 1 = Len(list)
        BY <3>2, ListFacts DEF LoopInv, TypeOK
      <4> QED
        BY <3>2, <4>1 DEF LoopInv
    <3> QED
      BY <3>1, <3>2
  <2> QED
    BY <2>1, <2>2
<1>6. NoWaitIdHonest'
  BY <1>5 DEF NoWaitIdHonest
<1> QED
  BY <1>2, <1>3, <1>4, <1>6

\* A callback reads its own resource only.
LEMMA CallbackInv == ASSUME SelectInv, CallbackReturns PROVE SelectInv'
<1> USE DEF CallbackReturns, SelectInv, frame
<1>1. Lists' = Lists
  BY DEF Lists
<1>2. TypeOK'
  BY <1>1 DEF TypeOK
<1>3. EventsOnlyInSelect' /\ PollInv' /\ EventInv' /\ NoWaitIdHonest' /\ OrderRespected'
  BY DEF EventsOnlyInSelect, PollInv, EventInv, NoWaitIdHonest, OrderRespected
<1>4. LoopInv'
  BY DEF LoopInv, Enabled
<1>5. DueInv'
  BY DEF DueInv, EventInv
<1> QED
  BY <1>2, <1>3, <1>4, <1>5

\* Every call of Select keeps it.
LEMMA SelectNext == SelectInv /\ [Next]_vars => SelectInv'
<1> SUFFICES ASSUME SelectInv, [Next]_vars PROVE SelectInv'
  OBVIOUS
<1>1. ASSUME NEW r \in Resources, Arrive(r) PROVE SelectInv'
  BY <1>1, ArriveInv
<1>2. CASE Hardware
  BY <1>2, HardwareInv DEF Hardware
<1>3. CASE Function
  BY <1>3, EnableNextInv, EndOfListInv, ReturnNoWaitInv, ReturnEventInv DEF Function
<1>4. CASE CallbackReturns
  BY <1>4, CallbackInv
<1>5. ASSUME NEW r \in Resources,
             \/ setup_select(r) \/ setup_select_callback(r)
             \/ enable_trigger(r) \/ disable_trigger(r) \/ Read(r)
      PROVE  SelectInv'
  <2>1. /\ Configure
        /\ enabled' \subseteq Resources /\ ready' \subseteq Resources
        /\ mode' \in [Resources -> {"none", "select", "callback"}]
        /\ \A s \in Resources : mode[s] # "none" => mode'[s] # "none"
    BY <1>5 DEF setup_select, setup_select_callback, enable_trigger, disable_trigger, Read,
       SelectInv, TypeOK
  <2> QED
    BY <2>1, ConfigureInv
<1>6. CASE select_disable_trigger_all
  <2>1. /\ Configure
        /\ enabled' \subseteq Resources /\ ready' \subseteq Resources
        /\ mode' \in [Resources -> {"none", "select", "callback"}]
        /\ \A s \in Resources : mode[s] # "none" => mode'[s] # "none"
    BY <1>6 DEF select_disable_trigger_all, SelectInv, TypeOK
  <2> QED
    BY <2>1, ConfigureInv
<1>7. CASE select_wait \/ select_no_wait
  BY <1>7, CallInv, ListFacts DEF select_wait, select_no_wait, Ordered
<1>8. ASSUME NEW f \in Ordered, NEW ids \in Lists, select_ordered(f, ids)
      PROVE  SelectInv'
  BY <1>8, CallInv DEF select_ordered
<1>9. CASE UNCHANGED vars
  <2>1. Lists' = Lists
    BY <1>9 DEF vars, Lists
  <2>2. TypeOK'
    BY <1>9, <2>1 DEF vars, SelectInv, TypeOK
  <2> QED
    BY <1>9, <2>2 DEF vars, SelectInv, EventsOnlyInSelect, DueInv, PollInv, LoopInv, Enabled,
       EventInv, FirstReady, NoWaitIdHonest, OrderRespected
<1> QED
  BY <1>1, <1>2, <1>3, <1>4, <1>5, <1>6, <1>7, <1>8, <1>9 DEF Next, User

(***************************************************************************)
(* Select: the theorems                                                    *)
(***************************************************************************)
\* Events are taken inside select functions only, and every variable has its
\* type.
THEOREM EventsInvariant == Spec => []Inv
<1>1. SelectInv => Inv
  BY DEF SelectInv, Inv
<1> QED
  BY <1>1, SelectInit, SelectNext, PTL DEF Spec

\* However many resources there are, no_wait_id is returned only if no select
\* event was there when the function was called.
THEOREM NoWaitIdIsHonest == Spec => []NoWaitIdHonest
<1>1. SelectInv => NoWaitIdHonest
  BY DEF SelectInv
<1> QED
  BY <1>1, SelectInit, SelectNext, PTL DEF Spec

\* However long the list, and whatever callbacks run in between, an ordered
\* select returns none after one that was ready at the call.
THEOREM OrderIsRespected == Spec => []OrderRespected
<1>1. SelectInv => OrderRespected
  BY DEF SelectInv
<1> QED
  BY <1>1, SelectInit, SelectNext, PTL DEF Spec

(***************************************************************************)
(* Interrupt: the inductive invariant                                      *)
(***************************************************************************)
\* Where the core is, or where it was interrupted.
Inside == IF InKernel THEN saved.pc ELSE pc
InsideEeble == IF InKernel THEN saved.eeble ELSE eeble
SelectPc == {"user", "poll", "list", "wait", "select", "callback"}

\* Kernel mode is entered from code that takes interrupts, with both enable
\* bits clear.
KernelInv == InKernel => /\ eeble = FALSE /\ ieble = FALSE /\ source \in IntResources
                         /\ saved.ieble = TRUE /\ saved.eeble \in BOOLEAN
                         /\ saved.pc \in SelectPc \cup {"setev", "setc"}

\* Interrupted or not, the user's code takes no events.
EebleInv == InsideEeble = IF Inside \in {"poll", "list", "wait"} THEN TRUE ELSE FALSE

\* The vector and the data of a resource are of one set-up, but for the one
\* that is being set up between the two instructions; if that one can
\* interrupt, interrupts are masked.
PairInv == /\ \A i \in IntResources :
                 vector[i] = data[i] \/ (Inside = "setev" /\ setting = i)
           /\ ~rash /\ Inside = "setev" /\ setting \in armed => pc = "setev" /\ ~ieble

\* What the interrupt leaves in ED and the stub in r0 is that data.
ArgumentInv == /\ InKernel /\ ~rash => vector[source] = data[source]
               /\ pc = "stub" => ed = data[source]
               /\ pc = "handler" => arg = data[source]

StrongInv == IInv /\ KernelInv /\ EebleInv /\ PairInv /\ ArgumentInv /\ MaskHonoured

\* The initial states of Interrupt satisfy the strengthened invariant.
LEMMA InterruptInit == IInit => StrongInv
<1> USE DEF IInit, Init, StrongInv
<1>1. IInit => ITypeOK
  BY DEF ITypeOK
<1>2. IInit => OneFrame /\ KernelInv /\ EebleInv
  BY DEF OneFrame, KernelInv, EebleInv, InKernel, Inside, InsideEeble
<1>3. IInit => PairInv /\ ArgumentInv /\ MaskHonoured
  BY DEF PairInv, ArgumentInv, InKernel, MaskHonoured
<1> QED
  BY <1>1, <1>2, <1>3 DEF IInv

\* A step of Select is the arrival of an event, or the core is not in kernel
\* mode nor setting up an interrupt, and stays so.
LEMMA SelectStep ==
   ASSUME StrongInv, Next
   PROVE  \/ \E r \in Resources : Arrive(r)
          \/ /\ pc \in SelectPc /\ pc' \in SelectPc
             /\ eeble' = IF pc' \in {"poll", "list", "wait"} THEN TRUE ELSE FALSE
<1> DEFINE Goal == /\ pc \in SelectPc /\ pc' \in SelectPc
                   /\ eeble' = IF pc' \in {"poll", "list", "wait"} THEN TRUE ELSE FALSE
<1>1. eeble = IF pc \in {"poll", "list", "wait"} THEN TRUE ELSE FALSE
  BY DEF StrongInv, KernelInv, EebleInv, InKernel, Inside, InsideEeble
<1>2. CASE Hardware
  BY <1>1, <1>2 DEF Hardware, TakeSelectEvent, TakeCallbackEvent, Takeable, SelectPc
<1>3. CASE Function
  BY <1>1, <1>3 DEF Function, EnableNext, EndOfListWait, ReturnNoWaitId, ReturnEventId, Issue,
     setup, SelectPc
<1>4. CASE CallbackReturns
  BY <1>4 DEF CallbackReturns, SelectPc
<1>5. ASSUME Configure PROVE Goal
  BY <1>1, <1>5 DEF Configure, SelectPc
<1>6. ASSUME NEW f, NEW ids, Call(f, ids), pc' \in {"poll", "list", "wait"} PROVE Goal
  BY <1>6 DEF Call, SelectPc
<1>7. CASE User
  <2>1. Configure \/ \E f, ids : Call(f, ids) /\ pc' \in {"poll", "list", "wait"}
    BY <1>7 DEF User, setup_select, setup_select_callback, enable_trigger, disable_trigger,
       Read, select_disable_trigger_all, select_wait, select_no_wait, select_ordered
  <2> QED
    BY <1>5, <1>6, <2>1
<1> QED
  BY <1>2, <1>3, <1>4, <1>7 DEF Next

\* It leaves the interrupts alone.
LEMMA SelectStepInv == ASSUME StrongInv, Next, UNCHANGED ivars PROVE StrongInv'
<1> USE DEF ivars, sources, handling, history
<1>1. CASE \E r \in Resources : Arrive(r)
  BY <1>1 DEF Arrive, StrongInv, IInv, ITypeOK, OneFrame, KernelInv, EebleInv, InKernel,
     Inside, InsideEeble, PairInv, ArgumentInv, MaskHonoured
<1>2. CASE /\ pc \in SelectPc /\ pc' \in SelectPc
           /\ eeble' = IF pc' \in {"poll", "list", "wait"} THEN TRUE ELSE FALSE
  <2>1. ~InKernel /\ ~InKernel' /\ pc # "setev" /\ pc' # "setev"
    BY <1>2 DEF InKernel, SelectPc
  <2>2. IInv' /\ KernelInv'
    BY <1>2, <2>1 DEF StrongInv, IInv, ITypeOK, OneFrame, KernelInv, SelectPc
  <2>3. EebleInv' /\ PairInv'
    BY <1>2, <2>1 DEF StrongInv, EebleInv, PairInv, Inside, InsideEeble
  <2>4. ArgumentInv' /\ MaskHonoured'
    BY <1>2, <2>1 DEF StrongInv, ArgumentInv, MaskHonoured, SelectPc
  <2> QED
    BY <1>2, <2>2, <2>3, <2>4 DEF StrongInv
<1> QED
  BY <1>1, <1>2, SelectStep

\* The calls of interrupt_mask_all and interrupt_unmask_all.
LEMMA MaskInv == ASSUME StrongInv, interrupt_mask_all \/ interrupt_unmask_all PROVE StrongInv'
<1> USE DEF StrongInv, interrupt_mask_all, interrupt_unmask_all, vars, sources, handling, setup, frame
<1>1. ~InKernel /\ ~InKernel' /\ pc \notin {"setev", "stub", "handler"} /\ pc' = pc
  BY DEF InKernel
<1>2. IInv' /\ KernelInv'
  BY <1>1 DEF IInv, ITypeOK, OneFrame, KernelInv
<1>3. EebleInv' /\ PairInv'
  BY <1>1 DEF EebleInv, PairInv, Inside, InsideEeble
<1>4. ArgumentInv' /\ MaskHonoured'
  BY <1>1 DEF ArgumentInv, MaskHonoured
<1> QED
  BY <1>2, <1>3, <1>4

\* The instructions of a set-up: between the first two, the vector and the data
\* of the resource may differ.
LEMMA SetupInv ==
   ASSUME StrongInv,
          \/ \E i \in IntResources, h \in Handlers : setup_interrupt_callback(i, h)
          \/ SetData \/ SetType
   PROVE  StrongInv'
<1> USE DEF StrongInv, setup_interrupt_callback, SetData, SetType, Goto, sources, handling,
        history, setup, frame
<1>1. /\ ~InKernel /\ ~InKernel'
      /\ pc' = IF pc = "user" THEN "setev" ELSE IF pc = "setev" THEN "setc" ELSE "user"
      /\ pc \in {"user", "setev", "setc"}
  BY DEF InKernel
<1>2. IInv'
  BY <1>1 DEF IInv, ITypeOK, OneFrame
<1>3. KernelInv' /\ EebleInv'
  BY <1>1 DEF KernelInv, EebleInv, Inside, InsideEeble
<1>4. PairInv'
  BY <1>1 DEF PairInv, Inside, IInv, ITypeOK
<1>5. ArgumentInv' /\ MaskHonoured'
  BY <1>1 DEF ArgumentInv, MaskHonoured
<1> QED
  BY <1>2, <1>3, <1>4, <1>5

\* Triggers are enabled and disabled, and interrupts arrive.
LEMMA TriggerInv ==
   ASSUME StrongInv, NEW i \in IntResources, Trigger(i) \/ ArriveInterrupt(i)
   PROVE  StrongInv'
<1> USE DEF StrongInv, Trigger, ArriveInterrupt, handling, history, vars, setup, frame
<1>1. /\ pc' = pc /\ (InKernel <=> InKernel') /\ Inside' = Inside /\ InsideEeble' = InsideEeble
      /\ armed' \subseteq IntResources /\ pending' \subseteq IntResources
      /\ pc = "user" \/ armed' = armed
  BY DEF InKernel, Inside, InsideEeble, IInv, ITypeOK
<1>2. IInv' /\ KernelInv'
  BY <1>1 DEF IInv, ITypeOK, OneFrame, KernelInv
<1>3. EebleInv' /\ ArgumentInv' /\ MaskHonoured'
  BY <1>1 DEF EebleInv, ArgumentInv, MaskHonoured
<1>4. PairInv'
  BY <1>1 DEF PairInv, InKernel, Inside
<1> QED
  BY <1>2, <1>3, <1>4

\* An interrupt is taken: it is of a resource that is not being set up, unless
\* the user was rash.
LEMMA TakeInv ==
   ASSUME StrongInv, NEW i \in IntResources, TakeInterrupt(i)
   PROVE  StrongInv' /\ ~InKernel
<1> USE DEF StrongInv, TakeInterrupt, setup, frame, sources, history
<1>1. ~InKernel /\ InKernel' /\ pc' = "stub" /\ ieble = TRUE /\ pc \notin {"stub", "handler"}
  BY DEF InKernel, KernelInv, IInv, ITypeOK
<1>2. /\ saved'.pc = pc /\ saved'.eeble = eeble /\ saved'.ieble = TRUE
      /\ Inside' = Inside /\ InsideEeble' = InsideEeble
  BY <1>1 DEF Inside, InsideEeble
<1>3. IInv'
  BY <1>1, <1>2 DEF IInv, ITypeOK, OneFrame
<1>4. KernelInv' /\ EebleInv'
  BY <1>1, <1>2 DEF KernelInv, EebleInv, Inside, InsideEeble, IInv, ITypeOK, SelectPc
<1>5. PairInv' /\ ArgumentInv'
  BY <1>1, <1>2 DEF PairInv, ArgumentInv
<1>6. MaskHonoured'
  BY <1>1 DEF MaskHonoured
<1> QED
  BY <1>1, <1>3, <1>4, <1>5, <1>6

\* The stub gets the data and calls the function.
LEMMA EnterInv == ASSUME StrongInv, EnterHandler PROVE StrongInv'
<1> USE DEF StrongInv, EnterHandler, Goto, setup, frame, sources, history
<1>1. InKernel /\ InKernel' /\ Inside' = Inside /\ InsideEeble' = InsideEeble
  BY DEF InKernel, Inside, InsideEeble
<1>2. data[source] \in Handlers \cup {None}
  BY <1>1 DEF KernelInv, IInv, ITypeOK
<1>3. IInv' /\ KernelInv'
  BY <1>1, <1>2 DEF IInv, ITypeOK, OneFrame, KernelInv, ArgumentInv
<1>4. EebleInv' /\ PairInv' /\ ArgumentInv' /\ MaskHonoured'
  BY <1>1 DEF EebleInv, PairInv, ArgumentInv, MaskHonoured
<1> QED
  BY <1>3, <1>4

\* kret returns to the interrupted instruction, with the registers the stub
\* stacked as they were.
LEMMA InterruptReturnsInv ==
   ASSUME StrongInv, InterruptReturns
   PROVE  /\ StrongInv' /\ InKernel /\ ~InKernel'
          /\ pc' = saved.pc /\ eeble' = saved.eeble /\ ed' = saved.ed
          /\ UNCHANGED <<setup, frame, pos, ret>>
<1>1. /\ pc = "handler" /\ InKernel /\ source \in IntResources
      /\ saved.pc \in SelectPc \cup {"setev", "setc"} /\ saved.ieble = TRUE
  BY DEF StrongInv, InterruptReturns, InKernel, KernelInv
<1>2. /\ pc' = saved.pc /\ eeble' = saved.eeble /\ ieble' = TRUE /\ ed' = saved.ed
      /\ pos' = pos /\ list' = list /\ setting' = setting
      /\ saved' = NotSaved /\ source' = None /\ arg' = None
      /\ armed' \subseteq armed /\ pending' \subseteq pending
      /\ UNCHANGED <<setup, fn, due, ret, vector, data, history>>
  BY <1>1 DEF InterruptReturns, Restored, Stacked
<1>3. /\ pc' \notin {"stub", "handler"} /\ ~InKernel'
      /\ Inside' = Inside /\ InsideEeble' = InsideEeble
  BY <1>1, <1>2 DEF InKernel, SelectPc, Inside, InsideEeble
<1>4. ITypeOK'
  BY <1>1, <1>2 DEF StrongInv, IInv, ITypeOK, SelectPc, history
<1>5. OneFrame' /\ KernelInv'
  BY <1>2, <1>3 DEF OneFrame, KernelInv
<1>6. EebleInv'
  BY <1>3 DEF StrongInv, EebleInv
<1>7. ArgumentInv' /\ MaskHonoured'
  BY <1>1, <1>2, <1>3 DEF StrongInv, IInv, ITypeOK, ArgumentInv, MaskHonoured, history
<1>8. PairInv'
  <2>1. rash \/ Inside # "setev" \/ setting \notin armed
    BY <1>1 DEF StrongInv, PairInv
  <2>2. \A i \in IntResources : vector[i] = data[i] \/ (Inside = "setev" /\ setting = i)
    BY DEF StrongInv, PairInv
  <2> QED
    BY <1>2, <1>3, <2>1, <2>2 DEF PairInv, history
<1> QED
  BY <1>1, <1>2, <1>3, <1>4, <1>5, <1>6, <1>7, <1>8 DEF StrongInv, IInv, frame

\* Every call, and the taking of and the return from an interrupt, keep it.
LEMMA InterruptNext == StrongInv /\ [INext]_allvars => StrongInv'
<1> SUFFICES ASSUME StrongInv, [INext]_allvars PROVE StrongInv'
  OBVIOUS
<1>1. CASE Next /\ UNCHANGED ivars
  BY <1>1, SelectStepInv
<1>2. CASE InterruptCalls
  <2>1. CASE interrupt_mask_all \/ interrupt_unmask_all
    BY <2>1, MaskInv
  <2>2. CASE \/ \E i \in IntResources, h \in Handlers : setup_interrupt_callback(i, h)
             \/ SetData \/ SetType
    BY <2>2, SetupInv
  <2>3. CASE \E i \in IntResources : Trigger(i)
    BY <2>3, TriggerInv
  <2> QED
    BY <1>2, <2>1, <2>2, <2>3 DEF InterruptCalls
<1>3. CASE \E i \in IntResources : ArriveInterrupt(i)
  BY <1>3, TriggerInv
<1>4. CASE Interrupted
  BY <1>4, TakeInv DEF Interrupted
<1>5. CASE Handling
  BY <1>5, EnterInv, InterruptReturnsInv DEF Handling
<1>6. CASE UNCHANGED allvars
  BY ZenonT(60), <1>6 DEF allvars, vars, ivars, sources, handling, history, setup, frame, StrongInv,
     IInv, ITypeOK, OneFrame, KernelInv, EebleInv, InKernel, Inside, InsideEeble, PairInv,
     ArgumentInv, MaskHonoured
<1> QED
  BY <1>1, <1>2, <1>3, <1>4, <1>5, <1>6 DEF INext

(***************************************************************************)
(* Interrupt: the theorems                                                 *)
(***************************************************************************)
LEMMA InterruptStrong == ISpec => []StrongInv
BY InterruptInit, InterruptNext, PTL DEF ISpec

\* The variables that interrupts add have their types, and at most one frame is on the kernel stack.
THEOREM OneFrameOnTheKernelStack == ISpec => []IInv
<1>1. StrongInv => IInv
  BY DEF StrongInv
<1> QED
  BY <1>1, InterruptStrong, PTL

\* However many resources interrupt, the mask is as the user's last call left
\* it whenever no interrupt is handled, and none is while it is set.
THEOREM MaskIsHonoured == ISpec => []MaskHonoured
<1>1. StrongInv => MaskHonoured
  BY DEF StrongInv
<1> QED
  BY <1>1, InterruptStrong, PTL

\* A function is run with the data it was set up with, unless its resource was
\* set up again while it could interrupt.
THEOREM VectorAndDataArePaired == ISpec => []PairedData
<1>1. StrongInv => PairedData
  BY DEF StrongInv, ArgumentInv, PairedData, InKernel
<1> QED
  BY <1>1, InterruptStrong, PTL

(***************************************************************************)
(* Interrupt: the core it interrupts is that of Select                     *)
(***************************************************************************)
InsideEd == IF InKernel THEN saved.ed ELSE ed

\* The event lists of the abstract specification are those of Select.
LEMMA SameLists == U!Lists = Lists
<1>1. U!Cardinality(Resources) = Cardinality(Resources)
  BY DEF U!Cardinality, Cardinality
<1>2. \A n \in Nat : U!SeqOf(Resources, n) = SeqOf(Resources, n)
  BY DEF U!SeqOf, SeqOf
<1>3. Cardinality(Resources) \in Nat
  BY ListFacts
<1> QED
  BY <1>1, <1>2, <1>3 DEF U!Lists, Lists, U!IsInjective, IsInjective

\* An interrupted core is where it was interrupted.
LEMMA InterruptedInit == IInit => U!Init
BY DEF IInit, Init, U!Init, InKernel, At

\* Nothing that Select says of changes while the core does other things.
LEMMA InterruptStutters ==
   ASSUME At(Inside)' = At(Inside), InsideEeble' = InsideEeble, InsideEd' = InsideEd,
          UNCHANGED <<mode, enabled, ready, fn, list, due, pos, ret>>
   PROVE  UNCHANGED U!vars
BY DEF Inside, InsideEeble, InsideEd, U!vars

\* A step of Select is one of the interrupted core.
LEMMA SelectStepIsU == ASSUME StrongInv, Next, UNCHANGED ivars PROVE U!Next
<1>0. saved' = saved /\ U!Lists = Lists
  BY SameLists DEF ivars, handling
<1>1. ASSUME NEW r \in Resources, Arrive(r) PROVE U!Next
  <2>1. U!Arrive(r)
    BY <1>0, <1>1 DEF Arrive, U!Arrive, InKernel, At
  <2> QED
    BY <2>1 DEF U!Next
<1>2. CASE pc \in SelectPc /\ pc' \in SelectPc
  <2>1. /\ ~InKernel /\ ~InKernel'
        /\ At(IF InKernel THEN saved.pc ELSE pc) = pc
        /\ (At(IF InKernel THEN saved.pc ELSE pc))' = pc'
    BY <1>2 DEF InKernel, SelectPc, At
  <2>2. CASE Hardware
    BY <2>1, <2>2 DEF Hardware, TakeSelectEvent, TakeCallbackEvent, Takeable, setup, frame,
       U!Hardware, U!TakeSelectEvent, U!TakeCallbackEvent, U!Takeable, U!setup, U!frame, U!Next
  <2>3. CASE Function
    BY <2>1, <2>3 DEF Function, EnableNext, EndOfListWait, ReturnNoWaitId, ReturnEventId, Issue,
       Takeable, NoWait, setup, frame, U!Function, U!EnableNext, U!EndOfListWait,
       U!ReturnNoWaitId, U!ReturnEventId, U!Issue, U!Takeable, U!NoWait, U!setup, U!frame, U!Next
  <2>4. CASE CallbackReturns
    BY <2>1, <2>4 DEF CallbackReturns, U!CallbackReturns, frame, U!frame, U!Next
  <2>5. ASSUME NEW r \in Resources,
               \/ setup_select(r) \/ setup_select_callback(r)
               \/ enable_trigger(r) \/ disable_trigger(r) \/ Read(r)
        PROVE  U!User
    BY <2>1, <2>5 DEF setup_select, setup_select_callback, enable_trigger, disable_trigger, Read,
       Configure, U!setup_select, U!setup_select_callback, U!enable_trigger,
       U!disable_trigger, U!Read, U!Configure, U!User
  <2>6. CASE select_disable_trigger_all \/ select_wait \/ select_no_wait
    BY <2>1, <2>6 DEF select_disable_trigger_all, select_wait, select_no_wait, Configure, Call,
       Selectable, U!select_disable_trigger_all, U!select_wait, U!select_no_wait, U!Configure,
       U!Call, U!Selectable, U!User, U!Next
  <2>7. ASSUME NEW f \in Ordered, NEW ids \in Lists, select_ordered(f, ids) PROVE U!User
    <3>1. f \in U!Ordered /\ ids \in U!Lists
      BY <1>0 DEF Ordered, U!Ordered
    <3>2. U!select_ordered(f, ids)
      BY <2>1, <2>7 DEF select_ordered, Call, Selectable, U!select_ordered, U!Call, U!Selectable,
         Range, U!Range
    <3> QED
      BY <3>1, <3>2 DEF U!User
  <2>8. User => U!Next
    BY <2>5, <2>6, <2>7 DEF User, U!Next
  <2> QED
    BY <1>1, <2>2, <2>3, <2>4, <2>8 DEF Next
<1> QED
  BY <1>1, <1>2, SelectStep

\* A user's call that masks interrupts or sets one up is a stutter.
LEMMA InterruptCallIsU == ASSUME StrongInv, InterruptCalls PROVE UNCHANGED U!vars
<1> USE DEF vars, setup, frame, Goto
<1>1. ASSUME UNCHANGED <<vars, handling>> PROVE UNCHANGED U!vars
  BY <1>1, InterruptStutters DEF handling, Inside, InsideEeble, InsideEd, InKernel, At
<1>2. ASSUME NEW from, NEW to, Goto(from, to), UNCHANGED handling,
             from \in {"user", "setev", "setc"}, to \in {"user", "setev", "setc"}
      PROVE  UNCHANGED U!vars
  BY <1>2, InterruptStutters DEF handling, Inside, InsideEeble, InsideEd, InKernel, At
<1>3. CASE interrupt_mask_all \/ interrupt_unmask_all
  BY <1>1, <1>3 DEF interrupt_mask_all, interrupt_unmask_all
<1>4. ASSUME NEW i \in IntResources, NEW h \in Handlers, setup_interrupt_callback(i, h)
      PROVE  UNCHANGED U!vars
  <2>1. Goto("user", "setev") /\ UNCHANGED handling
    BY <1>4 DEF setup_interrupt_callback
  <2> QED
    BY <1>2, <2>1
<1>5. ASSUME NEW i \in IntResources, Trigger(i) PROVE UNCHANGED U!vars
  BY <1>1, <1>5 DEF Trigger
<1>6. CASE SetData \/ SetType
  <2>1. (Goto("setev", "setc") \/ Goto("setc", "user")) /\ UNCHANGED handling
    BY <1>6 DEF SetData, SetType
  <2> QED
    BY <1>2, <2>1
<1> QED
  BY <1>3, <1>4, <1>5, <1>6 DEF InterruptCalls

\* Nor does handling an interrupt change anything of the interrupted code.
LEMMA HandlingIsU ==
   ASSUME StrongInv, Interrupted \/ Handling \/ \E i \in IntResources : ArriveInterrupt(i)
   PROVE  UNCHANGED U!vars
<1> USE DEF setup, frame
<1>1. ASSUME NEW i \in IntResources, TakeInterrupt(i) PROVE UNCHANGED U!vars
  <2>1. /\ ~InKernel /\ InKernel'
        /\ saved' = [pc |-> pc, eeble |-> eeble, ieble |-> ieble, ed |-> ed]
    BY <1>1, TakeInv DEF TakeInterrupt, InKernel
  <2>2. At(Inside)' = At(Inside) /\ InsideEeble' = InsideEeble /\ InsideEd' = InsideEd
    BY <2>1 DEF Inside, InsideEeble, InsideEd, At
  <2> QED
    BY <1>1, <2>2, InterruptStutters DEF TakeInterrupt
<1>2. CASE EnterHandler
  BY <1>2, InterruptStutters DEF EnterHandler, Goto, Inside, InsideEeble, InsideEd, InKernel, At
<1>3. CASE InterruptReturns
  <2>1. At(Inside)' = At(Inside) /\ InsideEeble' = InsideEeble /\ InsideEd' = InsideEd
    BY <1>3, InterruptReturnsInv DEF Inside, InsideEeble, InsideEd, At
  <2> QED
    BY <1>3, <2>1, InterruptReturnsInv, InterruptStutters
<1>4. ASSUME NEW i \in IntResources, ArriveInterrupt(i) PROVE UNCHANGED U!vars
  BY <1>4, InterruptStutters DEF ArriveInterrupt, vars, handling, Inside, InsideEeble, InsideEd,
     InKernel, At
<1> QED
  BY <1>1, <1>2, <1>3, <1>4 DEF Interrupted, Handling

\* However interrupts fall between the instructions of the select functions and
\* of the callbacks, the code they interrupt behaves as in Select.
THEOREM InterruptsAreTransparent == ISpec => Transparent
<1>1. IInit => U!Init
  BY InterruptedInit
<1>2. StrongInv /\ [INext]_allvars => [U!Next]_(U!vars)
  <2> SUFFICES ASSUME StrongInv, [INext]_allvars PROVE [U!Next]_(U!vars)
    OBVIOUS
  <2>1. CASE Next /\ UNCHANGED ivars
    BY <2>1, SelectStepIsU
  <2>2. CASE UNCHANGED allvars
    BY <2>2, InterruptStutters DEF allvars, vars, ivars, handling, Inside, InsideEeble, InsideEd,
       InKernel, At, setup, frame
  <2> QED
    BY <2>1, <2>2, InterruptCallIsU, HandlingIsU DEF INext
<1> QED
  BY <1>1, <1>2, InterruptStrong, PTL DEF ISpec, Transparent, U!Spec
==============================================================================
