----------------------------- MODULE Interrupt -----------------------------
(***************************************************************************)
(* Interrupts on the logical core of Select: xcore_c_interrupt.h, the stub *)
(* that INTERRUPT_CALLBACK defines and xcore_c_interrupt.S.  An interrupt  *)
(* may be taken between any two instructions, those of the select          *)
(* functions and of the set-up of another interrupt included.              *)
(*                                                                         *)
(* Some of the core's resources, IntResources, are set up for interrupts   *)
(* and the others for select events.  A callback uses its own resource     *)
(* only, and does not unmask interrupts: "The kernel stack is not          *)
(* re-entrant" (xcore_c_interrupt.h).                                      *)
(***************************************************************************)
EXTENDS Select

CONSTANTS IntResources,  \* resources the core sets up for interrupts
          Handlers       \* interrupt_callback_t functions, and their data

VARIABLES vector,   \* vector[i]: the function whose stub is set up on i (setv)
          data,     \* data[i]: the function whose data is set up on i (setev)
          armed,    \* the interrupt resources whose trigger is enabled
          pending,  \* the interrupt resources with an event to take
          ieble,    \* the core takes interrupts
          setting,  \* the resource being set up
          source,   \* the resource whose interrupt is handled
          arg,      \* what the stub passes to its function (r0)
          saved,    \* SPC, SSR and SED: the core when it was interrupted
          masked,   \* history: interrupts are masked, by the user's last call
          rash      \* history: a resource was set up while it could interrupt

sources == <<vector, data, armed, pending>>
handling == <<source, arg, saved>>
history == <<masked, rash>>
ivars == <<sources, ieble, setting, handling, history>>
allvars == <<vars, ivars>>

NotSaved == [pc |-> "user", eeble |-> FALSE, ieble |-> FALSE, ed |-> None]
InKernel == pc \in {"stub", "handler"}

\* "setev", "setc": inside _resource_setup_callback; "stub", "handler": in
\* kernel mode.
ITypeOK == /\ vector \in [IntResources -> Handlers \cup {None}]
           /\ data \in [IntResources -> Handlers \cup {None}]
           /\ armed \subseteq IntResources /\ pending \subseteq IntResources
           /\ {ieble, masked, rash} \subseteq BOOLEAN
           /\ {setting, source} \subseteq IntResources \cup {None}
           /\ arg \in Handlers \cup {None}
           /\ pc \in {"user", "poll", "list", "wait", "select", "callback",
                      "setev", "setc", "stub", "handler"}

IInit == /\ Init
         /\ vector = [i \in IntResources |-> None]
         /\ data = [i \in IntResources |-> None]
         /\ armed = {} /\ pending = {} /\ ieble = FALSE
         /\ setting = None /\ source = None /\ arg = None /\ saved = NotSaved
         /\ masked = TRUE /\ rash = FALSE

(***************************************************************************)
(* The user's calls                                                        *)
(***************************************************************************)
\* Mutant: the mask of the other enable bit.
MaskEvents == /\ pc \in {"user", "callback"}
              /\ eeble' = FALSE /\ masked' = TRUE
              /\ UNCHANGED <<setup, frame, pc, pos, ed, ret>>
              /\ UNCHANGED <<sources, ieble, setting, handling, rash>>

interrupt_mask_all == /\ pc \in {"user", "callback"}
                      /\ ieble' = FALSE /\ masked' = TRUE
                      /\ UNCHANGED <<vars, sources, setting, handling, rash>>

\* Mutant: it may be called in a handler.
UnmaskAnywhere == /\ pc \in {"user", "callback", "handler"}
                  /\ ieble' = TRUE /\ masked' = FALSE
                  /\ UNCHANGED <<vars, sources, setting, handling, rash>>

interrupt_unmask_all == /\ pc \in {"user", "callback"}
                        /\ ieble' = TRUE /\ masked' = FALSE
                        /\ UNCHANGED <<vars, sources, setting, handling, rash>>

Goto(from, to) == /\ pc = from /\ pc' = to
                  /\ UNCHANGED <<setup, eeble, frame, pos, ed, ret>>

\* res_setup_interrupt_callback: _resource_setup_callback sets the vector, the
\* data and the type of trigger, one instruction each.
setup_interrupt_callback(i, h) ==
   /\ Goto("user", "setev")
   /\ vector' = [vector EXCEPT ![i] = h] /\ setting' = i
   /\ rash' = (rash \/ (ieble /\ i \in armed))
   /\ UNCHANGED <<data, armed, pending, ieble, handling, masked>>

\* Mutant: a set-up that finds data on the resource leaves it.
SetDataOnce == /\ Goto("setev", "setc")
               /\ data' = [data EXCEPT ![setting] = IF @ = None THEN vector[setting] ELSE @]
               /\ UNCHANGED <<vector, armed, pending, ieble, setting, handling, history>>

SetData == /\ Goto("setev", "setc")
           /\ data' = [data EXCEPT ![setting] = vector[setting]]
           /\ UNCHANGED <<vector, armed, pending, ieble, setting, handling, history>>

SetType == /\ Goto("setc", "user")
           /\ setting' = None
           /\ UNCHANGED <<sources, ieble, handling, history>>

Trigger(i) == /\ pc = "user"
              /\ armed' \in {armed \ {i}} \cup (IF data[i] # None THEN {armed \cup {i}} ELSE {})
              /\ UNCHANGED <<vars, vector, data, pending, ieble, setting, handling, history>>

ArriveInterrupt(i) ==
   /\ i \notin pending
   /\ pending' = pending \cup {i}
   /\ UNCHANGED <<vars, vector, data, armed, ieble, setting, handling, history>>

(***************************************************************************)
(* Handling an interrupt                                                   *)
(***************************************************************************)
\* The core saves its pc, status and ED registers, enters kernel mode with
\* both enable bits clear and jumps to the vector.
TakeInterrupt(i) ==
   /\ ieble /\ i \in armed \cap pending
   /\ saved' = [pc |-> pc, eeble |-> eeble, ieble |-> ieble, ed |-> ed]
   /\ pc' = "stub" /\ eeble' = FALSE /\ ieble' = FALSE
   /\ ed' = data[i] /\ source' = i
   /\ UNCHANGED <<setup, frame, pos, ret, sources, setting, arg, history>>

\* _xcore_c_interrupt_callback_common: get ed, and call the function.
EnterHandler == /\ Goto("stub", "handler")
                /\ arg' = ed
                /\ UNCHANGED <<sources, ieble, setting, source, saved, history>>

\* Mutant: the stub does not save r2.
StackedNoR2 == {"r0", "r1", "r3", "r11", "lr"}

\* The registers the stub saves on the kernel stack.  A function may change
\* these and no others.
Stacked == {"r0", "r1", "r2", "r3", "r11", "lr"}

\* What is in a register that holds x at the interrupt, after kret.
Restored(r, x, any) == IF r \in Stacked THEN {x} ELSE any

\* Mutant: kret is missing, and the code goes on with the kernel's status.
ReturnsInKernelStatus ==
   /\ pc = "handler"
   /\ pending' \in {pending, pending \ {source}}
   /\ armed' \in {armed, armed \ {source}}
   /\ pc' = saved.pc /\ ieble' = saved.ieble /\ ed' = saved.ed
   /\ saved' = NotSaved /\ source' = None /\ arg' = None
   /\ UNCHANGED <<setup, frame, eeble, pos, setting, ret, vector, data, history>>

\* The function may read its resource and disable its trigger.  Masking in it
\* is undone when kret restores the status.  A select function has its list in
\* r0 or r1, its index in r2 and the id it returns in r11;
\* _resource_setup_callback has its resource in r0.
InterruptReturns ==
   /\ pc = "handler"
   /\ pending' \in {pending, pending \ {source}}
   /\ armed' \in {armed, armed \ {source}}
   /\ pc' = saved.pc /\ eeble' = saved.eeble /\ ieble' = saved.ieble
   /\ ed' \in Restored("r11", saved.ed, {None})
   /\ pos' \in Restored("r2", pos, 1 .. Cardinality(Resources) + 1)
   /\ list' \in Restored("r0", list, {<< >>}) \cap Restored("r1", list, {<< >>})
   /\ setting' \in Restored("r0", setting, IntResources)
   /\ saved' = NotSaved /\ source' = None /\ arg' = None
   /\ UNCHANGED <<setup, fn, due, ret, vector, data, history>>

InterruptCalls == \/ interrupt_mask_all \/ interrupt_unmask_all
                  \/ \E i \in IntResources : \/ \E h \in Handlers : setup_interrupt_callback(i, h)
                                             \/ Trigger(i)
                  \/ SetData \/ SetType

Handling == EnterHandler \/ InterruptReturns
Interrupted == \E i \in IntResources : TakeInterrupt(i)

INext == \/ Next /\ UNCHANGED ivars
         \/ InterruptCalls
         \/ \E i \in IntResources : ArriveInterrupt(i)
         \/ Interrupted \/ Handling

ISpec == IInit /\ [][INext]_allvars

\* The core takes interrupts and runs, and interrupt callbacks return.
IFairSpec == /\ ISpec
             /\ WF_allvars(Hardware /\ UNCHANGED ivars)
             /\ WF_allvars(Function /\ UNCHANGED ivars)
             /\ WF_allvars(CallbackReturns /\ UNCHANGED ivars)
             /\ WF_allvars(Interrupted) /\ WF_allvars(Handling)

(***************************************************************************)
(* Properties                                                              *)
(***************************************************************************)
\* Interrupts are invisible to the code they interrupt: on a core that takes
\* them between any two instructions, the select functions and the callbacks
\* of select events do what Select allows, and return what it allows.
At(p) == IF p \in {"setev", "setc"} THEN "user" ELSE p
U == INSTANCE Select WITH pc <- At(IF InKernel THEN saved.pc ELSE pc),
                          eeble <- IF InKernel THEN saved.eeble ELSE eeble,
                          ed <- IF InKernel THEN saved.ed ELSE ed
Transparent == U!Spec

\* Nor do they keep a select_wait from returning, once they stop.
StillReturns == <>[]~InKernel => U!WaitReturns

\* The kernel stack and the saved registers hold one frame: it was made by code
\* that is not a handler, and none overwrites it before kret restores it.
OneFrame == saved # NotSaved => InKernel /\ saved.ieble /\ saved.pc \notin {"stub", "handler"}

\* The variables that interrupts add have their types, and interrupts do not
\* nest: there is one saved frame, of code that had interrupts enabled.
IInv == ITypeOK /\ OneFrame

\* No interrupt is handled after interrupt_mask_all, and the mask is as the
\* user's last call left it whenever no interrupt is handled: in user code,
\* in a select function, in a callback, and after any interrupt.
MaskHonoured == IF InKernel THEN ~masked ELSE ieble = ~masked

\* An interrupt runs the function last set up on its resource, with the data
\* set up with it, as long as no resource that could interrupt was being set
\* up: between setv and setev the new function would run with the old data.
PairedData == (pc = "handler" /\ ~rash) => arg = vector[source]
=============================================================================
