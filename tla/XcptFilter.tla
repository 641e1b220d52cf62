----------------------------- MODULE XcptFilter -----------------------------
(***************************************************************************)
(* The kernel-mode exception filters of arch/i386/except and the           *)
(* _try/_catch macros of include/arch-i386/except.h.                       *)
(*                                                                         *)
(* A function that executes _try links a registration, kept in its own     *)
(* stack frame, into the chain that starts at __cur_Xcpt_filter, and has   *)
(* its return address redirected to the macro's label 1, which pops the    *)
(* filter and jumps to the saved address.  An exception jumps to the       *)
(* handler (label 3) of the filter at the head of the chain.               *)
(*                                                                         *)
(* A frame is named by its depth in the kernel stack.  Frame 1 is kmain,   *)
(* which never returns.  Frames of interrupt handlers lie on top of the    *)
(* function they interrupt.                                                *)
(***************************************************************************)
EXTENDS Integers

CONSTANT MaxDepth     \* bound: frames the stack may hold

ASSUME MaxDepthAssumption == MaxDepth \in Nat \ {0}

Frame == 1 .. MaxDepth

NULL == 0

VARIABLES
    live,      \* the frames of functions that have not returned
    run,       \* the frame whose code the processor executes
    esp,       \* the top of the stack in use
    back,      \* the frame that the return address on the stack leads to
    irqs,      \* the live frames that belong to interrupt handlers
    ifl,       \* the interrupt flag
    cur,       \* __cur_Xcpt_filter: the frame of the filter, or NULL
    tries,     \* the live frames that executed _try
    pre,       \* __Xcpt_reg.pre of the registration in each frame
    ret,       \* __Xcpt_reg.ret_addr: the frame the saved address returns to
    fired,     \* __Xcpt_reg.fired
    landing,   \* the live frames at label 3, esp not yet restored
    halted     \* PANIC was executed

vars == <<live, run, esp, back, irqs, ifl, cur, tries, pre, ret, fired,
          landing, halted>>

Init ==
    /\ live = {1}
    /\ run = 1
    /\ esp = 1
    /\ back = [f \in Frame |-> NULL]
    /\ irqs = {}
    /\ ifl = TRUE
    /\ cur = NULL
    /\ tries = {}
    /\ pre = [f \in Frame |-> NULL]
    /\ ret = [f \in Frame |-> NULL]
    /\ fired = [f \in Frame |-> FALSE]
    /\ landing = {}
    /\ halted = FALSE

Running == ~halted /\ run \notin landing

-----------------------------------------------------------------------------
(* The code around the filters: calls, interrupts and their returns.       *)

\* A call stacks a frame for the callee.
Call ==
    /\ Running
    /\ esp < MaxDepth
    /\ esp' = esp + 1
    /\ run' = esp + 1
    /\ live' = live \cup {esp + 1}
    /\ back' = [back EXCEPT ![esp + 1] = run]
    /\ UNCHANGED <<irqs, ifl, cur, tries, pre, ret, fired, landing, halted>>

\* An interrupt stacks the frame of its handler, with interrupts off.  It
\* may also hit a function that is at label 3.
Interrupt ==
    /\ ~halted
    /\ ifl
    /\ esp < MaxDepth
    /\ esp' = esp + 1
    /\ run' = esp + 1
    /\ live' = live \cup {esp + 1}
    /\ back' = [back EXCEPT ![esp + 1] = run]
    /\ irqs' = irqs \cup {esp + 1}
    /\ ifl' = FALSE
    /\ UNCHANGED <<cur, tries, pre, ret, fired, landing, halted>>

\* The end of a function that did not execute _try; the end of an interrupt
\* handler restores the interrupted code's flags, in which IF is set.
PlainReturn ==
    /\ Running
    /\ run # 1
    /\ run \notin tries
    /\ live' = live \ {run}
    /\ run' = back[run]
    /\ esp' = run - 1
    /\ irqs' = irqs \ {run}
    /\ ifl' = (ifl \/ run \in irqs)
    /\ UNCHANGED <<back, cur, tries, pre, ret, fired, landing, halted>>

-----------------------------------------------------------------------------
(* The filters.                                                            *)

\* A changed _try that redirects the return address before it saves it.
Try_SavesLabel1 ==
    /\ Running
    /\ run \notin tries
    /\ run \notin irqs
    /\ pre' = [pre EXCEPT ![run] = cur]
    /\ ret' = [ret EXCEPT ![run] = run]
    /\ fired' = [fired EXCEPT ![run] = FALSE]
    /\ cur' = run
    /\ tries' = tries \cup {run}
    /\ UNCHANGED <<live, run, esp, back, irqs, ifl, landing, halted>>

\* _try: fill in the registration, __Xcpt_push_filter, redirect the return
\* address.  A function has one _try, and so has no registration yet.
Try ==
    /\ Running
    /\ run \notin tries
    /\ run \notin irqs
    /\ pre' = [pre EXCEPT ![run] = cur]
    /\ ret' = [ret EXCEPT ![run] = back[run]]
    /\ fired' = [fired EXCEPT ![run] = FALSE]
    /\ cur' = run
    /\ tries' = tries \cup {run}
    /\ UNCHANGED <<live, run, esp, back, irqs, ifl, landing, halted>>

\* A changed return that does not go through label 1.
TryReturn_KeepsFilter ==
    /\ Running
    /\ run # 1
    /\ run \in tries
    /\ run' = ret[run]
    /\ live' = live \ {run}
    /\ tries' = tries \ {run}
    /\ esp' = run - 1
    /\ UNCHANGED <<cur, back, irqs, ifl, pre, ret, fired, landing, halted>>

\* A return from a function that executed _try arrives at label 1, where
\* __Xcpt_pop_filter unlinks the head of the chain and yields the address to
\* jump to: 0 when there is no filter.
TryReturn ==
    /\ Running
    /\ run # 1
    /\ run \in tries
    /\ run' = IF cur # NULL THEN ret[cur] ELSE NULL
    /\ cur' = IF cur # NULL THEN pre[cur] ELSE NULL
    /\ live' = live \ {run}
    /\ tries' = tries \ {run}
    /\ esp' = run - 1
    /\ UNCHANGED <<back, irqs, ifl, pre, ret, fired, landing, halted>>

\* filter_fill_regs first drops the head of the chain if it has been used.
FilterToFire ==
    IF cur # NULL /\ fired[cur] THEN pre[cur] ELSE cur

\* An exception in the running code: isr_handler and filter_fill_regs make
\* the processor continue at the handler of the filter found, in its frame;
\* with no filter the kernel panics.  The frames above are abandoned, and
\* the stack pointer stays where the exception left it until label 3.
Exception ==
    /\ Running
    /\ cur' = FilterToFire
    /\ IF FilterToFire # NULL
         THEN /\ live' = {f \in live : f <= FilterToFire}
              /\ tries' = {f \in tries : f <= FilterToFire}
              /\ irqs' = {f \in irqs : f <= FilterToFire}
              /\ run' = FilterToFire
              /\ fired' = [fired EXCEPT ![FilterToFire] = TRUE]
              /\ landing' = {f \in landing : f < FilterToFire}
                              \cup {FilterToFire}
              /\ UNCHANGED halted
         ELSE /\ halted' = TRUE
              /\ tries' = IF cur = NULL THEN tries ELSE tries \ {cur}
              /\ UNCHANGED <<live, irqs, run, fired, landing>>
    /\ UNCHANGED <<esp, back, ifl, pre, ret>>

\* Label 3: __Xcpt_get_esp gives the stack pointer _try saved, that of the
\* function's own frame; with no filter it panics.
Land ==
    /\ ~halted
    /\ run \in landing
    /\ IF cur # NULL
         THEN /\ esp' = cur
              /\ landing' = landing \ {run}
              /\ UNCHANGED halted
         ELSE /\ halted' = TRUE
              /\ UNCHANGED <<esp, landing>>
    /\ UNCHANGED <<live, run, back, irqs, ifl, cur, tries, pre, ret, fired>>

Next == Call \/ Interrupt \/ PlainReturn \/ Try \/ TryReturn \/ Exception \/ Land

Spec == Init /\ [][Next]_vars
-----------------------------------------------------------------------------
(* Properties.                                                             *)

\* Every variable has its type: the pointers of the filter chain, the saved
\* return addresses and the stack pointer lead into the stack.
TypeOK ==
    /\ live \subseteq Frame
    /\ run \in Frame
    /\ esp \in Frame
    /\ back \in [Frame -> Frame \cup {NULL}]
    /\ irqs \subseteq live
    /\ ifl \in BOOLEAN
    /\ cur \in Frame \cup {NULL}
    /\ tries \subseteq live
    /\ pre \in [Frame -> Frame \cup {NULL}]
    /\ ret \in [Frame -> Frame \cup {NULL}]
    /\ fired \in [Frame -> BOOLEAN]
    /\ landing \subseteq live
    /\ halted \in BOOLEAN

\* The processor always runs the innermost function that has not returned,
\* and no live frame lies beyond the stack pointer.  Returns of functions
\* with a _try go through the address __Xcpt_pop_filter hands out, and
\* exceptions through the chain, so this says that neither ever reaches the
\* wrong function, whatever calls, interrupts and exceptions came between.
RunsInnermostLive ==
    /\ run \in live
    /\ \A f \in live : f <= run
    /\ run <= esp

\* f is the innermost member of S below frame limit, NULL if there is none.
IsInnermostBelow(f, S, limit) ==
    /\ f = NULL => \A t \in S : t >= limit
    /\ f # NULL => f \in S /\ f < limit /\ \A t \in S : t < limit => t <= f

\* The chain from __cur_Xcpt_filter through pre links exactly the live
\* functions that executed _try, innermost first: no filter dangles into a
\* frame that has been left, by return or by an exception that passed over
\* it, and none is lost.
ChainIsLiveTries ==
    /\ IsInnermostBelow(cur, tries, MaxDepth + 1)
    /\ \A t \in tries : IsInnermostBelow(pre[t], tries, t)

\* At label 3 the head of the chain is the filter of the function that is
\* there, so __Xcpt_get_esp restores that function's own stack pointer, also
\* when an interrupt came between the jump to label 3 and the call.
LandsOnOwnStack == ~halted /\ run \in landing => cur = run

\* The inductive strengthening: every return address, and every copy of one
\* in a registration, leads to the innermost live frame below its own, and a
\* function at label 3 is one that executed _try.
IInv ==
    /\ TypeOK
    /\ RunsInnermostLive
    /\ ChainIsLiveTries
    /\ 1 \in live
    /\ \A f \in live \ {1} : back[f] # NULL /\ IsInnermostBelow(back[f], live, f)
    /\ \A t \in tries : ret[t] = back[t]
    /\ tries \cap irqs = {}
    /\ ~halted => landing \subseteq tries
=============================================================================
