------------------------------ MODULE SysTimer ------------------------------
(***************************************************************************)
(* The system timer scheduler, kernel/kernel/systimer.c, driven by the     *)
(* clock interrupt (rtc_intr in kernel/arch/i386/cpu/clock.c).             *)
(*                                                                         *)
(* The main program registers and unregisters timers.  register_timer does *)
(* its work with interrupts off; unregister_timer scans the list with      *)
(* interrupts on and turns them off only to remove what it found, so its   *)
(* scan is one step per iteration.  timer_rolling runs in the interrupt,   *)
(* one step per timer, and the handlers it calls may use the same two      *)
(* functions; there they run with interrupts off throughout.               *)
(*                                                                         *)
(* The clients are not part of the repository.  The constants say what     *)
(* they do; a client never registers a handler that is registered already, *)
(* as unregister_timer could not tell the two apart.                       *)
(***************************************************************************)
EXTENDS Integers, Sequences

CONSTANTS
    Handler,          \* the handlers of the clients
    NoHandler,        \* what unused slots, and the memory that follows the
                      \* array, hold instead of the address of a handler
    MAX_TIMER,        \* size of timer_list
    Ms,               \* the periods that are asked for
    dec,              \* 1000 / RTC_FREQUENCY
    MaxTicks,         \* bound: ticks are counted up to here
    LastFirst         \* timers are unregistered in the reverse order only

ASSUME SysTimerAssumption ==
    /\ NoHandler \notin Handler
    /\ MAX_TIMER \in Nat \ {0}
    /\ Ms \subseteq Int
    /\ dec \in Nat \ {0}
    /\ MaxTicks \in Nat /\ \A ms \in Ms : ms < dec * MaxTicks
    /\ LastFirst \in BOOLEAN

VARIABLES
    timer_list,   \* slots 0 .. MAX_TIMER - 1, and the memory that follows
    timer_num,
    ifl,          \* the interrupt flag
    pc,           \* of the main program: "idle", or "scan" or "remove" of
                  \* unregister_timer
    h, i,         \* handler and i of unregister_timer
    roll,         \* the active calls of timer_rolling, the innermost last:
                  \* the value of i and whether its handler is running
    wanted,       \* history: the handlers registered, in their order
    ticks         \* history: per handler, the clock interrupts since it was
                  \* registered or last called; the one in which a handler
                  \* registers a timer counts, as timer_rolling will visit it

vars == <<timer_list, timer_num, ifl, pc, h, i, roll, wanted, ticks>>

Slot == 0 .. MAX_TIMER
MaxNest == 2   \* bound: nested clock interrupts
Unused == [ms |-> 0, handler |-> NoHandler, counter |-> 0]
Wanted == {wanted[j] : j \in 1 .. Len(wanted)}

\* History: a handler that is unregistered is wanted no more.
Without(x) ==
    IF x \in Wanted
      THEN LET k == CHOOSE k \in 1 .. Len(wanted) : wanted[k] = x
           IN  SubSeq(wanted, 1, k - 1) \o SubSeq(wanted, k + 1, Len(wanted))
      ELSE wanted

Init ==
    /\ timer_list = [s \in Slot |-> Unused]
    /\ timer_num = 0
    /\ ifl = TRUE
    /\ pc = "idle" /\ h = NoHandler /\ i = 0
    /\ roll = <<>>
    /\ wanted = <<>>
    /\ ticks = [x \in Handler |-> 0]
-----------------------------------------------------------------------------
(* The two functions, as executed with interrupts off.                     *)

register_timer(ms, x) ==
    IF timer_num >= MAX_TIMER \/ ms <= 0
      THEN UNCHANGED <<timer_list, timer_num, wanted, ticks>>
      ELSE /\ timer_list' = [timer_list EXCEPT ![timer_num] =
                               [ms |-> ms, handler |-> x, counter |-> ms]]
           /\ timer_num' = timer_num + 1
           /\ wanted' = Append(wanted, x)
           /\ ticks' = [ticks EXCEPT ![x] = Len(roll)]

\* Mutant: the handler is not checked again.
Remove_Unchecked(x, s) ==
    /\ timer_list' = [timer_list EXCEPT ![s] = timer_list[timer_num]]
    /\ timer_num' = timer_num - 1
    /\ wanted' = Without(x)
    /\ UNCHANGED ticks

\* The second check of the handler, and the removal from slot s.
Remove(x, s) ==
    /\ IF timer_list[s].handler = x
         THEN /\ timer_list' = [timer_list EXCEPT ![s] = timer_list[timer_num]]
              /\ timer_num' = timer_num - 1
         ELSE UNCHANGED <<timer_list, timer_num>>
    /\ wanted' = Without(x)
    /\ UNCHANGED ticks

\* The slot at which the scan of unregister_timer stops, timer_num if there
\* is none.
FirstWith(x) ==
    CHOOSE s \in 0 .. timer_num :
        /\ s < timer_num => timer_list[s].handler = x
        /\ \A r \in 0 .. timer_num - 1 : timer_list[r].handler = x => s <= r

\* A timer that is registered while another one is being unregistered would be
\* the last one and stay.
MayRegister(x) ==
    /\ x \notin Wanted
    /\ LastFirst => pc = "idle"

MayUnregister(x) ==
    /\ x \in Wanted
    /\ LastFirst => x = wanted[Len(wanted)]
-----------------------------------------------------------------------------
(* The main program.  It does nothing while an interrupt is served.        *)

Main == roll = <<>>

Register(x, ms) ==
    /\ Main /\ pc = "idle"
    /\ MayRegister(x)
    /\ register_timer(ms, x)
    /\ UNCHANGED <<ifl, pc, h, i, roll>>

Unregister(x) ==
    /\ Main /\ pc = "idle"
    /\ MayUnregister(x)
    /\ pc' = "scan" /\ h' = x /\ i' = 0
    /\ UNCHANGED <<timer_list, timer_num, ifl, roll, wanted, ticks>>

ScanDone == pc' = "idle" /\ h' = NoHandler /\ i' = 0

\* Mutant: i is not incremented.
Scan_Stays ==
    /\ Main /\ pc = "scan"
    /\ \/ i < timer_num /\ timer_list[i].handler = h /\ pc' = "remove" /\ UNCHANGED <<h, i>>
       \/ i < timer_num /\ timer_list[i].handler # h /\ UNCHANGED <<pc, h, i>>
       \/ i >= timer_num /\ ScanDone
    /\ UNCHANGED <<timer_list, timer_num, ifl, roll, wanted, ticks>>

Scan ==
    /\ Main /\ pc = "scan"
    /\ \/ /\ i < timer_num
          /\ timer_list[i].handler = h
          /\ pc' = "remove"
          /\ UNCHANGED <<h, i>>
       \/ /\ i < timer_num
          /\ timer_list[i].handler # h
          /\ i' = i + 1
          /\ UNCHANGED <<pc, h>>
       \/ /\ i >= timer_num
          /\ ScanDone
    /\ UNCHANGED <<timer_list, timer_num, ifl, roll, wanted, ticks>>

ScanRemove ==
    /\ Main /\ pc = "remove"
    /\ Remove(h, i)
    /\ ScanDone
    /\ UNCHANGED <<ifl, roll>>
-----------------------------------------------------------------------------
(* The clock interrupt.                                                    *)

\* The processor takes the interrupt, clearing the interrupt flag.
Tick ==
    /\ ifl
    /\ Len(roll) < MaxNest
    /\ ifl' = FALSE
    /\ roll' = Append(roll, [i |-> 0, calling |-> FALSE])
    /\ ticks' = [x \in Handler |-> IF x \in Wanted /\ ticks[x] < MaxTicks
                                    THEN ticks[x] + 1 ELSE ticks[x]]
    /\ UNCHANGED <<timer_list, timer_num, pc, h, i, wanted>>

Top == Len(roll)
Rolling == roll # <<>> /\ ~roll[Top].calling
Current == timer_list[roll[Top].i]

\* A handler is running.  A call of anything else does not return.
Calling == roll # <<>> /\ roll[Top].calling /\ Current.handler \in Handler

\* Mutant: the handler is called when the counter is below zero.
RollNext_BelowZero ==
    /\ Rolling
    /\ roll[Top].i < timer_num
    /\ LET s == roll[Top].i
           left == Current.counter - dec
       IN  /\ timer_list' = [timer_list EXCEPT ![s].counter =
                               IF left < 0 THEN Current.ms ELSE left]
           /\ roll' = IF left < 0 THEN [roll EXCEPT ![Top].calling = TRUE]
                                  ELSE [roll EXCEPT ![Top].i = s + 1]
           /\ ticks' = IF left < 0 THEN [x \in Handler |-> IF x = Current.handler THEN 0 ELSE ticks[x]]
                                   ELSE ticks
    /\ UNCHANGED <<timer_num, ifl, pc, h, i, wanted>>

\* One iteration of timer_rolling.
RollNext ==
    /\ Rolling
    /\ roll[Top].i < timer_num
    /\ LET s == roll[Top].i
           left == Current.counter - dec
       IN  /\ timer_list' = [timer_list EXCEPT ![s].counter =
                               IF left <= 0 THEN Current.ms ELSE left]
           /\ roll' = IF left <= 0 THEN [roll EXCEPT ![Top].calling = TRUE]
                                   ELSE [roll EXCEPT ![Top].i = s + 1]
           /\ ticks' = IF left <= 0 THEN [x \in Handler |-> IF x = Current.handler THEN 0 ELSE ticks[x]]
                                    ELSE ticks
    /\ UNCHANGED <<timer_num, ifl, pc, h, i, wanted>>

\* Mutant: the loop ends one timer too early.
RollDone_OneShort ==
    /\ Rolling
    /\ roll[Top].i >= timer_num - 1
    /\ roll' = SubSeq(roll, 1, Top - 1)
    /\ ifl' = TRUE
    /\ UNCHANGED <<timer_list, timer_num, pc, h, i, wanted, ticks>>

\* timer_rolling returns, irq_eoi, iret.
RollDone ==
    /\ Rolling
    /\ roll[Top].i >= timer_num
    /\ roll' = SubSeq(roll, 1, Top - 1)
    /\ ifl' = TRUE
    /\ UNCHANGED <<timer_list, timer_num, pc, h, i, wanted, ticks>>

\* Mutant: local_irq_enable instead.
local_irq_restore_Enables(flags) == ifl' = TRUE

\* local_irq_restore brings back the flag that local_irq_save found.
local_irq_restore(flags) == ifl' = flags

\* The handler returns to timer_rolling.
HandlerReturns ==
    /\ roll' = [roll EXCEPT ![Top] = [i |-> @.i + 1, calling |-> FALSE]]
    /\ UNCHANGED <<pc, h, i>>

HandlerIdle ==
    /\ Calling
    /\ HandlerReturns
    /\ UNCHANGED <<timer_list, timer_num, ifl, wanted, ticks>>

HandlerRegisters(x, ms) ==
    /\ Calling
    /\ MayRegister(x)
    /\ register_timer(ms, x)
    /\ local_irq_restore(ifl)
    /\ HandlerReturns

\* unregister_timer in a handler, for instance of a timer used only once.
HandlerUnregisters(x) ==
    /\ Calling
    /\ MayUnregister(x)
    /\ FirstWith(x) < timer_num
    /\ Remove(x, FirstWith(x))
    /\ local_irq_restore(ifl)
    /\ HandlerReturns

MainStep == Scan \/ ScanRemove

RollStep ==
    \/ RollNext \/ RollDone \/ HandlerIdle
    \/ \E x \in Handler, ms \in Ms : HandlerRegisters(x, ms)
    \/ \E x \in Handler : HandlerUnregisters(x)

Next ==
    \/ \E x \in Handler, ms \in Ms : Register(x, ms)
    \/ \E x \in Handler : Unregister(x)
    \/ MainStep \/ Tick \/ RollStep

Spec == Init /\ [][Next]_vars

\* The clock goes on ticking, the processor goes on executing the interrupt,
\* and between two interrupts it executes the main program.
FairSpec == Spec /\ WF_vars(Tick) /\ WF_vars(RollStep) /\ SF_vars(MainStep)
-----------------------------------------------------------------------------
(* Properties.                                                             *)

Used == 0 .. timer_num - 1

\* "number of timers we used" (systimer.c:27): the first timer_num slots are
\* the timers that were registered and not unregistered, whatever register
\* and unregister calls of the main program and of handlers in the interrupt
\* came in between.
UsedTimersListed ==
    /\ timer_num = Len(wanted)
    /\ \A s \in Used : timer_list[s].handler = wanted[s + 1]

\* ms / dec, rounded up: the number of ticks of a period.
Period(ms) == (ms + dec - 1) \div dec

\* No call is missed or late: between two interrupts no timer has waited for
\* its period or longer, and its counter is what is left of the period.
NeverLate ==
    roll = <<>> =>
        \A s \in Used : LET t == timer_list[s] IN
            /\ ticks[t.handler] < Period(t.ms)
            /\ t.counter = t.ms - dec * ticks[t.handler]

\* No timer is called before its period is over.
NeverEarly ==
    [][~Calling /\ Calling' =>
         LET t == timer_list[roll[Top].i] IN ticks[t.handler] = Period(t.ms)]_vars

\* timer_rolling ends, although handlers add timers to the list it walks, and
\* unregister_timer returns, whatever interrupts its scan.
CallsReturn == (roll # <<>> \/ pc # "idle") ~> (roll = <<>> /\ pc = "idle")

\* A registered timer is called, or unregistered first.
EveryTimerCalled ==
    \A x \in Handler :
        (x \in Wanted) ~> (x \notin Wanted \/ (Calling /\ Current.handler = x))
=============================================================================
