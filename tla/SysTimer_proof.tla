--------------------------- MODULE SysTimer_proof ---------------------------
(***************************************************************************)
(* For every number of slots, handlers and periods: as long as timers are  *)
(* unregistered in the reverse order of their registration, the list holds *)
(* the registered timers, and none of them is called late or early.        *)
(*                                                                         *)
(* The argument.  timer_rolling runs with interrupts off, handlers         *)
(* included, so there is one call of it at most (Interrupts).  The slots   *)
(* behind the last timer have never been anything but unused (Listed), so  *)
(* what unregister_timer copies into the slot of the last timer is an      *)
(* unused one, and the scan of the main program, which handlers may        *)
(* overtake, removes nothing but its own timer (Scanning).  A counter is   *)
(* what the ticks have left of the period; a timer that the running call   *)
(* of timer_rolling has not reached yet is one tick behind (Counters).     *)
(*                                                                         *)
(* The clock whose interrupt this is, Clock, is at the end of the module.  *)
(***************************************************************************)
EXTENDS SysTimer, Clock, SequenceTheorems, TLAPS

Timer == [ms : Int, handler : Handler \cup {NoHandler}, counter : Int]
Call == [i : Nat, calling : BOOLEAN]

Types ==
    /\ pc \in {"idle", "scan", "remove"} /\ i \in Nat
    /\ ticks \in [Handler -> Nat]

Interrupts ==
    /\ roll = <<>> \/ (roll = <<roll[1]>> /\ roll[1] \in Call)
    /\ roll # <<>> => ~ifl
    /\ roll # <<>> /\ roll[1].calling => roll[1].i < timer_num

Listed ==
    /\ timer_list \in [Slot -> Timer]
    /\ timer_num \in 0 .. MAX_TIMER
    /\ wanted \in Seq(Handler) /\ timer_num = Len(wanted)
    /\ \A s \in Slot :
         IF s < timer_num
           THEN /\ timer_list[s].handler = wanted[s + 1]
                /\ timer_list[s].ms \in Ms /\ timer_list[s].ms > 0
           ELSE timer_list[s] = Unused
    /\ \A j, k \in 1 .. Len(wanted) : wanted[j] = wanted[k] => j = k

Scanning ==
    pc # "idle" =>
        /\ h \in Handler
        /\ pc = "remove" => i \in Slot
        /\ h \in Wanted => /\ h = wanted[timer_num]
                           /\ IF pc = "scan" THEN i < timer_num ELSE i = timer_num - 1

\* What timer_rolling has seen in this interrupt.
Visited(s) == roll # <<>> => s < roll[1].i \/ (s = roll[1].i /\ roll[1].calling)

Counters ==
    \A s \in Used : LET t == timer_list[s] IN
        /\ t.counter > 0
        /\ t.counter = t.ms - dec * (IF Visited(s) THEN ticks[t.handler]
                                                   ELSE ticks[t.handler] - 1)

IInv == Types /\ Interrupts /\ Listed /\ Scanning /\ Counters

-----------------------------------------------------------------------------
(* Arithmetic, and the list.                                               *)

\* The sizes, and what is no handler.
LEMMA Sizes ==
    /\ MAX_TIMER \in Nat \ {0} /\ dec \in Nat \ {0} /\ MaxTicks \in Nat
    /\ NoHandler \notin Handler
    /\ Slot = 0 .. MAX_TIMER
    /\ \A ms \in Ms : ms \in Int /\ ms < dec * MaxTicks
BY Zenon, SysTimerAssumption DEF Slot

\* A period is over after the first tick that brings the counter to zero.
LEMMA TicksOfPeriod ==
    ASSUME NEW ms \in Nat \ {0}, NEW t \in Nat
    PROVE  t < Period(ms) <=> dec * t < ms
<1>1. PICK d \in Nat \ {0} : d = dec
  BY Zenon, Sizes
<1>2. PICK q \in Nat : q = (ms + d - 1) \div d /\ d * q <= ms + d - 1 /\ ms + d - 1 < d * q + d
  BY ONLY SMTT(30), <1>1, ms \in Nat \ {0}
<1>3. CASE t < q
  <2>1. PICK u \in Nat : q = t + 1 + u
    <3>1. q - t - 1 \in Nat /\ q = t + 1 + (q - t - 1)
      BY <1>3
    <3> QED BY ONLY Zenon, <3>1
  <2>2. d * q = d * t + d + d * u /\ d * u \in Nat /\ d * t \in Nat
    BY ONLY SMTT(30), <2>1, <1>1, t \in Nat
  <2>3. d * t < ms
    BY ONLY SMTT(30), <1>1, <1>2, <2>2, ms \in Nat \ {0}
  <2> QED BY Zenon, <1>1, <1>2, <1>3, <2>3 DEF Period
<1>4. CASE ~ (t < q)
  <2>1. PICK u \in Nat : t = q + u
    <3>1. t - q \in Nat /\ t = q + (t - q)
      BY SMTT(30), <1>4
    <3> QED BY ONLY Zenon, <3>1
  <2>2. d * t = d * q + d * u /\ d * u \in Nat /\ d * q \in Nat
    BY ONLY SMTT(30), <2>1, <1>1, <1>2
  <2>3. ~ (d * t < ms)
    BY ONLY SMTT(30), <1>1, <1>2, <2>2, ms \in Nat \ {0}
  <2> QED BY Zenon, <1>1, <1>2, <1>4, <2>3 DEF Period
<1> QED BY Zenon, <1>3, <1>4

\* Every slot holds a wanted handler or none.
LEMMA InSlot ==
    ASSUME Listed, NEW s \in Slot
    PROVE  /\ s < timer_num => timer_list[s].handler \in Wanted
           /\ ~ (s < timer_num) => timer_list[s].handler = NoHandler
           /\ \A r \in Used : timer_list[r].handler = timer_list[s].handler => r = s
<1>1. s \in Nat /\ timer_num \in Nat /\ timer_num <= MAX_TIMER /\ MAX_TIMER \in Nat
  BY Sizes DEF Listed
<1>2. ASSUME s < timer_num PROVE timer_list[s].handler \in Wanted
  <2>1. s + 1 \in 1 .. Len(wanted)
    BY SMTT(30), <1>1, <1>2 DEF Listed
  <2> QED BY Zenon, <1>2, <2>1 DEF Listed, Wanted
<1>3. ~ (s < timer_num) => timer_list[s].handler = NoHandler
  BY DEF Listed, Unused
<1>4. ASSUME NEW r \in Used, timer_list[r].handler = timer_list[s].handler PROVE r = s
  <2>1. r \in Slot /\ r < timer_num /\ r + 1 \in 1 .. Len(wanted) /\ r \in Nat
    BY SMTT(30), <1>1, Sizes DEF Used, Listed
  <2>2. timer_list[r].handler = wanted[r + 1] /\ wanted[r + 1] \in Handler
    BY <2>1 DEF Listed
  <2>3. s < timer_num
    BY Zenon, <1>3, <1>4, <2>2, Sizes
  <2>4. s + 1 \in 1 .. Len(wanted) /\ timer_list[s].handler = wanted[s + 1]
    BY SMTT(30), <1>1, <2>3 DEF Listed
  <2>5. r + 1 = s + 1
    BY Zenon, <1>4, <2>1, <2>2, <2>4 DEF Listed
  <2> QED BY SMTT(30), <1>1, <2>1, <2>5
<1> QED BY Zenon, <1>2, <1>3, <1>4

\* The last timer of the list, as wanted and as found by the scan.
LEMMA LastTimer ==
    ASSUME Listed, NEW x \in Handler, x \in Wanted, x = wanted[timer_num]
    PROVE  /\ timer_num > 0 /\ timer_num - 1 \in Slot /\ timer_num \in Slot
           /\ timer_list[timer_num - 1].handler = x
           /\ FirstWith(x) = timer_num - 1
<1>1. timer_num > 0 /\ timer_num - 1 \in Slot /\ timer_num \in Slot /\ timer_num \in Nat
  BY SMTT(30), Sizes DEF Listed, Wanted
<1>2. timer_list[timer_num - 1].handler = x
  BY <1>1 DEF Listed
<1> DEFINE F(s) == /\ s < timer_num => timer_list[s].handler = x
                   /\ \A r \in 0 .. timer_num - 1 : timer_list[r].handler = x => s <= r
<1>3. \A r \in 0 .. timer_num - 1 : timer_list[r].handler = x => r = timer_num - 1
  BY Zenon, <1>1, <1>2, InSlot DEF Used
<1>4. timer_num - 1 \in 0 .. timer_num /\ F(timer_num - 1)
  BY SMTT(30), <1>1, <1>2, <1>3
<1>5. ASSUME NEW s \in 0 .. timer_num, F(s) PROVE s = timer_num - 1
  <2>1. timer_num - 1 \in 0 .. timer_num - 1 /\ s <= timer_num - 1
    BY SMTT(30), <1>1, <1>2, <1>5
  <2>2. s \in 0 .. timer_num - 1 /\ s < timer_num
    BY <1>1, <2>1
  <2> QED BY Zenon, <1>3, <1>5, <2>2
<1>6. FirstWith(x) = CHOOSE s \in 0 .. timer_num : F(s)
  BY Zenon DEF FirstWith
<1> HIDE DEF F
<1> QED BY Zenon, <1>1, <1>2, <1>4, <1>5, <1>6

\* Removing the last timer: the slot behind it, which is copied, is unused.
LEMMA RemoveLast ==
    ASSUME Listed, NEW x \in Handler, x \in Wanted, x = wanted[timer_num],
           Remove(x, timer_num - 1)
    PROVE  /\ Listed' /\ timer_num' = timer_num - 1 /\ UNCHANGED ticks
           /\ x \notin Wanted' /\ Wanted' \subseteq Wanted
           /\ \A s \in Used' : s \in Used /\ timer_list'[s] = timer_list[s]
<1> DEFINE n == timer_num - 1
<1>1. /\ timer_num > 0 /\ n \in Slot /\ timer_num \in Slot /\ timer_list[n].handler = x
      /\ timer_num \in Nat /\ n \in Nat /\ n + 1 = timer_num
      /\ timer_num <= MAX_TIMER /\ MAX_TIMER \in Nat
  BY SMTT(30), LastTimer, Sizes DEF Listed
<1>2. /\ timer_list' = [timer_list EXCEPT ![n] = timer_list[timer_num]]
      /\ timer_num' = n /\ wanted' = Without(x) /\ UNCHANGED ticks
  BY Zenon, <1>1 DEF Remove
<1>3. wanted \in Seq(Handler) /\ Len(wanted) = timer_num
      /\ \A j \in 1 .. timer_num : wanted[j] \in Handler
  BY SMTT(30) DEF Listed
<1>4. \A k \in 1 .. Len(wanted) : wanted[k] = x => k = timer_num
  BY SMTT(30), <1>1, <1>3 DEF Listed
<1>5. wanted' = SubSeq(wanted, 1, n)
  <2>1. (CHOOSE k \in 1 .. Len(wanted) : wanted[k] = x) = timer_num
    BY SMTT(30), <1>1, <1>3, <1>4
  <2>2. wanted' = SubSeq(wanted, 1, n) \o SubSeq(wanted, timer_num + 1, timer_num)
    BY Zenon, <1>2, <1>3, <2>1 DEF Without
  <2>3. SubSeq(wanted, timer_num + 1, timer_num) = <<>>
    BY SMTT(30), <1>1, SubSeqEmpty
  <2>4. SubSeq(wanted, 1, n) \in Seq(Handler)
    BY SMTT(30), <1>1, <1>3, SubSeqProperties
  <2> QED BY Zenon, <2>2, <2>3, <2>4, ConcatEmptySeq
<1> HIDE DEF n
<1>6. wanted' \in Seq(Handler) /\ Len(wanted') = n /\ \A j \in 1 .. n : wanted'[j] = wanted[j]
  <2>1. /\ SubSeq(wanted, 1, n) \in Seq(Handler)
        /\ Len(SubSeq(wanted, 1, n)) = (IF 1 <= n THEN n - 1 + 1 ELSE 0)
        /\ \A j \in 1 .. n - 1 + 1 : SubSeq(wanted, 1, n)[j] = wanted[1 + j - 1]
    BY SMTT(30), <1>1, <1>3, SubSeqProperties
  <2> QED BY SMTT(30), <1>1, <1>5, <2>1
<1>7. /\ timer_list' \in [Slot -> Timer] /\ timer_list'[n] = Unused
      /\ \A s \in Slot : s # n => timer_list'[s] = timer_list[s]
  BY SMTT(30), <1>1, <1>2 DEF Listed
<1>8. Listed'
  <2>1. ASSUME NEW s \in Slot, s < n
        PROVE  /\ timer_list'[s].handler = wanted'[s + 1]
               /\ timer_list'[s].ms \in Ms /\ timer_list'[s].ms > 0
    <3>1. s < timer_num /\ s # n /\ s + 1 \in 1 .. n
      BY SMTT(30), <1>1, <2>1, Sizes
    <3> QED BY Zenon, <1>6, <1>7, <3>1 DEF Listed
  <2>2. ASSUME NEW s \in Slot, ~ (s < n) PROVE timer_list'[s] = Unused
    <3>1. s = n \/ (s # n /\ ~ (s < timer_num))
      BY SMTT(30), <1>1, <2>2, Sizes
    <3> QED BY Zenon, <1>7, <3>1 DEF Listed
  <2>3. ASSUME NEW j \in 1 .. n, NEW k \in 1 .. n, wanted'[j] = wanted'[k] PROVE j = k
    <3>1. j \in 1 .. Len(wanted) /\ k \in 1 .. Len(wanted) /\ wanted[j] = wanted[k]
      BY SMTT(30), <1>1, <1>3, <1>6, <2>3
    <3> QED BY Zenon, <3>1 DEF Listed
  <2>4. n \in 0 .. MAX_TIMER
    BY <1>1
  <2> QED BY SMTT(30), <1>2, <1>6, <1>7, <2>1, <2>2, <2>3, <2>4 DEF Listed
<1>9. \A j \in 1 .. n : wanted'[j] \in Wanted /\ wanted'[j] # x
  <2> TAKE j \in 1 .. n
  <2>1. j \in 1 .. Len(wanted) /\ j # timer_num
    BY <1>1, <1>3
  <2> QED BY Zenon, <1>4, <1>6, <2>1 DEF Wanted
<1>10. \A s \in Used' : s \in Used /\ timer_list'[s] = timer_list[s]
  <2>1. \A s \in 0 .. n - 1 : s \in 0 .. timer_num - 1 /\ s \in Slot /\ s # n
    BY SMTT(30), <1>1, Sizes
  <2> QED BY Zenon, <1>2, <1>7, <2>1 DEF Used
<1> QED BY SMTT(30), <1>2, <1>6, <1>8, <1>9, <1>10 DEF Wanted, n

\* What is gone already is not found again.
LEMMA RemoveGone ==
    ASSUME Listed, NEW x \in Handler, x \notin Wanted, NEW s \in Slot, Remove(x, s)
    PROVE  UNCHANGED <<timer_list, timer_num, wanted, ticks>>
<1>1. timer_list[s].handler # x
  BY InSlot, Sizes
<1> QED BY Zenon, <1>1 DEF Remove, Without

\* A new timer is put behind the last one, with its whole period left.
LEMMA RegisterNew ==
    ASSUME Listed, ticks \in [Handler -> Nat], Len(roll) \in Nat,
           NEW x \in Handler, x \notin Wanted, NEW ms \in Ms,
           register_timer(ms, x)
    PROVE  \/ UNCHANGED <<timer_list, timer_num, wanted, ticks>>
           \/ /\ Listed' /\ ticks' \in [Handler -> Nat]
              /\ timer_num' = timer_num + 1 /\ ms \in Nat \ {0}
              /\ timer_list'[timer_num] = [ms |-> ms, handler |-> x, counter |-> ms]
              /\ ticks'[x] = Len(roll)
              /\ \A s \in Used : /\ timer_list'[s] = timer_list[s]
                                 /\ ticks'[timer_list[s].handler] = ticks[timer_list[s].handler]
<1>1. CASE timer_num >= MAX_TIMER \/ ms <= 0
  BY Zenon, <1>1 DEF register_timer
<1>2. CASE ~ (timer_num >= MAX_TIMER \/ ms <= 0)
  <2> DEFINE n == timer_num
             new == [ms |-> ms, handler |-> x, counter |-> ms]
  <2>1. /\ timer_list' = [timer_list EXCEPT ![n] = new]
        /\ timer_num' = n + 1 /\ wanted' = Append(wanted, x)
        /\ ticks' = [ticks EXCEPT ![x] = Len(roll)]
    BY Zenon, <1>2 DEF register_timer
  <2>2. /\ n \in Nat /\ n + 1 \in 0 .. MAX_TIMER /\ n \in Slot /\ MAX_TIMER \in Nat
        /\ ms \in Nat \ {0} /\ wanted \in Seq(Handler) /\ Len(wanted) = n
    BY <1>2, Sizes DEF Listed
  <2>3. new \in Timer
    BY Zenon, Sizes DEF Timer
  <2> HIDE DEF new, n
  <2>4. /\ timer_list' \in [Slot -> Timer] /\ timer_list'[n] = new
        /\ \A s \in Slot : s # n => timer_list'[s] = timer_list[s]
    BY Zenon, <2>1, <2>2, <2>3 DEF Listed
  <2>5. /\ wanted' \in Seq(Handler) /\ Len(wanted') = n + 1 /\ wanted'[n + 1] = x
        /\ \A j \in 1 .. n : wanted'[j] = wanted[j]
    BY SMTT(30), <2>1, <2>2, AppendProperties
  <2>6. ticks' \in [Handler -> Nat] /\ ticks'[x] = Len(roll)
        /\ \A y \in Handler : y # x => ticks'[y] = ticks[y]
    BY Zenon, <2>1
  <2>7. \A j \in 1 .. n : wanted[j] # x /\ wanted[j] \in Handler
    BY <2>2 DEF Wanted
  <2>8. Listed'
    <3>1. ASSUME NEW s \in Slot, s < n + 1
          PROVE  /\ timer_list'[s].handler = wanted'[s + 1]
                 /\ timer_list'[s].ms \in Ms /\ timer_list'[s].ms > 0
      <4>1. CASE s = n
        BY <2>2, <2>4, <2>5, <4>1 DEF new
      <4>2. CASE s # n
        <5>1. s < n /\ s + 1 \in 1 .. n
          BY <2>2, <3>1, <4>2, Sizes
        <5> QED BY Zenon, <2>4, <2>5, <4>2, <5>1 DEF Listed, n
      <4> QED BY Zenon, <4>1, <4>2
    <3>2. ASSUME NEW s \in Slot, ~ (s < n + 1) PROVE timer_list'[s] = Unused
      <4>1. s # n /\ ~ (s < n)
        BY <2>2, <3>2, Sizes
      <4> QED BY Zenon, <2>4, <4>1 DEF Listed, n
    <3>3. ASSUME NEW j \in 1 .. n + 1, NEW k \in 1 .. n + 1, wanted'[j] = wanted'[k]
          PROVE  j = k
      <4>1. (j \in 1 .. n \/ j = n + 1) /\ (k \in 1 .. n \/ k = n + 1)
        BY <2>2
      <4>2. CASE j \in 1 .. n /\ k \in 1 .. n
        BY Zenon, <2>2, <2>5, <3>3, <4>2 DEF Listed
      <4>3. CASE j \in 1 .. n /\ k = n + 1
        BY Zenon, <2>5, <2>7, <3>3, <4>3
      <4>4. CASE j = n + 1 /\ k \in 1 .. n
        BY Zenon, <2>5, <2>7, <3>3, <4>4
      <4> QED BY Zenon, <4>1, <4>2, <4>3, <4>4
    <3> QED BY ZenonT(30), <2>1, <2>2, <2>4, <2>5, <3>1, <3>2, <3>3 DEF Listed
  <2>9. ASSUME NEW s \in Used
        PROVE  /\ timer_list'[s] = timer_list[s]
               /\ ticks'[timer_list[s].handler] = ticks[timer_list[s].handler]
    <3>1. s \in Slot /\ s < n /\ s # n /\ s + 1 \in 1 .. n
      BY <2>2, Sizes DEF Used, n
    <3>2. timer_list[s].handler = wanted[s + 1]
      BY Zenon, <3>1 DEF Listed, n
    <3> QED BY Zenon, <2>4, <2>6, <2>7, <3>1, <3>2
  <2> QED BY Zenon, <2>1, <2>2, <2>4, <2>6, <2>8, <2>9 DEF n, new
<1> QED BY Zenon, <1>1, <1>2
-----------------------------------------------------------------------------
(* The steps of the main program.                                          *)

\* Nothing is registered, and no interrupt is served.
LEMMA InitStep == Init => IInv
<1> SUFFICES ASSUME Init PROVE IInv
  BY Zenon
<1>1. timer_num = 0 /\ wanted = <<>> /\ roll = <<>> /\ pc = "idle"
      /\ timer_list = [s \in Slot |-> Unused]
  BY Zenon DEF Init
<1>2. wanted \in Seq(Handler) /\ Len(wanted) = 0
  BY SMTT(30), <1>1
<1>3. Listed
  <2>1. Unused \in Timer
    BY DEF Unused, Timer
  <2> QED BY SMTT(30), <1>1, <1>2, <2>1, Sizes DEF Listed
<1>4. Types /\ Interrupts /\ Scanning
  BY Zenon, <1>1 DEF Init, Types, Interrupts, Scanning
<1>5. Counters
  BY SMTT(30), <1>1 DEF Counters, Used
<1> QED BY Zenon, <1>3, <1>4, <1>5 DEF IInv

\* The counters of the timers that are still in the list, when no timer moves and
\* timer_rolling is where it was.
LEMMA CountersKept ==
    ASSUME Counters, \A s \in Used' : s \in Used /\ timer_list'[s] = timer_list[s],
           UNCHANGED ticks, \A s \in Used' : Visited(s)' <=> Visited(s)
    PROVE  Counters'
BY DEF Counters

\* register_timer in the main program.
LEMMA RegisterStep ==
    ASSUME IInv, NEW x \in Handler, NEW ms \in Ms, Register(x, ms)
    PROVE  IInv'
<1>1. /\ roll = <<>> /\ pc = "idle" /\ x \notin Wanted /\ register_timer(ms, x)
      /\ UNCHANGED <<ifl, pc, h, i, roll>>
  BY Zenon DEF Register, Main, MayRegister
<1>2. Len(roll) = 0 /\ ticks \in [Handler -> Nat] /\ Listed
  BY Zenon, <1>1 DEF IInv, Types
<1>3. Scanning' /\ Interrupts'
  BY Zenon, <1>1 DEF Scanning, Interrupts
<1>4. CASE UNCHANGED <<timer_list, timer_num, wanted, ticks>>
  BY Zenon, <1>1, <1>3, <1>4 DEF IInv, Types, Listed, Counters, Visited, Used
<1>5. CASE /\ Listed' /\ ticks' \in [Handler -> Nat]
           /\ timer_num' = timer_num + 1 /\ ms \in Nat \ {0}
           /\ timer_list'[timer_num] = [ms |-> ms, handler |-> x, counter |-> ms]
           /\ ticks'[x] = Len(roll)
           /\ \A s \in Used : /\ timer_list'[s] = timer_list[s]
                              /\ ticks'[timer_list[s].handler] = ticks[timer_list[s].handler]
  <2>1. ASSUME NEW s \in Used'
        PROVE  /\ timer_list'[s].counter > 0
               /\ timer_list'[s].counter
                    = timer_list'[s].ms - dec * ticks'[timer_list'[s].handler]
    <3>1. s = timer_num \/ s \in Used
      BY SMTT(30), <1>2, <1>5 DEF Used, Listed
    <3>2. CASE s = timer_num
      BY SMTT(30), <1>2, <1>5, <3>2, Sizes
    <3>3. CASE s \in Used
      BY SMTT(30), <1>1, <1>5, <3>3 DEF IInv, Counters, Visited
    <3> QED BY Zenon, <3>1, <3>2, <3>3
  <2>2. Counters'
    BY Zenon, <1>1, <2>1 DEF Counters, Visited
  <2> QED BY Zenon, <1>1, <1>3, <1>5, <2>2 DEF IInv, Types
<1> QED BY Zenon, <1>1, <1>2, <1>4, <1>5, RegisterNew

\* A call of unregister_timer in the main program starts its scan.
LEMMA UnregisterStep ==
    ASSUME LastFirst, IInv, NEW x \in Handler, Unregister(x)
    PROVE  IInv'
<1>1. /\ x \in Wanted /\ x = wanted[Len(wanted)] /\ roll = <<>>
      /\ pc' = "scan" /\ h' = x /\ i' = 0
      /\ UNCHANGED <<timer_list, timer_num, ifl, roll, wanted, ticks>>
  BY Zenon DEF Unregister, MayUnregister, Main
<1>2. timer_num = Len(wanted) /\ timer_num > 0
  BY Zenon, <1>1, LastTimer DEF IInv, Listed
<1>3. Scanning'
  BY Zenon, <1>1, <1>2 DEF Scanning
<1>4. Types' /\ Interrupts' /\ Listed'
  BY Zenon, <1>1 DEF IInv, Types, Interrupts, Listed
<1>5. Counters'
  BY Zenon, <1>1 DEF IInv, Counters, Visited, Used
<1> QED BY Zenon, <1>3, <1>4, <1>5 DEF IInv

\* One iteration of its loop.
LEMMA ScanStep ==
    ASSUME IInv, Scan PROVE IInv'
<1>1. /\ roll = <<>> /\ pc = "scan"
      /\ UNCHANGED <<timer_list, timer_num, ifl, roll, wanted, ticks>>
  BY Zenon DEF Scan, Main
<1>2. /\ i \in Nat /\ timer_num \in Nat /\ timer_num <= MAX_TIMER /\ MAX_TIMER \in Nat
      /\ h \in Handler
      /\ h \in Wanted => h = wanted[timer_num] /\ i < timer_num
  BY <1>1, Sizes DEF IInv, Types, Listed, Scanning
<1>3. h \in Wanted => timer_list[timer_num - 1].handler = h
  BY Zenon, <1>2, LastTimer DEF IInv
<1>4. (pc' \in {"idle", "scan", "remove"} /\ i' \in Nat) /\ Scanning'
  <2>1. CASE i < timer_num /\ timer_list[i].handler = h /\ pc' = "remove" /\ UNCHANGED <<h, i>>
    <3>1. i \in Slot /\ timer_num - 1 \in 0 .. timer_num - 1 /\ i \in 0 .. timer_num - 1
      BY <1>2, <2>1, Sizes
    <3>2. h \in Wanted => i = timer_num - 1
      BY Zenon, <1>3, <2>1, <3>1, InSlot DEF IInv, Used
    <3> QED BY Zenon, <1>1, <1>2, <2>1, <3>1, <3>2 DEF Scanning, Wanted
  <2>2. CASE i < timer_num /\ timer_list[i].handler # h /\ i' = i + 1 /\ UNCHANGED <<pc, h>>
    <3>1. h \in Wanted => i # timer_num - 1
      BY Zenon, <1>3, <2>2
    <3>2. h \in Wanted => i + 1 < timer_num
      BY <1>2, <3>1
    <3> QED BY SMTT(30), <1>1, <1>2, <2>2, <3>2 DEF Scanning, Wanted
  <2>3. CASE i >= timer_num /\ ScanDone
    BY Zenon, <2>3 DEF ScanDone, Scanning
  <2> QED BY Zenon, <2>1, <2>2, <2>3 DEF Scan
<1>5. Types' /\ Interrupts' /\ Listed'
  BY Zenon, <1>1, <1>4 DEF IInv, Types, Interrupts, Listed
<1>6. Counters'
  BY Zenon, <1>1 DEF IInv, Counters, Visited, Used
<1> QED BY Zenon, <1>4, <1>5, <1>6 DEF IInv

\* The removal: of the last timer, or of nothing when a handler was faster.
LEMMA ScanRemoveStep ==
    ASSUME IInv, ScanRemove PROVE IInv'
<1>1. /\ roll = <<>> /\ pc = "remove" /\ Remove(h, i) /\ UNCHANGED <<ifl, roll>>
      /\ pc' = "idle" /\ i' = 0
  BY Zenon DEF ScanRemove, Main, ScanDone
<1>2. /\ h \in Handler /\ i \in Slot
      /\ h \in Wanted => h = wanted[timer_num] /\ i = timer_num - 1
  BY Zenon, <1>1 DEF IInv, Scanning
<1>3. Scanning' /\ Interrupts'
  BY Zenon, <1>1 DEF Scanning, Interrupts
<1>4. /\ Listed' /\ UNCHANGED ticks
      /\ \A s \in Used' : s \in Used /\ timer_list'[s] = timer_list[s]
  <2>1. CASE h \in Wanted
    BY Zenon, <1>1, <1>2, <2>1, RemoveLast DEF IInv
  <2>2. CASE h \notin Wanted
    <3>1. UNCHANGED <<timer_list, timer_num, wanted, ticks>>
      BY Zenon, <1>1, <1>2, <2>2, RemoveGone DEF IInv
    <3> QED BY Zenon, <3>1 DEF IInv, Listed, Used
  <2> QED BY Zenon, <2>1, <2>2
<1>5. Types'
  BY Zenon, <1>1, <1>4 DEF IInv, Types
<1>6. \A s \in Used' : Visited(s)' <=> Visited(s)
  BY Zenon, <1>1 DEF Visited
<1>7. Counters'
  BY Zenon, <1>4, <1>6, CountersKept DEF IInv
<1> QED BY Zenon, <1>3, <1>4, <1>5, <1>7 DEF IInv
-----------------------------------------------------------------------------
(* The steps of the clock interrupt.                                       *)

\* What is left of a period after some ticks.
LEMMA TicksBelow ==
    ASSUME NEW ms \in Ms, NEW t \in Nat, dec * t < ms
    PROVE  t < MaxTicks
<1>1. PICK d \in Nat \ {0}, m \in Nat, p \in Int :
         d = dec /\ m = MaxTicks /\ p = ms /\ p < d * m /\ d * t < p
  BY Zenon, Sizes
<1>2. CASE ~ (t < m)
  <2>1. PICK u \in Nat : t = m + u
    <3>1. t - m \in Nat /\ t = m + (t - m)
      BY <1>2
    <3> QED BY ONLY Zenon, <3>1
  <2>2. d * t = d * m + d * u /\ d * u \in Nat /\ d * m \in Nat
    BY ONLY SMTT(30), <1>1, <2>1
  <2> QED BY ONLY <1>1, <2>2
<1> QED BY Zenon, <1>1, <1>2

\* A used slot holds a timer of a wanted handler with a positive period.
LEMMA UsedSlot ==
    ASSUME Types, Listed, NEW s \in Used
    PROVE  /\ s \in Slot /\ s \in Nat /\ s < timer_num /\ timer_list[s] \in Timer
           /\ timer_list[s].handler \in Handler /\ timer_list[s].handler \in Wanted
           /\ timer_list[s].ms \in Ms /\ timer_list[s].ms \in Nat \ {0}
           /\ timer_list[s].counter \in Int
           /\ ticks[timer_list[s].handler] \in Nat
<1>1. s \in Slot /\ s \in Nat /\ s < timer_num
  BY Sizes DEF Used, Listed
<1>2. timer_list[s] \in Timer /\ timer_list[s].ms \in Ms /\ timer_list[s].ms > 0
  BY Zenon, <1>1 DEF Listed
<1>3. timer_list[s].handler \in Wanted
  BY Zenon, <1>1, InSlot
<1>4. Wanted \subseteq Handler
  BY DEF Listed, Wanted
<1> QED BY SMTT(30), <1>1, <1>2, <1>3, <1>4, Sizes DEF Types, Timer

\* The interrupt: every timer is one tick behind.
LEMMA TickStep ==
    ASSUME IInv, Tick PROVE IInv'
<1>1. /\ roll = <<>> /\ ifl' = FALSE
      /\ roll' = Append(roll, [i |-> 0, calling |-> FALSE])
      /\ ticks' = [x \in Handler |-> IF x \in Wanted /\ ticks[x] < MaxTicks
                                      THEN ticks[x] + 1 ELSE ticks[x]]
      /\ UNCHANGED <<timer_list, timer_num, pc, h, i, wanted>>
  BY Zenon DEF Tick, IInv, Interrupts
<1>2. roll' = <<[i |-> 0, calling |-> FALSE]>> /\ roll'[1] = [i |-> 0, calling |-> FALSE]
      /\ roll' # <<>>
  BY SMTT(30), <1>1
<1>3. Interrupts'
  BY SMTT(30), <1>1, <1>2 DEF Interrupts, Call
<1>4. ticks' \in [Handler -> Nat]
  BY SMTT(30), <1>1 DEF IInv, Types
<1>5. Types' /\ Listed' /\ Scanning'
  BY SMTT(30), <1>1, <1>4 DEF IInv, Types, Listed, Scanning, Wanted
<1>6. ASSUME NEW s \in Used'
      PROVE  /\ timer_list'[s].counter > 0
             /\ timer_list'[s].counter
                  = timer_list'[s].ms - dec * (IF Visited(s)' THEN ticks'[timer_list'[s].handler]
                                                   ELSE ticks'[timer_list'[s].handler] - 1)
  <2> DEFINE t == timer_list[s]
  <2>1. s \in Used /\ Visited(s)
    BY Zenon, <1>1 DEF Used, Visited
  <2>2. /\ s \in Nat /\ t.handler \in Handler /\ t.handler \in Wanted /\ t.ms \in Ms
        /\ t.ms \in Nat /\ t.counter \in Int /\ ticks[t.handler] \in Nat
    BY Zenon, <2>1, UsedSlot DEF IInv
  <2>3. t.counter > 0 /\ t.counter = t.ms - dec * ticks[t.handler]
    BY Zenon, <2>1 DEF IInv, Counters
  <2> HIDE DEF t
  <2>4. dec * ticks[t.handler] < t.ms
    <3>1. PICK a \in Int, b \in Int, c \in Int : a = t.ms /\ b = dec * ticks[t.handler] /\ c = t.counter
      BY SMTT(30), <2>2, Sizes
    <3> QED BY ONLY SMTT(30), <2>3, <3>1
  <2>5. ticks[t.handler] < MaxTicks
    BY Zenon, <2>2, <2>4, TicksBelow
  <2>6. ticks'[t.handler] - 1 = ticks[t.handler]
    BY SMTT(30), <1>1, <2>2, <2>5
  <2>7. ~ Visited(s)'
    BY SMTT(30), <1>2, <2>2 DEF Visited
  <2> QED BY Zenon, <1>1, <2>3, <2>6, <2>7 DEF t
<1>7. Counters'
  BY Zenon, <1>6 DEF Counters
<1> QED BY Zenon, <1>3, <1>5, <1>7 DEF IInv

\* What the running call of timer_rolling has reached.
LEMMA Running ==
    ASSUME Interrupts, roll # <<>>
    PROVE  /\ Top = 1 /\ roll = <<roll[1]>> /\ roll[1] \in Call
           /\ roll[1].i \in Nat /\ roll[1].calling \in BOOLEAN /\ ~ifl
           /\ SubSeq(roll, 1, Top - 1) = <<>>
           /\ \A c \in Call : [roll EXCEPT ![1] = c] = <<c>>
<1>1. roll = <<roll[1]>> /\ roll[1] \in Call /\ ~ifl
  BY Zenon DEF Interrupts
<1>2. PICK r \in Call : r = roll[1]
  BY Zenon, <1>1
<1>3. roll = <<r>>
  BY Zenon, <1>1, <1>2
<1>4. Top = 1 /\ \A c \in Call : [roll EXCEPT ![1] = c] = <<c>>
  BY SMTT(30), <1>3 DEF Top
<1>5. SubSeq(roll, 1, Top - 1) = <<>>
  BY SMTT(30), <1>4, SubSeqEmpty
<1> QED BY Zenon, <1>1, <1>4, <1>5 DEF Call

\* timer_rolling returns: it has reached every timer.
LEMMA RollDoneStep ==
    ASSUME IInv, RollDone PROVE IInv'
<1>1. /\ roll # <<>> /\ roll[Top].i >= timer_num /\ roll' = SubSeq(roll, 1, Top - 1)
      /\ UNCHANGED <<timer_list, timer_num, pc, h, i, wanted, ticks>>
  BY Zenon DEF RollDone, Rolling
<1>2. roll' = <<>> /\ roll[1].i \in Nat /\ roll[1].i >= timer_num
  BY Zenon, <1>1, Running DEF IInv
<1>3. Types' /\ Interrupts' /\ Listed' /\ Scanning'
  BY SMTT(30), <1>1, <1>2 DEF IInv, Types, Interrupts, Listed, Scanning, Wanted
<1>4. ASSUME NEW s \in Used' PROVE s \in Used /\ Visited(s) /\ Visited(s)'
  BY <1>1, <1>2 DEF Used, Visited, IInv, Listed
<1>5. Counters'
  BY Zenon, <1>1, <1>4, CountersKept DEF IInv
<1> QED BY Zenon, <1>3, <1>5 DEF IInv

\* A handler returns: timer_rolling goes on behind its timer.
LEMMA Returned ==
    ASSUME Interrupts, Calling, HandlerReturns
    PROVE  \E k \in Nat :
             /\ k < timer_num /\ ~ifl /\ Len(roll) = 1
             /\ roll' = <<[i |-> k + 1, calling |-> FALSE]>> /\ roll' # <<>>
             /\ roll'[1] = [i |-> k + 1, calling |-> FALSE]
             /\ \A s \in Int : (Visited(s) <=> s < k + 1) /\ (Visited(s)' <=> s < k + 1)
             /\ UNCHANGED <<pc, h, i>>
<1>1. roll # <<>> /\ roll[Top].calling
      /\ roll' = [roll EXCEPT ![Top] = [i |-> roll[Top].i + 1, calling |-> FALSE]]
      /\ UNCHANGED <<pc, h, i>>
  BY Zenon DEF Calling, HandlerReturns
<1>2. PICK k \in Nat : k = roll[1].i
  BY Zenon, <1>1, Running
<1>3. Top = 1 /\ ~ifl /\ roll[1].calling /\ k < timer_num
  BY Zenon, <1>1, <1>2, Running DEF Interrupts
<1>4. roll' = <<[i |-> k + 1, calling |-> FALSE]>>
  <2>1. [i |-> k + 1, calling |-> FALSE] \in Call
    BY <1>2 DEF Call
  <2>2. roll' = [roll EXCEPT ![1] = [i |-> k + 1, calling |-> FALSE]]
    BY Zenon, <1>1, <1>2, <1>3
  <2> QED BY Zenon, <1>1, <2>1, <2>2, Running
<1>5. roll' # <<>> /\ roll'[1] = [i |-> k + 1, calling |-> FALSE]
  BY Zenon, <1>4
<1>6. \A s \in Int : (Visited(s) <=> s < k + 1) /\ (Visited(s)' <=> s < k + 1)
  <2> TAKE s \in Int
  <2>1. Visited(s) <=> (s < k \/ s = k)
    BY Zenon, <1>1, <1>2, <1>3 DEF Visited
  <2>2. Visited(s)' <=> s < k + 1
    BY <1>5 DEF Visited
  <2> QED BY <2>1, <2>2
<1> QED BY Zenon, <1>1, <1>3, <1>4, <1>5, <1>6 DEF Top

\* A handler that does nothing with the timers.
LEMMA HandlerIdleStep ==
    ASSUME IInv, HandlerIdle PROVE IInv'
<1>1. PICK k \in Nat :
        /\ ~ifl /\ roll' = <<[i |-> k + 1, calling |-> FALSE]>> /\ roll' # <<>>
        /\ roll'[1] = [i |-> k + 1, calling |-> FALSE]
        /\ \A s \in Int : (Visited(s) <=> s < k + 1) /\ (Visited(s)' <=> s < k + 1)
        /\ UNCHANGED <<pc, h, i>>
  BY Zenon, Returned DEF IInv, HandlerIdle
<1>2. UNCHANGED <<timer_list, timer_num, ifl, wanted, ticks>>
  BY Zenon DEF HandlerIdle
<1>3. Interrupts'
  BY SMTT(30), <1>1, <1>2 DEF Interrupts, Call
<1>4. Types' /\ Listed' /\ Scanning'
  BY SMTT(30), <1>1, <1>2 DEF IInv, Types, Listed, Scanning, Wanted
<1>5. \A s \in Used' : s \in Used /\ s \in Int
  BY <1>2 DEF Used
<1>6. Counters'
  BY Zenon, <1>1, <1>2, <1>5, CountersKept DEF IInv
<1> QED BY Zenon, <1>3, <1>4, <1>6 DEF IInv

\* A handler that registers a timer: timer_rolling will reach it in this interrupt.
LEMMA HandlerRegistersStep ==
    ASSUME LastFirst, IInv, NEW x \in Handler, NEW ms \in Ms, HandlerRegisters(x, ms)
    PROVE  IInv'
<1>1. PICK k \in Nat :
        /\ k < timer_num /\ ~ifl /\ Len(roll) = 1
        /\ roll' = <<[i |-> k + 1, calling |-> FALSE]>> /\ roll' # <<>>
        /\ roll'[1] = [i |-> k + 1, calling |-> FALSE]
        /\ \A s \in Int : (Visited(s) <=> s < k + 1) /\ (Visited(s)' <=> s < k + 1)
        /\ UNCHANGED <<pc, h, i>>
  BY Zenon, Returned DEF IInv, HandlerRegisters
<1>2. /\ pc = "idle" /\ x \notin Wanted /\ register_timer(ms, x) /\ ifl' = ifl
      /\ ticks \in [Handler -> Nat] /\ Listed
  BY Zenon DEF HandlerRegisters, MayRegister, local_irq_restore, IInv, Types
<1>3. Interrupts' /\ Scanning'
  BY SMTT(30), <1>1, <1>2 DEF Interrupts, Call, Scanning
<1>4. CASE UNCHANGED <<timer_list, timer_num, wanted, ticks>>
  <2>1. Types' /\ Listed'
    BY Zenon, <1>1, <1>4 DEF IInv, Types, Listed
  <2>2. \A s \in Used' : s \in Used /\ s \in Int
    BY <1>4 DEF Used
  <2>3. Counters'
    BY Zenon, <1>1, <1>4, <2>2, CountersKept DEF IInv
  <2> QED BY Zenon, <1>3, <2>1, <2>3 DEF IInv
<1>5. CASE /\ Listed' /\ ticks' \in [Handler -> Nat]
           /\ timer_num' = timer_num + 1 /\ ms \in Nat \ {0}
           /\ timer_list'[timer_num] = [ms |-> ms, handler |-> x, counter |-> ms]
           /\ ticks'[x] = Len(roll)
           /\ \A s \in Used : /\ timer_list'[s] = timer_list[s]
                              /\ ticks'[timer_list[s].handler] = ticks[timer_list[s].handler]
  <2>1. ASSUME NEW s \in Used'
        PROVE  /\ timer_list'[s].counter > 0
               /\ timer_list'[s].counter
                    = timer_list'[s].ms - dec * (IF Visited(s)' THEN ticks'[timer_list'[s].handler]
                                                     ELSE ticks'[timer_list'[s].handler] - 1)
    <3>1. s \in Int /\ timer_num \in Nat /\ (s = timer_num \/ s \in Used)
      BY SMTT(30), <1>2, <1>5 DEF Used, Listed
    <3>2. CASE s = timer_num
      <4>1. ~ Visited(s)'
        BY SMTT(30), <1>1, <3>1, <3>2
      <4>2. /\ timer_list'[s].ms = ms /\ timer_list'[s].counter = ms
            /\ ticks'[timer_list'[s].handler] = 1
        <5>1. timer_list'[s] = [ms |-> ms, handler |-> x, counter |-> ms] /\ ticks'[x] = 1
          BY Zenon, <1>1, <1>5, <3>2
        <5>2. /\ timer_list'[s].ms = ms /\ timer_list'[s].counter = ms
              /\ timer_list'[s].handler = x
          BY ONLY SMTT(30), <5>1
        <5> QED BY Zenon, <5>1, <5>2
      <4>3. ms > 0 /\ ms = ms - dec * (1 - 1)
        <5>1. ms \in Nat \ {0}
          BY Zenon, <1>5
        <5> QED BY ONLY SMTT(30), <5>1, Sizes
      <4> QED BY Zenon, <4>1, <4>2, <4>3
    <3>3. CASE s \in Used
      <4>1. Visited(s)' <=> Visited(s)
        BY Zenon, <1>1, <3>1
      <4> QED BY SMTT(30), <1>5, <3>3, <4>1 DEF IInv, Counters
    <3> QED BY Zenon, <3>1, <3>2, <3>3
  <2>2. Counters'
    BY Zenon, <2>1 DEF Counters
  <2>3. Types'
    BY Zenon, <1>1, <1>5 DEF IInv, Types
  <2> QED BY Zenon, <1>3, <1>5, <2>2, <2>3 DEF IInv
<1>6. Len(roll) \in Nat
  BY <1>1
<1> QED BY SMTT(30), <1>2, <1>4, <1>5, <1>6, RegisterNew

\* A handler that unregisters a timer, for instance its own.
LEMMA HandlerUnregistersStep ==
    ASSUME LastFirst, IInv, NEW x \in Handler, HandlerUnregisters(x)
    PROVE  IInv'
<1>1. PICK k \in Nat :
        /\ ~ifl /\ roll' = <<[i |-> k + 1, calling |-> FALSE]>> /\ roll' # <<>>
        /\ roll'[1] = [i |-> k + 1, calling |-> FALSE]
        /\ \A s \in Int : (Visited(s) <=> s < k + 1) /\ (Visited(s)' <=> s < k + 1)
        /\ UNCHANGED <<pc, h, i>>
  BY Zenon, Returned DEF IInv, HandlerUnregisters
<1>2. /\ x \in Wanted /\ x = wanted[timer_num] /\ Remove(x, FirstWith(x)) /\ ifl' = ifl
  BY Zenon DEF HandlerUnregisters, MayUnregister, local_irq_restore, IInv, Listed
<1>3. Remove(x, timer_num - 1)
  BY Zenon, <1>2, LastTimer DEF IInv
<1>4. /\ Listed' /\ timer_num' = timer_num - 1 /\ UNCHANGED ticks
      /\ x \notin Wanted' /\ Wanted' \subseteq Wanted
      /\ \A s \in Used' : s \in Used /\ timer_list'[s] = timer_list[s]
  BY Zenon, <1>2, <1>3, RemoveLast DEF IInv
<1>5. Interrupts' /\ Types'
  BY SMTT(30), <1>1, <1>2, <1>4 DEF IInv, Interrupts, Call, Types
<1>6. Scanning'
  <2>1. pc # "idle" => h \in Handler /\ (pc = "remove" => i \in Slot) /\ h \notin Wanted'
    BY Zenon, <1>2, <1>4 DEF IInv, Scanning
  <2> QED BY Zenon, <1>1, <2>1 DEF Scanning
<1>7. \A s \in Used' : s \in Int
  BY DEF Used
<1>8. Counters'
  BY Zenon, <1>1, <1>4, <1>7, CountersKept DEF IInv
<1> QED BY Zenon, <1>4, <1>5, <1>6, <1>8 DEF IInv

\* A call that runs no handler.
LEMMA NoHandlerRuns ==
    ASSUME NEW r \in Call, ~r.calling
    PROVE  r = [i |-> r.i, calling |-> FALSE]
<1>1. PICK k \in Nat, b \in BOOLEAN : r = [i |-> k, calling |-> b]
  BY Zenon DEF Call
<1>2. r.i = k /\ r.calling = b
  BY Zenon, <1>1
<1>3. b = FALSE
  BY Zenon, <1>2
<1> QED BY Zenon, <1>1, <1>2, <1>3

\* What the two ends of an iteration do to the call.
LEMMA Iteration ==
    ASSUME NEW k \in Nat, NEW f, NEW t, roll = <<[i |-> k, calling |-> f]>>
    PROVE  /\ [roll EXCEPT ![1].calling = t] = <<[i |-> k, calling |-> t]>>
           /\ [roll EXCEPT ![1].i = k + 1] = <<[i |-> k + 1, calling |-> f]>>
OBVIOUS

\* What an iteration of timer_rolling finds: a timer that is one tick behind.
LEMMA Reached ==
    ASSUME IInv, RollNext
    PROVE  \E k \in Used, t \in Timer :
             /\ roll = <<[i |-> k, calling |-> FALSE]>> /\ Top = 1
             /\ t = timer_list[k] /\ Current = t
             /\ t.handler \in Handler /\ t.ms \in Nat \ {0} /\ t.counter \in Int
             /\ ticks[t.handler] \in Nat /\ t.counter > 0
             /\ t.counter = t.ms - dec * (ticks[t.handler] - 1)
             /\ \A s \in Int : Visited(s) <=> s < k
<1>1. /\ roll # <<>> /\ ~roll[Top].calling /\ roll[Top].i < timer_num
  BY Zenon DEF RollNext, Rolling
<1>2. Top = 1 /\ roll[1].i \in Nat
  BY Zenon, <1>1, Running DEF IInv
<1>3. PICK k \in Used : k = roll[1].i
  BY <1>1, <1>2 DEF Used, IInv, Listed
<1>4. PICK t \in Timer : t = timer_list[k]
  BY Zenon, UsedSlot DEF IInv
<1>5. /\ t.handler \in Handler /\ t.ms \in Nat \ {0} /\ t.counter \in Int
      /\ ticks[t.handler] \in Nat
  BY Zenon, <1>4, UsedSlot DEF IInv
<1>6. \A s \in Int : Visited(s) <=> s < k
  BY Zenon, <1>1, <1>2, <1>3 DEF Visited
<1>7. ~ Visited(k)
  BY SMTT(30), <1>2, <1>3, <1>6
<1>8. t.counter > 0 /\ t.counter = t.ms - dec * (ticks[t.handler] - 1)
  BY Zenon, <1>4, <1>7 DEF IInv, Counters
<1>9. roll = <<[i |-> k, calling |-> FALSE]>>
  <2>1. PICK r \in Call : r = roll[1] /\ roll = <<r>>
    BY Zenon, <1>1, Running DEF IInv
  <2>2. ~ r.calling /\ r.i = k
    BY Zenon, <1>1, <1>2, <1>3, <2>1
  <2> QED BY Zenon, <2>1, <2>2, NoHandlerRuns
<1> QED BY Zenon, <1>2, <1>3, <1>4, <1>5, <1>6, <1>8, <1>9 DEF Current

\* What is left is the period without the ticks so far.
LEMMA Left ==
    ASSUME NEW c \in Int, NEW p \in Int, NEW n \in Nat, c = p - dec * (n - 1)
    PROVE  c - dec = p - dec * n /\ dec * n \in Nat /\ p = p - dec * 0
<1>1. PICK d \in Nat : d = dec
  BY Zenon, Sizes
<1>2. d * (n - 1) = d * n - d /\ d * n \in Nat /\ d * 0 = 0
  BY ONLY SMTT(30), <1>1, n \in Nat
<1>3. PICK e \in Nat : e = d * n
  BY Zenon, <1>2
<1> QED BY SMTT(30), <1>1, <1>2, <1>3

\* Writing one counter keeps the rest of the list.
LEMMA CounterWritten ==
    ASSUME Types, Listed, NEW k \in Used, NEW c \in Int,
           timer_list' = [timer_list EXCEPT ![k].counter = c],
           UNCHANGED <<timer_num, wanted>>
    PROVE  /\ Listed' /\ timer_list'[k].counter = c
           /\ timer_list'[k].ms = timer_list[k].ms
           /\ timer_list'[k].handler = timer_list[k].handler
           /\ \A s \in Used : s # k => timer_list'[s] = timer_list[s]
<1>1. PICK t \in Timer : t = timer_list[k]
  BY Zenon, UsedSlot
<1>2. k \in Slot /\ k < timer_num
  BY Zenon, UsedSlot
<1>3. \A s \in Used : s \in Slot
  BY Zenon, UsedSlot
<1> DEFINE u == [t EXCEPT !.counter = c]
<1>4. u \in Timer /\ u.counter = c /\ u.ms = t.ms /\ u.handler = t.handler
  BY Zenon DEF Timer
<1>5. timer_list' = [timer_list EXCEPT ![k] = u]
  BY Zenon, <1>1
<1> HIDE DEF u
<1>6. /\ timer_list' \in [Slot -> Timer] /\ timer_list'[k] = u
      /\ \A s \in Slot : s # k => timer_list'[s] = timer_list[s]
  BY SMTT(30), <1>2, <1>4, <1>5 DEF Listed
<1>7. \A s \in Slot : IF s < timer_num
                        THEN /\ timer_list'[s].handler = wanted[s + 1]
                             /\ timer_list'[s].ms \in Ms /\ timer_list'[s].ms > 0
                        ELSE timer_list'[s] = Unused
  BY SMTT(30), <1>1, <1>2, <1>4, <1>6 DEF Listed
<1>8. Listed'
  BY <1>6, <1>7 DEF Listed
<1> QED BY Zenon, <1>1, <1>3, <1>4, <1>6, <1>8

\* One iteration of timer_rolling: the timer is up to date, and called if its period
\* is over.
LEMMA RollNextStep ==
    ASSUME IInv, RollNext PROVE IInv'
<1>1. PICK k \in Used, t \in Timer :
        /\ roll = <<[i |-> k, calling |-> FALSE]>> /\ Top = 1
        /\ t = timer_list[k] /\ Current = t
        /\ t.handler \in Handler /\ t.ms \in Nat \ {0} /\ t.counter \in Int
        /\ ticks[t.handler] \in Nat /\ t.counter > 0
        /\ t.counter = t.ms - dec * (ticks[t.handler] - 1)
        /\ \A s \in Int : Visited(s) <=> s < k
  BY Zenon, Reached
<1> DEFINE left == t.counter - dec
<1>2. /\ timer_list' = [timer_list EXCEPT ![k].counter = IF left <= 0 THEN t.ms ELSE left]
      /\ roll' = IF left <= 0 THEN [roll EXCEPT ![1].calling = TRUE]
                              ELSE [roll EXCEPT ![1].i = k + 1]
      /\ ticks' = IF left <= 0 THEN [x \in Handler |-> IF x = t.handler THEN 0 ELSE ticks[x]]
                               ELSE ticks
      /\ UNCHANGED <<timer_num, ifl, pc, h, i, wanted>>
  <2>1. roll[Top].i = k
    BY Zenon, <1>1
  <2> QED BY Zenon, <1>1, <2>1 DEF RollNext
<1>3. left = t.ms - dec * ticks[t.handler] /\ left \in Int /\ t.ms = t.ms - dec * 0
  <2>1. PICK c \in Int, p \in Int, n \in Nat :
          c = t.counter /\ p = t.ms /\ n = ticks[t.handler]
    BY <1>1
  <2>2. c = p - dec * (n - 1)
    BY Zenon, <1>1, <2>1
  <2>3. c - dec = p - dec * n /\ dec * n \in Nat /\ p = p - dec * 0
    BY Zenon, <2>2, Left
  <2>4. c - dec \in Int
    BY SMTT(30), Sizes
  <2> QED BY Zenon, <2>1, <2>3, <2>4
<1> HIDE DEF left
<1>4. /\ k \in Nat /\ k < timer_num /\ k \in Slot
      /\ \A s \in Used : s \in Slot /\ s \in Int
      /\ \A s \in Used : s # k => timer_list[s].handler # t.handler
                                   /\ timer_list[s].handler \in Handler
  <2>1. Types /\ Listed
    BY Zenon DEF IInv
  <2>2. k \in Nat /\ k < timer_num /\ k \in Slot /\ \A s \in Used : s \in Slot /\ s \in Nat
    BY Zenon, <2>1, UsedSlot
  <2>3. \A s \in Used : timer_list[s].handler \in Handler
    BY Zenon, <2>1, UsedSlot
  <2> QED BY SMTT(30), <1>1, <2>1, <2>2, <2>3, InSlot
<1>5. ~ifl /\ Types /\ Listed /\ UNCHANGED <<timer_num, wanted>>
  BY Zenon, <1>1, <1>2, Running DEF IInv
<1>6. CASE left <= 0
  <2>1. timer_list' = [timer_list EXCEPT ![k].counter = t.ms] /\ t.ms \in Int
    <3>1. PICK p \in Nat : p = t.ms
      BY Zenon, <1>1
    <3>2. p \in Int
      BY ONLY SMT, p \in Nat
    <3> QED BY Zenon, <1>2, <1>6, <3>1, <3>2
  <2>2. /\ Listed' /\ timer_list'[k].counter = t.ms /\ timer_list'[k].ms = t.ms
        /\ timer_list'[k].handler = t.handler
        /\ \A s \in Used : s # k => timer_list'[s] = timer_list[s]
    BY Zenon, <1>1, <1>5, <2>1, CounterWritten
  <2>3. roll' = <<[i |-> k, calling |-> TRUE]>>
    <3>1. roll' = [roll EXCEPT ![1].calling = TRUE]
      BY Zenon, <1>2, <1>6
    <3>2. [roll EXCEPT ![1].calling = TRUE] = <<[i |-> k, calling |-> TRUE]>>
      BY ZenonT(30), <1>1, <1>4, Iteration
    <3> QED BY Zenon, <3>1, <3>2
  <2>4. roll' # <<>> /\ roll'[1] = [i |-> k, calling |-> TRUE]
    BY Zenon, <2>3
  <2>5. Interrupts'
    <3>1. PICK r \in Call : r = [i |-> k, calling |-> TRUE]
      BY Zenon, <1>4 DEF Call
    <3>2. r.i = k
      BY Zenon, <3>1
    <3>3. roll' = <<r>> /\ roll'[1] = r /\ roll' # <<>>
      BY Zenon, <2>3, <2>4, <3>1
    <3> QED BY Zenon, <1>2, <1>4, <1>5, <3>2, <3>3 DEF Interrupts
  <2>6. ticks' = [x \in Handler |-> IF x = t.handler THEN 0 ELSE ticks[x]]
    BY Zenon, <1>2, <1>6
  <2>7. Types' /\ Scanning'
    <3>1. 0 \in Nat
      OBVIOUS
    <3>2. ticks' \in [Handler -> Nat]
      BY Zenon, <2>6, <3>1 DEF IInv, Types
    <3> QED BY Zenon, <1>2, <3>2 DEF IInv, Types, Scanning, Wanted
  <2>8. ASSUME NEW s \in Used
        PROVE  /\ timer_list'[s].counter > 0
               /\ timer_list'[s].counter
                    = timer_list'[s].ms - dec * (IF Visited(s)' THEN ticks'[timer_list'[s].handler]
                                                     ELSE ticks'[timer_list'[s].handler] - 1)
    <3>1. CASE s = k
      <4>1. Visited(s)'
        BY <2>4, <3>1 DEF Visited
      <4> QED BY SMTT(30), <1>1, <1>3, <2>2, <2>6, <3>1, <4>1
    <3>2. CASE s # k
      <4>1. Visited(s)' <=> Visited(s)
        BY <1>1, <1>4, <2>4, <3>2 DEF Visited
      <4>2. timer_list'[s] = timer_list[s]
        BY Zenon, <2>2, <3>2
      <4>3. ticks'[timer_list[s].handler] = ticks[timer_list[s].handler]
        BY Zenon, <1>4, <2>6, <3>2
      <4> QED BY Zenon, <4>1, <4>2, <4>3 DEF IInv, Counters
    <3> QED BY Zenon, <3>1, <3>2
  <2>9. Counters'
    BY Zenon, <1>2, <2>8 DEF Counters, Used
  <2> QED BY Zenon, <2>2, <2>5, <2>7, <2>9 DEF IInv
<1>7. CASE ~ (left <= 0)
  <2>1. timer_list' = [timer_list EXCEPT ![k].counter = left] /\ ticks' = ticks
    BY Zenon, <1>2, <1>7
  <2>2. /\ Listed' /\ timer_list'[k].counter = left /\ timer_list'[k].ms = t.ms
        /\ timer_list'[k].handler = t.handler
        /\ \A s \in Used : s # k => timer_list'[s] = timer_list[s]
    BY Zenon, <1>1, <1>3, <1>5, <2>1, CounterWritten
  <2>3. roll' = <<[i |-> k + 1, calling |-> FALSE]>>
    BY Zenon, <1>1, <1>2, <1>4, <1>7, Iteration
  <2>4. roll' # <<>> /\ roll'[1] = [i |-> k + 1, calling |-> FALSE]
    BY Zenon, <2>3
  <2>5. Interrupts'
    <3>1. [i |-> k + 1, calling |-> FALSE] \in Call
      BY <1>4 DEF Call
    <3> QED BY SMTT(30), <1>2, <1>4, <1>5, <2>3, <2>4, <3>1 DEF Interrupts
  <2>6. Types' /\ Scanning'
    BY Zenon, <1>2, <2>1 DEF IInv, Types, Scanning, Wanted
  <2>7. ASSUME NEW s \in Used
        PROVE  /\ timer_list'[s].counter > 0
               /\ timer_list'[s].counter
                    = timer_list'[s].ms - dec * (IF Visited(s)' THEN ticks'[timer_list'[s].handler]
                                                     ELSE ticks'[timer_list'[s].handler] - 1)
    <3>1. Visited(s)' <=> s < k + 1
      BY SMTT(30), <2>4 DEF Visited
    <3>2. CASE s = k
      <4>1. Visited(s)'
        BY SMTT(30), <1>4, <3>1, <3>2
      <4>2. left > 0
        BY <1>3, <1>7
      <4> QED BY Zenon, <1>3, <2>1, <2>2, <3>2, <4>1, <4>2
    <3>3. CASE s # k
      <4>1. s \in Int /\ k \in Int /\ (Visited(s) <=> s < k)
        BY Zenon, <1>1, <1>4
      <4>2. s < k <=> s < k + 1
        BY <3>3, <4>1
      <4>3. Visited(s)' <=> Visited(s)
        BY Zenon, <3>1, <4>1, <4>2
      <4>4. timer_list'[s] = timer_list[s]
        BY Zenon, <2>2, <3>3
      <4> QED BY Zenon, <2>1, <4>3, <4>4 DEF IInv, Counters
    <3> QED BY SMTT(30), <3>2, <3>3
  <2>8. Counters'
    BY Zenon, <1>2, <2>7 DEF Counters, Used
  <2> QED BY Zenon, <2>2, <2>5, <2>6, <2>8 DEF IInv
<1> QED BY Zenon, <1>6, <1>7

\* A step that changes nothing.
LEMMA StutterStep ==
    ASSUME IInv, UNCHANGED vars PROVE IInv'
<1>1. UNCHANGED <<timer_list, timer_num, ifl, pc, h, i, roll, wanted, ticks>>
  BY Zenon DEF vars
<1>2. Types' /\ Interrupts' /\ Listed' /\ Scanning'
  BY Zenon, <1>1 DEF IInv, Types, Interrupts, Listed, Scanning, Wanted
<1>3. Counters'
  BY Zenon, <1>1 DEF IInv, Counters, Visited, Used
<1> QED BY Zenon, <1>2, <1>3 DEF IInv

\* Every step keeps the invariant, as long as the last timer is unregistered first.
LEMMA NextStep ==
    ASSUME LastFirst, IInv, [Next]_vars PROVE IInv'
<1>1. ASSUME NEW x \in Handler, NEW ms \in Ms, Register(x, ms) PROVE IInv'
  BY Zenon, <1>1, RegisterStep
<1>2. ASSUME NEW x \in Handler, Unregister(x) PROVE IInv'
  BY Zenon, <1>2, UnregisterStep
<1>3. CASE MainStep
  BY Zenon, <1>3, ScanStep, ScanRemoveStep DEF MainStep
<1>4. CASE Tick
  BY Zenon, <1>4, TickStep
<1>5. CASE RollStep
  <2>1. ASSUME NEW x \in Handler, NEW ms \in Ms, HandlerRegisters(x, ms) PROVE IInv'
    BY Zenon, <2>1, HandlerRegistersStep
  <2>2. ASSUME NEW x \in Handler, HandlerUnregisters(x) PROVE IInv'
    BY SMTT(30), <2>2, HandlerUnregistersStep
  <2> QED BY Zenon, <1>5, <2>1, <2>2, RollNextStep, RollDoneStep, HandlerIdleStep DEF RollStep
<1>6. CASE UNCHANGED vars
  BY Zenon, <1>6, StutterStep
<1> QED BY Zenon, <1>1, <1>2, <1>3, <1>4, <1>5, <1>6 DEF Next
-----------------------------------------------------------------------------
(* The theorems.                                                           *)

\* The inductive invariant of the timer list, the scan of unregister_timer and
\* timer_rolling holds throughout, when the last timer is unregistered first.
THEOREM Invariant ==
    ASSUME LastFirst PROVE Spec => []IInv
<1>1. IInv /\ [Next]_vars => IInv'
  BY Zenon, NextStep
<1> QED BY <1>1, InitStep, PTL DEF Spec

\* The first timer_num slots of timer_list are the timers registered and not
\* unregistered, in their order, whatever interrupts unregister_timer.
THEOREM TimersListed ==
    ASSUME LastFirst PROVE Spec => []UsedTimersListed
<1>1. IInv => UsedTimersListed
  BY Sizes DEF IInv, Listed, UsedTimersListed, Used
<1> QED BY <1>1, Invariant, PTL

\* Between two clock interrupts no timer has waited for its period or longer: a call
\* that is due is made by timer_rolling in the interrupt in which it is due.
THEOREM CallsInTime ==
    ASSUME LastFirst PROVE Spec => []NeverLate
<1>1. ASSUME IInv, roll = <<>>, NEW s \in Used
      PROVE  /\ ticks[timer_list[s].handler] < Period(timer_list[s].ms)
             /\ timer_list[s].counter = timer_list[s].ms - dec * ticks[timer_list[s].handler]
  <2>1. /\ timer_list[s].ms \in Nat \ {0} /\ ticks[timer_list[s].handler] \in Nat
    BY Zenon, <1>1, UsedSlot DEF IInv
  <2>2. /\ timer_list[s].counter > 0
        /\ timer_list[s].counter = timer_list[s].ms - dec * ticks[timer_list[s].handler]
    BY Zenon, <1>1 DEF IInv, Counters, Visited
  <2>3. PICK p \in Nat \ {0}, n \in Nat, d \in Nat :
          p = timer_list[s].ms /\ n = ticks[timer_list[s].handler] /\ d = dec * n /\ p - d > 0
    BY SMTT(30), <2>1, <2>2, Sizes
  <2>4. dec * n < p
    BY <2>3
  <2>5. n < Period(p)
    BY Zenon, <2>4, TicksOfPeriod
  <2> QED BY Zenon, <2>2, <2>3, <2>5
<1>2. IInv => NeverLate
  BY Zenon, <1>1 DEF NeverLate
<1> QED BY <1>2, Invariant, PTL

\* timer_rolling calls a handler in the tick that completes its period, and in no
\* earlier one.
THEOREM CallsNotEarly ==
    ASSUME LastFirst PROVE Spec => NeverEarly
<1>1. ASSUME IInv, RollNext, Calling'
      PROVE  ticks[timer_list[roll[Top].i].handler] = Period(timer_list[roll[Top].i].ms)
  <2>1. PICK k \in Used, t \in Timer :
          /\ roll = <<[i |-> k, calling |-> FALSE]>> /\ Top = 1
          /\ t = timer_list[k] /\ Current = t
          /\ t.handler \in Handler /\ t.ms \in Nat \ {0} /\ t.counter \in Int
          /\ ticks[t.handler] \in Nat /\ t.counter > 0
          /\ t.counter = t.ms - dec * (ticks[t.handler] - 1)
          /\ \A s \in Int : Visited(s) <=> s < k
    BY Zenon, <1>1, Reached
  <2>2. t.counter - dec <= 0
    <3>1. CASE ~ (t.counter - dec <= 0)
      <4>1. roll[Top].i = k
        BY Zenon, <2>1
      <4>2. roll' = [roll EXCEPT ![1].i = k + 1]
        BY Zenon, <1>1, <2>1, <3>1, <4>1 DEF RollNext
      <4>3. roll' = <<[i |-> k + 1, calling |-> FALSE]>>
        <5>1. k \in Nat
          BY Zenon, <1>1, UsedSlot DEF IInv
        <5> QED BY Zenon, <2>1, <4>2, <5>1, Iteration
      <4>4. Top' = 1 /\ ~ roll'[1].calling
        BY Zenon, <4>3 DEF Top
      <4> QED BY Zenon, <1>1, <4>4 DEF Calling
    <3> QED BY Zenon, <3>1
  <2>3. PICK c \in Int, p \in Nat \ {0}, n \in Nat :
          c = t.counter /\ p = t.ms /\ n = ticks[t.handler]
    BY Zenon, <2>1
  <2>4. c > 0 /\ c - dec <= 0 /\ c = p - dec * (n - 1)
    BY Zenon, <2>1, <2>2, <2>3
  <2>5. c - dec = p - dec * n /\ dec * n \in Nat
    <3>1. p \in Int
      OBVIOUS
    <3> QED BY SMTT(30), <2>4, <3>1, Left
  <2>6. ~ (dec * n < p)
    <3>1. PICK e \in Nat : e = dec * n
      BY Zenon, <2>5
    <3>2. p - e <= 0
      BY Zenon, <2>4, <2>5, <3>1
    <3> QED BY <3>1, <3>2
  <2>7. ~ (n < Period(p))
    BY Zenon, <2>6, TicksOfPeriod
  <2>8. n > 0
    <3>1. CASE n = 0
      BY SMTT(30), <2>3, <2>6, <3>1, Sizes
    <3> QED BY <3>1
  <2>9. PICK m \in Nat : n = m + 1
    <3>1. n - 1 \in Nat /\ n = (n - 1) + 1
      BY <2>8
    <3> QED BY ONLY Zenon, <3>1
  <2>10. dec * m < p
    <3>1. n - 1 = m
      BY <2>9
    <3>2. PICK e \in Nat : e = dec * m
      BY Sizes
    <3> QED BY SMTT(30), <2>4, <3>1, <3>2
  <2>11. m < Period(p)
    BY Zenon, <2>10, TicksOfPeriod
  <2>12. Period(p) \in Int
    BY Sizes DEF Period
  <2>13. n = Period(p)
    BY SMTT(30), <2>7, <2>9, <2>11, <2>12
  <2> QED BY Zenon, <2>1, <2>3, <2>13
<1>2. ASSUME LastFirst, IInv, Next, ~Calling, Calling' PROVE RollNext
  <2>2. ASSUME NEW x \in Handler, NEW ms \in Ms, Register(x, ms) PROVE FALSE
    BY Zenon, <1>2, <2>2 DEF Register, Main, Calling
  <2>3. ASSUME NEW x \in Handler, Unregister(x) PROVE FALSE
    BY Zenon, <1>2, <2>3 DEF Unregister, Main, Calling
  <2>4. CASE MainStep
    BY Zenon, <1>2, <2>4 DEF MainStep, Scan, ScanRemove, Main, Calling
  <2>5. CASE Tick
    <3>1. roll = <<>> /\ roll' = Append(roll, [i |-> 0, calling |-> FALSE])
      BY Zenon, <1>2, <2>5 DEF Tick, IInv, Interrupts
    <3>2. Top' = 1 /\ ~ roll'[1].calling
      BY <3>1 DEF Top
    <3> QED BY Zenon, <1>2, <3>2 DEF Calling
  <2>6. CASE RollDone
    <3>1. roll' = <<>>
      BY Zenon, <1>2, <2>6, Running DEF RollDone, Rolling, IInv
    <3> QED BY Zenon, <1>2, <3>1 DEF Calling
  <2> QED BY Zenon, <1>2, <2>2, <2>3, <2>4, <2>5, <2>6
      DEF Next, RollStep, HandlerIdle, HandlerRegisters, HandlerUnregisters
<1>3. IInv /\ [Next]_vars =>
        [~Calling /\ Calling' =>
           LET t == timer_list[roll[Top].i] IN ticks[t.handler] = Period(t.ms)]_vars
  BY Zenon, <1>1, <1>2
<1> QED BY <1>3, Invariant, PTL DEF Spec, NeverEarly
-----------------------------------------------------------------------------
(* The clock that ticks, of Clock, for every frequency and every width of  *)
(* its counter.                                                            *)
(*                                                                         *)
(* The argument.  The digits read by rtc_init are natural numbers whatever *)
(* the chip does meanwhile (Reads), so the time is set to one that seconds *)
(* can be added to.  From then on the seconds counted, the ticks, the      *)
(* overflows of rtc_time and its remainder are in balance (Counting).      *)

\* With f ticks to a second and a counter below w, n seconds have been counted by
\* k ticks when the counter, which started with remainder x, has overflowed o
\* times and is at r.  Every overflow cuts a second short.
Balance(f, w, k, n, o, r, x) == f * n = k + o * (f - 1 - ((w - 1) % f)) + x - (r % f)

Registers == {Field[k] : k \in 1 .. 6}

\* The dates in the chip and what is read of them.
Reads ==
    /\ current_tm \in Date /\ shown \in Date
    /\ rtc_tm \in [Registers -> Nat]
    /\ rtc_ticks \in Nat /\ (reg # 8 => rtc_ticks = 0)

\* n seconds counted by the ticks since rtc_init.
Counts(n) ==
    Balance(RTC_FREQUENCY, Modulus, rtc_ticks, n, Overflows, rtc_time,
            Thousandfold(start) % RTC_FREQUENCY)

Counting ==
    reg = 8 =>
        /\ start \in Nat \X (0 .. Day - 1)
        /\ rtc_time = (Thousandfold(start) + rtc_ticks) % Modulus
        /\ \E n \in Nat : rtc_second = Seconds(start[1], start[2] + n) /\ Counts(n)

ClockInv == Reads /\ Counting
\* The quotient and the remainder are the only ones.
LEMMA DivModUnique ==
    ASSUME NEW b \in Nat \ {0}, NEW a \in Nat, NEW q \in Nat, NEW r \in 0 .. b - 1,
           a = b * q + r
    PROVE  a \div b = q /\ a % b = r
OBVIOUS

\* Division with remainder.
LEMMA DivMod ==
    ASSUME NEW b \in Nat \ {0}, NEW a \in Nat
    PROVE  a \div b \in Nat /\ a % b \in 0 .. b - 1 /\ a = b * (a \div b) + (a % b)
BY SMTT(30)

\* Counting on by one.
LEMMA Successor ==
    ASSUME NEW b \in Nat \ {0}, NEW a \in Nat
    PROVE  /\ a % b = b - 1 => (a + 1) % b = 0 /\ (a + 1) \div b = (a \div b) + 1
           /\ a % b # b - 1 => (a + 1) % b = (a % b) + 1 /\ (a + 1) \div b = a \div b
<1> DEFINE q == a \div b
           r == a % b
<1>1. q \in Nat /\ r \in 0 .. b - 1 /\ a = b * q + r
  BY Zenon, DivMod
<1> HIDE DEF q, r
<1>2. CASE r = b - 1
  <2>1. b * (q + 1) = b * q + b
    BY <1>1
  <2>2. a + 1 \in Nat /\ q + 1 \in Nat /\ 0 \in 0 .. b - 1 /\ a + 1 = b * (q + 1) + 0
    BY <1>1, <1>2, <2>1
  <2>3. (a + 1) \div b = q + 1 /\ (a + 1) % b = 0
    BY <2>2, DivModUnique
  <2> QED BY <1>2, <2>3 DEF q, r
<1>3. CASE r # b - 1
  <2>1. a + 1 \in Nat /\ r + 1 \in 0 .. b - 1 /\ a + 1 = b * q + (r + 1)
    BY <1>1, <1>3
  <2>2. (a + 1) \div b = q /\ (a + 1) % b = r + 1
    BY <1>1, <2>1, DivModUnique
  <2> QED BY <1>3, <2>2 DEF q, r
<1> QED BY <1>2, <1>3

\* A number below the divisor is its own remainder.
LEMMA Small ==
    ASSUME NEW b \in Nat \ {0}, NEW a \in 0 .. b - 1
    PROVE  a % b = a /\ a \div b = 0
<1>1. a \in Nat /\ 0 \in Nat /\ a = b * 0 + a
  BY SMTT(30)
<1> QED BY Zenon, <1>1, DivModUnique

\* The length of a day, and what is assumed of the counter.
LEMMA DayNat == Day \in Nat \ {0} /\ Day \in Int /\ 0 \in 0 .. Day - 1
BY SMT DEF Day

\* A second more: the carry is the same in one step as in two.
LEMMA NextSecond ==
    ASSUME NEW d \in Nat, NEW s \in Nat
    PROVE  /\ Seconds(d, s) = <<d + (s \div Day), s % Day>>
           /\ Seconds(Seconds(d, s)[1], Seconds(d, s)[2] + 1) = Seconds(d, s + 1)
<1>1. s \div Day \in Nat /\ s % Day \in 0 .. Day - 1 /\ s = Day * (s \div Day) + (s % Day)
  BY Zenon, DayNat, DivMod
<1>2. ASSUME NEW e \in Nat, NEW u \in Nat PROVE Seconds(e, u) = <<e + (u \div Day), u % Day>>
  <2>1. u \div Day \in Nat
    BY Zenon, DayNat, DivMod
  <2>2. e + (u \div Day) >= 0
    BY SMT, <2>1
  <2> QED BY SMT, <2>2 DEF Seconds
<1> DEFINE e == d + (s \div Day)
           u == s % Day
<1>3. e \in Nat /\ u + 1 \in Nat /\ s + 1 \in Nat
  BY SMT, <1>1, DayNat
<1>4. (u + 1) % Day = (s + 1) % Day /\ e + ((u + 1) \div Day) = d + ((s + 1) \div Day)
  <2>1. /\ u \in Nat /\ u % Day = u /\ u \div Day = 0
    <3>1. u \in Nat
      BY SMT, <1>1, DayNat
    <3> QED BY Zenon, <1>1, <3>1, DayNat, Small
  <2>4. /\ u % Day = Day - 1 => (u + 1) % Day = 0 /\ (u + 1) \div Day = (u \div Day) + 1
        /\ u % Day # Day - 1 => (u + 1) % Day = (u % Day) + 1 /\ (u + 1) \div Day = u \div Day
    <3> HIDE DEF u
    <3> QED BY Zenon, <2>1, DayNat, Successor
  <2>2. CASE u = Day - 1
    <3>1. (s + 1) % Day = 0 /\ (s + 1) \div Day = (s \div Day) + 1
      BY Zenon, <2>2, DayNat, Successor
    <3>2. (u + 1) % Day = 0 /\ (u + 1) \div Day = (u \div Day) + 1
      <4> HIDE DEF u
      <4> QED BY Zenon, <2>1, <2>2, <2>4
    <3> HIDE DEF u
    <3> QED BY SMT, <1>1, <2>1, <3>1, <3>2
  <2>3. CASE u # Day - 1
    <3>1. (s + 1) % Day = u + 1 /\ (s + 1) \div Day = s \div Day
      BY Zenon, <2>3, DayNat, Successor
    <3>2. (u + 1) % Day = u + 1 /\ (u + 1) \div Day = u \div Day
      <4> HIDE DEF u
      <4> QED BY Zenon, <2>1, <2>3, <2>4
    <3> HIDE DEF u
    <3> QED BY SMT, <1>1, <2>1, <3>1, <3>2
  <2> QED BY Zenon, <2>2, <2>3
<1>5. Seconds(e, u + 1) = Seconds(d, s + 1)
  BY Zenon, <1>2, <1>3, <1>4
<1>6. Seconds(d, s) = <<e, u>>
  BY Zenon, <1>2
<1>7. Seconds(d, s)[1] = e /\ Seconds(d, s)[2] = u
  BY SMT, <1>6
<1> QED BY Zenon, <1>5, <1>6, <1>7

\* The counter starts within its width.
LEMMA StartTime ==
    ASSUME NEW time \in Nat \X (0 .. Day - 1)
    PROVE  Thousandfold(time) \in 0 .. Modulus - 1
<1>1. time[1] \in Nat /\ time[2] \in Nat /\ Modulus \in Nat \ {0}
  <2>1. time[1] \in Nat /\ time[2] \in 0 .. Day - 1
    BY Zenon
  <2>2. time[2] \in Nat
    BY SMT, <2>1, DayNat
  <2> QED BY Zenon, <2>1, <2>2, ClockAssumption
<1> DEFINE a == time[1] % Modulus
           b == (a * Day + time[2]) % Modulus
<1>2. a \in Nat
  BY SMT, <1>1, DivMod
<1> HIDE DEF a
<1>3. a * Day + time[2] \in Nat
  BY SMT, <1>1, <1>2, DayNat
<1>4. b \in Nat
  BY SMT, <1>1, <1>3, DivMod
<1> HIDE DEF b
<1>5. b * 1000 \in Nat
  BY SMT, <1>4
<1>6. \A w \in Nat : w % Modulus \in 0 .. Modulus - 1
  BY Zenon, <1>1, DivMod
<1> QED BY SMT, <1>5, <1>6 DEF Thousandfold, a, b

\* A tick keeps the count.
LEMMA CountTick ==
    ASSUME NEW F \in Nat \ {0}, NEW W \in Nat \ {0}, NEW k \in Nat, NEW n \in Nat, NEW o \in Nat,
           NEW r \in 0 .. W - 1, NEW o1, NEW r1, NEW m, NEW x \in Int,
           r = W - 1 => r1 = 0 /\ o1 = o + 1,
           r # W - 1 => r1 = r + 1 /\ o1 = o,
           r1 % F = 0 => m = n + 1,
           r1 % F # 0 => m = n,
           Balance(F, W, k, n, o, r, x)
    PROVE  Balance(F, W, k + 1, m, o1, r1, x)
<1> DEFINE y == r % F
           e == F - 1 - ((W - 1) % F)
<1>1. r \in Nat /\ W - 1 \in Nat
  OBVIOUS
<1>2. y \in 0 .. F - 1 /\ (W - 1) % F \in 0 .. F - 1
  BY Zenon, <1>1, DivMod
<1>3. F * n = k + o * e + x - y
  BY Zenon DEF Balance
<1>4. e \in 0 .. F - 1
  BY <1>2
<1>9. Balance(F, W, k + 1, m, o1, r1, x) <=> F * m = (k + 1) + o1 * e + x - (r1 % F)
  BY Zenon DEF Balance
<1> HIDE DEF y, e
<1>5. F * (n + 1) = F * n + F /\ (o + 1) * e = o * e + e /\ o * e \in Int /\ F * n \in Int
  BY <1>4
<1>8. k \in Nat /\ F \in Nat \ {0} /\ o \in Nat /\ n \in Nat /\ x \in Int
  OBVIOUS
<1>6. CASE r = W - 1
  <2>1. r1 = 0 /\ o1 = o + 1 /\ 0 % F = 0
    BY <1>6, Small
  <2>2. e = F - 1 - y
    BY Zenon, <1>6 DEF y, e
  <2>3. F * (n + 1) = (k + 1) + (o + 1) * e + x - 0
    BY ONLY SMTT(30), <1>2, <1>3, <1>4, <1>5, <1>8, <2>2
  <2> QED BY Zenon, <1>9, <2>1, <2>3
<1>7. CASE r # W - 1
  <2>1. CASE y = F - 1
    <3>1. (r + 1) % F = 0
      BY Zenon, <1>1, <2>1, Successor DEF y
    <3>2. F * (n + 1) = (k + 1) + o * e + x - 0
      BY ONLY SMTT(30), <1>2, <1>3, <1>4, <1>5, <1>8, <2>1
    <3> QED BY Zenon, <1>7, <1>9, <3>1, <3>2
  <2>2. CASE y # F - 1
    <3>1. (r + 1) % F = y + 1
      BY Zenon, <1>1, <2>2, Successor DEF y
    <3>2. F * n = (k + 1) + o * e + x - (y + 1) /\ y + 1 # 0
      BY ONLY SMTT(30), <1>2, <1>3, <1>4, <1>5, <1>8
    <3> QED BY Zenon, <1>7, <1>9, <3>1, <3>2
  <2> QED BY Zenon, <2>1, <2>2
<1> QED BY Zenon, <1>6, <1>7

\* What rtc_init reads is a time: the fields are natural numbers, and the days
\* before 1970 that a month 0 leads to wrap around.
LEMMA MktimeNat ==
    ASSUME NEW r \in [Registers -> Nat]
    PROVE  mktime([r EXCEPT !.mon = @ - 1]) \in Nat \X (0 .. Day - 1)
<1> DEFINE tm == [r EXCEPT !.mon = @ - 1]
<1>1. /\ tm.year \in Nat /\ tm.mon \in Int /\ tm.mon >= -1 /\ tm.mday \in Nat
      /\ tm.hour \in Nat /\ tm.min \in Nat /\ tm.sec \in Nat
  <2>1. /\ "year" \in Registers /\ "mon" \in Registers /\ "mday" \in Registers
        /\ "hour" \in Registers /\ "min" \in Registers /\ "sec" \in Registers
    BY SMT DEF Registers, Field
  <2>2. r["mon"] - 1 \in Int /\ r["mon"] - 1 >= -1
    BY SMT, <2>1
  <2> QED BY SMT, <2>1, <2>2
<1> HIDE DEF tm
<1> DEFINE year == tm.year + (tm.mon \div 12) + (IF tm.year < 70 THEN 2000 ELSE 1900)
           month == tm.mon % 12
           secs == (tm.hour * 60 + tm.min) * 60 + tm.sec
           days == Days(year, month, tm.mday)
<1>2. year \in Int /\ year >= 1969
  BY SMT, <1>1
<1>3. month \in 0 .. 11
  BY SMT, <1>1
<1>4. secs \in Nat
  BY SMT, <1>1
<1> HIDE DEF year, month, secs
<1>5. days \in Int /\ days >= -49710
  <2>1. mon_yday(FALSE)[month + 1] \in Nat
    BY SMT, <1>3 DEF mon_yday
  <2> DEFINE y == IF month <= 1 THEN year - 1 ELSE year
             gone == mon_yday(FALSE)[month + 1]
  <2>2. y \in Int /\ y >= year - 1 /\ y <= year
    BY SMT, <1>2, <1>3
  <2>3. gone \in Nat
    BY Zenon, <2>1
  <2>4. days = (year - 1970) * 365 + gone
               + ((y - 1968) \div 4) - ((y - 1900) \div 100) + ((y - 1600) \div 400)
               + tm.mday - 1
    BY SMT DEF Days
  <2> HIDE DEF y, gone, days
  <2> QED BY SMTT(30), <1>1, <1>2, <2>2, <2>3, <2>4
<1> HIDE DEF days
<1>6. mktime(tm) = Seconds(days, secs)
  BY SMT DEF mktime, days, year, month, secs
<1>7. Seconds(days, secs) \in Nat \X (0 .. Day - 1)
  <2> DEFINE d == days + (secs \div Day)
             s == secs % Day
  <2>1. secs \div Day \in Nat /\ s \in 0 .. Day - 1
    BY Zenon, <1>4, DayNat, DivMod
  <2> HIDE DEF s
  <2>2. d \in Int /\ d >= -49710
    BY SMT, <1>5, <2>1
  <2> HIDE DEF d
  <2>3. CASE d >= 0
    <3>1. Seconds(days, secs) = <<d, s>>
      BY SMT, <2>3 DEF Seconds, d, s
    <3> QED BY SMT, <2>1, <2>2, <2>3, <3>1
  <2>4. CASE ~(d >= 0)
    <3>1. Seconds(days, secs) = <<d + 49710 + ((s + 23296) \div Day), (s + 23296) % Day>>
      BY SMT, <2>4 DEF Seconds, d, s
    <3>2. s + 23296 \in Nat
      BY SMT, <2>1, DayNat
    <3>3. \A w \in Nat : w \div Day \in Nat /\ w % Day \in 0 .. Day - 1
      BY Zenon, DayNat, DivMod
    <3>4. (s + 23296) \div Day \in Nat /\ (s + 23296) % Day \in 0 .. Day - 1
      BY SMT, <3>2, <3>3
    <3> QED BY SMT, <2>2, <3>1, <3>4
  <2> QED BY Zenon, <2>3, <2>4
<1> QED BY SMT, <1>6, <1>7 DEF tm
\* A digit is a natural number.
LEMMA DigitNat ==
    ASSUME shown \in Date, NEW k \in 1 .. 6, NEW unit
    PROVE  Digit(Field[k], unit) \in Nat
<1>1. cmos[Field[k]] \in Int
  <2>1. /\ to_bcd(shown.sec) \in Int /\ to_bcd(shown.min) \in Int /\ to_bcd(shown.hour) \in Int
        /\ to_bcd(shown.mday) \in Int /\ to_bcd(shown.mon + 1) \in Int
        /\ to_bcd(shown.year % 100) \in Int
    BY SMT DEF Date, to_bcd
  <2>2. Field[k] \in {"sec", "min", "hour", "mday", "mon", "year"}
    BY SMT DEF Field
  <2> QED BY SMT, <2>1, <2>2 DEF cmos, rtc_copy_date
<1> DEFINE c == cmos[Field[k]]
<1>2. c % 16 \in Nat /\ ((c \div 16) % 16) * 10 \in Nat
  <2> HIDE DEF c
  <2>1. c \in Int
    BY Zenon, <1>1 DEF c
  <2> QED BY SMT, <2>1
<1> QED BY SMT, <1>2 DEF Digit

\* The chip advances from date to date.
LEMMA NextDate == ASSUME NEW tm \in Date PROVE rtc_next_second(tm) \in Date
<1>1. ASSUME NEW u \in Date PROVE rtc_next_day(u) \in Date
  <2> DEFINE last == u.mday + 1 > get_days_in_month(u.mon, u.year + 1900)
             december == u.mon + 1 >= 12
             mday == IF last THEN 1 ELSE u.mday + 1
             mon == IF last THEN (IF december THEN 0 ELSE u.mon + 1) ELSE u.mon
             year == IF last /\ december THEN u.year + 1 ELSE u.year
             wday == (u.wday + 1) % 7
  <2>1. rtc_next_day(u) = [u EXCEPT !.hour = 0, !.wday = wday, !.mday = mday, !.mon = mon, !.year = year]
    BY SMT DEF rtc_next_day
  <2>2. mday \in Int /\ mon \in Int /\ year \in Int /\ wday \in Int
    <3> HIDE DEF last, december
    <3> QED BY SMT DEF Date
  <2> HIDE DEF mday, mon, year, wday
  <2>3. 0 \in Int
    BY SMT
  <2> QED BY Zenon, <2>1, <2>2, <2>3 DEF Date
<1>2. /\ [tm EXCEPT !.sec = @ + 1] \in Date /\ [tm EXCEPT !.sec = 0, !.min = @ + 1] \in Date
      /\ [tm EXCEPT !.sec = 0, !.min = 0, !.hour = @ + 1] \in Date
      /\ [tm EXCEPT !.sec = 0, !.min = 0] \in Date
  <2>1. tm.sec + 1 \in Int /\ tm.min + 1 \in Int /\ tm.hour + 1 \in Int /\ 0 \in Int
    BY SMT DEF Date
  <2>2. [tm EXCEPT !.sec = @ + 1] \in Date
    BY Zenon, <2>1 DEF Date
  <2>3. [tm EXCEPT !.sec = 0, !.min = @ + 1] \in Date
    BY Zenon, <2>1 DEF Date
  <2>4. [tm EXCEPT !.sec = 0, !.min = 0, !.hour = @ + 1] \in Date
    BY Zenon, <2>1 DEF Date
  <2>5. [tm EXCEPT !.sec = 0, !.min = 0] \in Date
    BY Zenon, <2>1 DEF Date
  <2> QED BY Zenon, <2>2, <2>3, <2>4, <2>5
<1> QED BY Zenon, <1>1, <1>2 DEF rtc_next_second
\* What is read while the chip goes on stays a natural number.
LEMMA ReadsInit == ASSUME ClockInit PROVE Reads
<1>1. rtc_tm = [f \in Registers |-> 0] /\ rtc_ticks = 0 /\ 0 \in Nat
  BY Zenon DEF ClockInit, Registers
<1>2. current_tm \in Date /\ shown \in Date
  BY Zenon, ClockAssumption DEF ClockInit
<1>3. rtc_tm \in [Registers -> Nat]
  BY SMT, <1>1
<1> QED BY Zenon, <1>1, <1>2, <1>3 DEF Reads

\* Every step keeps what is read.
LEMMA ReadsStep == ASSUME Reads, [ClockNext]_clock_vars PROVE Reads'
<1>1. CASE rtc_update_second
  BY Zenon, <1>1, NextDate DEF Reads, rtc_update_second
<1>2. CASE rtc_update_second2
  BY Zenon, <1>2 DEF Reads, rtc_update_second2
<1>3. CASE ReadDigit
  <2>1. PICK unit : rtc_tm' = [rtc_tm EXCEPT ![Field[reg]] = @ + Digit(Field[reg], unit)]
    BY Zenon, <1>3 DEF ReadDigit
  <2>2. reg \in 1 .. 6 /\ reg # 8 /\ UNCHANGED <<current_tm, shown, rtc_ticks>>
    BY SMT, <1>3 DEF ReadDigit
  <2>3. Field[reg] \in Registers /\ Digit(Field[reg], unit) \in Nat
    BY Zenon, <2>2, DigitNat DEF Registers, Reads
  <2>4. rtc_tm' \in [Registers -> Nat]
    BY SMT, <2>1, <2>3 DEF Reads
  <2> QED BY Zenon, <2>2, <2>4 DEF Reads
<1>4. CASE SetTime
  <2>1. reg = 7 /\ reg # 8 /\ UNCHANGED <<current_tm, shown, rtc_tm, rtc_ticks>>
    BY SMT, <1>4 DEF SetTime
  <2> QED BY Zenon, <2>1 DEF Reads
<1>5. CASE rtc_intr
  <2>1. reg' = 8 /\ rtc_ticks' = rtc_ticks + 1 /\ UNCHANGED <<current_tm, shown, rtc_tm>>
    BY Zenon, <1>5 DEF rtc_intr
  <2>2. rtc_ticks' \in Nat
    BY SMT, <2>1 DEF Reads
  <2> QED BY Zenon, <2>1, <2>2 DEF Reads
<1>6. CASE UNCHANGED clock_vars
  BY Zenon, <1>6 DEF Reads, clock_vars
<1> QED BY Zenon, <1>1, <1>2, <1>3, <1>4, <1>5, <1>6 DEF ClockNext

\* When rtc_init has set the time, no second has been counted.
LEMMA SetTimeCounts == ASSUME Reads, SetTime PROVE Counting'
<1>1. /\ start' = mktime([rtc_tm EXCEPT !.mon = @ - 1]) /\ rtc_second' = start'
      /\ rtc_time' = Thousandfold(start') /\ reg' = 8 /\ reg = 7 /\ UNCHANGED rtc_ticks
  BY Zenon, SMT DEF SetTime
<1>2. start' \in Nat \X (0 .. Day - 1)
  BY Zenon, <1>1, MktimeNat DEF Reads
<1>3. Thousandfold(start') \in 0 .. Modulus - 1 /\ Modulus \in Nat \ {0} /\ RTC_FREQUENCY \in Nat \ {0}
  BY Zenon, <1>2, StartTime, ClockAssumption
<1>4. rtc_ticks' = 0
  BY SMT, <1>1 DEF Reads
<1> DEFINE c == Thousandfold(start')
<1>5. Thousandfold(start)' = c
  BY SMT DEF Thousandfold
<1> HIDE DEF c
<1>6. c + rtc_ticks' = c /\ c % Modulus = c /\ c \div Modulus = 0
  <2>1. c \in 0 .. Modulus - 1
    BY Zenon, <1>3 DEF c
  <2>2. c + 0 = c
    BY SMT, <1>3, <2>1
  <2> QED BY Zenon, <1>3, <1>4, <2>1, <2>2, Small
<1>7. rtc_second' = Seconds(start'[1], start'[2] + 0)
  <2>1. start' = <<start'[1], start'[2]>> /\ start'[1] \in Nat /\ start'[2] \in 0 .. Day - 1
    BY SMT, <1>2
  <2>2. start'[2] + 0 = start'[2] /\ start'[2] \in Nat
    BY SMT, <2>1, DayNat
  <2>3. start'[2] \div Day = 0 /\ start'[2] % Day = start'[2]
    BY Zenon, <2>1, DayNat, Small
  <2>4. Seconds(start'[1], start'[2]) = <<start'[1] + 0, start'[2]>>
    BY Zenon, <2>1, <2>2, <2>3, NextSecond
  <2>5. start'[1] + 0 = start'[1]
    BY SMT, <2>1
  <2> QED BY Zenon, <1>1, <2>1, <2>2, <2>4, <2>5
<1>8. Balance(RTC_FREQUENCY, Modulus, 0, 0, 0, c, c % RTC_FREQUENCY)
  <2>1. c \in Nat /\ Modulus - 1 \in Nat
    BY SMT, <1>3 DEF c
  <2>2. /\ (Modulus - 1) % RTC_FREQUENCY \in 0 .. RTC_FREQUENCY - 1
        /\ c % RTC_FREQUENCY \in 0 .. RTC_FREQUENCY - 1
    BY Zenon, <1>3, <2>1, DivMod
  <2> QED BY SMT, <1>3, <2>2 DEF Balance
<1>9. Counts(0)'
  <2>1. rtc_time' = c
    BY Zenon, <1>1 DEF c
  <2>2. Overflows' = 0
    BY Zenon, <1>5, <1>6 DEF Overflows, Modulus
  <2>3. Balance(RTC_FREQUENCY, Modulus, rtc_ticks, 0, Overflows, rtc_time, Thousandfold(start) % RTC_FREQUENCY)'
    BY Zenon, <1>4, <1>5, <1>8, <2>1, <2>2 DEF Balance
  <2> QED BY Zenon, <2>3 DEF Counts
<1>10. rtc_time' = (Thousandfold(start)' + rtc_ticks') % Modulus'
  BY Zenon, <1>1, <1>5, <1>6 DEF c, Modulus
<1>11. 0 \in Nat
  BY SMT
<1> QED BY Zenon, <1>2, <1>7, <1>9, <1>10, <1>11 DEF Counting
\* A tick counts, and ends a second when it should.
LEMMA TickCounts == ASSUME Reads, Counting, rtc_intr PROVE Counting'
<1>1. /\ reg = 8 /\ rtc_ticks' = rtc_ticks + 1 /\ start' = start /\ reg' = reg
      /\ rtc_time' = (rtc_time + 1) % Modulus
      /\ rtc_second' = IF rtc_time' % RTC_FREQUENCY = 0
                         THEN Seconds(rtc_second[1], rtc_second[2] + 1) ELSE rtc_second
  BY Zenon DEF rtc_intr, SecondOver
<1>2. /\ Modulus \in Nat \ {0} /\ RTC_FREQUENCY \in Nat \ {0} /\ rtc_ticks \in Nat
      /\ start \in Nat \X (0 .. Day - 1)
  BY Zenon, <1>1, ClockAssumption DEF Reads, Counting
<1> DEFINE c == Thousandfold(start)
<1>3. c \in Nat /\ Thousandfold(start)' = c
  <2>1. c \in 0 .. Modulus - 1
    BY Zenon, <1>2, StartTime
  <2>2. Thousandfold(start)' = Thousandfold(start')
    BY SMT DEF Thousandfold
  <2> HIDE DEF c
  <2>3. c \in Nat
    BY SMT, <1>2, <2>1
  <2> QED BY Zenon, <1>1, <2>2, <2>3 DEF c
<1>4. PICK n \in Nat : rtc_second = Seconds(start[1], start[2] + n) /\ Counts(n)
  BY Zenon, <1>1 DEF Counting
<1>5. rtc_time = (c + rtc_ticks) % Modulus
  BY Zenon, <1>1 DEF Counting
<1>6. /\ rtc_time \in 0 .. Modulus - 1 /\ Overflows \in Nat
      /\ rtc_time = Modulus - 1 => rtc_time' = 0 /\ Overflows' = Overflows + 1
      /\ rtc_time # Modulus - 1 => rtc_time' = rtc_time + 1 /\ Overflows' = Overflows
      /\ rtc_time' = (c + rtc_ticks') % Modulus
  <2>1. Overflows = (c + rtc_ticks) \div Modulus /\ Overflows' = (c + rtc_ticks') \div Modulus
    BY Zenon, <1>3 DEF Overflows
  <2> HIDE DEF c
  <2>2. c + rtc_ticks \in Nat /\ c + rtc_ticks' = (c + rtc_ticks) + 1
    BY SMT, <1>1, <1>2, <1>3
  <2>3. rtc_time \in 0 .. Modulus - 1 /\ Overflows \in Nat
    BY Zenon, <1>2, <1>5, <2>1, <2>2, DivMod
  <2>4. rtc_time \in Nat /\ rtc_time % Modulus = rtc_time
    <3>1. rtc_time \in Nat
      BY SMT, <1>2, <2>3
    <3> QED BY Zenon, <1>2, <2>3, <3>1, Small
  <2>5. CASE rtc_time = Modulus - 1
    <3>1. rtc_time' = 0
      BY Zenon, <1>1, <1>2, <2>4, <2>5, Successor
    <3>2. (c + rtc_ticks') % Modulus = 0 /\ Overflows' = Overflows + 1
      BY ZenonT(30), <1>2, <1>5, <2>1, <2>2, <2>5, Successor
    <3> QED BY Zenon, <2>3, <2>5, <3>1, <3>2
  <2>6. CASE rtc_time # Modulus - 1
    <3>1. rtc_time' = rtc_time + 1
      BY Zenon, <1>1, <1>2, <2>4, <2>6, Successor
    <3>2. (c + rtc_ticks') % Modulus = rtc_time + 1 /\ Overflows' = Overflows
      BY Zenon, <1>2, <1>5, <2>1, <2>2, <2>6, Successor
    <3> QED BY Zenon, <2>3, <2>6, <3>1, <3>2
  <2> QED BY Zenon, <2>5, <2>6
<1>0. PICK m \in Nat : /\ rtc_time' % RTC_FREQUENCY = 0 => m = n + 1
                       /\ rtc_time' % RTC_FREQUENCY # 0 => m = n
  BY SMT
<1>7. Counts(m)'
  <2>1. Balance(RTC_FREQUENCY, Modulus, rtc_ticks, n, Overflows, rtc_time, c % RTC_FREQUENCY)
    BY Zenon, <1>4 DEF Counts
  <2> HIDE DEF c
  <2>2. c % RTC_FREQUENCY \in Int
    <3>1. c % RTC_FREQUENCY \in 0 .. RTC_FREQUENCY - 1
      BY Zenon, <1>2, <1>3, DivMod
    <3> QED BY SMT, <1>2, <3>1
  <2>3. Balance(RTC_FREQUENCY, Modulus, rtc_ticks + 1, m, Overflows', rtc_time', c % RTC_FREQUENCY)
    BY Zenon, <1>0, <1>2, <1>6, <2>1, <2>2, CountTick
  <2>4. Balance(RTC_FREQUENCY, Modulus, rtc_ticks, m, Overflows, rtc_time, Thousandfold(start) % RTC_FREQUENCY)'
    BY Zenon, <1>1, <1>3, <2>3 DEF Balance
  <2> QED BY Zenon, <2>4 DEF Counts
<1>8. rtc_second' = Seconds(start[1], start[2] + m)
  <2>1. start[1] \in Nat /\ start[2] \in Nat
    <3>1. start[1] \in Nat /\ start[2] \in 0 .. Day - 1
      BY SMT, <1>2
    <3> QED BY SMT, <3>1, DayNat
  <2>2. start[2] + n \in Nat /\ (start[2] + n) + 1 = start[2] + (n + 1)
    BY SMT, <2>1
  <2>3. CASE rtc_time' % RTC_FREQUENCY = 0
    <3>1. rtc_second' = Seconds(rtc_second[1], rtc_second[2] + 1) /\ m = n + 1
      BY Zenon, <1>1, <1>6, <1>0, <2>3
    <3>2. Seconds(rtc_second[1], rtc_second[2] + 1) = Seconds(start[1], start[2] + (n + 1))
      <4>1. Seconds(Seconds(start[1], start[2] + n)[1], Seconds(start[1], start[2] + n)[2] + 1)
              = Seconds(start[1], (start[2] + n) + 1)
        BY Zenon, <2>1, <2>2, NextSecond
      <4> QED BY Zenon, <1>4, <2>2, <4>1
    <3> QED BY Zenon, <3>1, <3>2
  <2>4. CASE rtc_time' % RTC_FREQUENCY # 0
    BY Zenon, <1>1, <1>4, <1>6, <1>0, <2>4
  <2> QED BY Zenon, <2>3, <2>4
<1>9. rtc_time' = (Thousandfold(start)' + rtc_ticks') % Modulus'
  BY Zenon, <1>1, <1>3, <1>6
<1> QED BY Zenon, <1>1, <1>2, <1>7, <1>8, <1>9 DEF Counting

\* Every step keeps the count.
LEMMA ClockStep == ASSUME ClockInv, [ClockNext]_clock_vars PROVE ClockInv'
<1>1. Reads /\ Counting /\ Reads'
  BY Zenon, ReadsStep DEF ClockInv
<1>2. CASE UNCHANGED <<reg, rtc_time, rtc_second, start, rtc_ticks>>
  <2>1. Thousandfold(start)' = Thousandfold(start')
    BY SMT DEF Thousandfold
  <2>2. Thousandfold(start)' = Thousandfold(start) /\ Overflows' = Overflows
    BY Zenon, <1>2, <2>1 DEF Overflows
  <2>3. \A n : Counts(n)' <=> Counts(n)
    BY Zenon, <1>2, <2>2 DEF Counts, Balance
  <2>4. Counting'
    BY Zenon, <1>1, <1>2, <2>2, <2>3 DEF Counting
  <2> QED BY Zenon, <1>1, <2>4 DEF ClockInv
<1>3. CASE ReadDigit
  <2>1. reg' # 8
    BY SMT, <1>3 DEF ReadDigit
  <2> QED BY Zenon, <1>1, <2>1 DEF ClockInv, Counting
<1>4. CASE SetTime
  BY Zenon, <1>1, <1>4, SetTimeCounts DEF ClockInv
<1>5. CASE rtc_intr
  BY Zenon, <1>1, <1>5, TickCounts DEF ClockInv
<1> QED BY Zenon, <1>2, <1>3, <1>4, <1>5 DEF ClockNext, rtc_update_second, rtc_update_second2, clock_vars

\* From the count to the bounds.
LEMMA CountBounds ==
    ASSUME NEW F \in Nat \ {0}, NEW n \in Nat, NEW k \in Nat, NEW o \in Nat,
           NEW W \in Nat \ {0}, NEW r \in Nat, NEW x \in 0 .. F - 1,
           Balance(F, W, k, n, o, r, x)
    PROVE  n \in (k \div F) .. ((k \div F) + 1 + o)
<1> DEFINE q == k \div F
           z == k % F
           y == r % F
           e == F - 1 - ((W - 1) % F)
<1>5. W - 1 \in Nat
  OBVIOUS
<1>6. y \in 0 .. F - 1 /\ (W - 1) % F \in 0 .. F - 1
  BY Zenon, <1>5, DivMod
<1>7. e \in 0 .. F - 1
  BY SMT, <1>6
<1>8. F * n = k + o * e + x - y
  BY Zenon DEF Balance
<1>1. q \in Nat /\ z \in 0 .. F - 1 /\ k = F * q + z
  BY Zenon, DivMod
<1> HIDE DEF q, z, y, e
<1>2. o * e \in Nat /\ o * e <= F * o
  <2>1. o * e <= o * F /\ o * F = F * o /\ o * e \in Nat
    BY SMT, <1>7
  <2> QED BY SMT, <2>1
<1>3. n >= q
  <2> SUFFICES ASSUME n + 1 <= q PROVE FALSE
    BY SMT, <1>1
  <2>1. F * (n + 1) <= F * q /\ F * (n + 1) = F * n + F
    BY SMT, <1>1
  <2> QED BY SMT, <1>1, <1>2, <1>6, <1>8, <2>1
<1>4. n <= q + 1 + o
  <2> SUFFICES ASSUME q + o + 2 <= n PROVE FALSE
    BY SMT, <1>1
  <2>1. F * (q + o + 2) <= F * n /\ F * (q + o + 2) = F * q + F * o + F + F
    BY SMT, <1>1
  <2> QED BY SMT, <1>1, <1>2, <1>6, <1>8, <2>1
<1> QED BY SMT, <1>1, <1>3, <1>4 DEF q

\* SecondsByTicks, for every frequency, every width of the counter and every
\* time the chip may show: the seconds follow the ticks to within one, and one
\* more for every overflow.
THEOREM SecondsCounted == ClockSpec => []SecondsByTicks
<1>1. ClockInit => ClockInv
  <2> SUFFICES ASSUME ClockInit PROVE ClockInv
    BY Zenon
  <2>1. reg # 8
    BY SMT DEF ClockInit
  <2> QED BY Zenon, <2>1, ReadsInit DEF ClockInv, Counting
<1>2. ClockInv /\ [ClockNext]_clock_vars => ClockInv'
  BY Zenon, ClockStep
<1>3. ASSUME ClockInv PROVE SecondsByTicks
  <2> SUFFICES ASSUME reg = 8 PROVE SecondsByTicks
    BY Zenon DEF SecondsByTicks
  <2>1. /\ Modulus \in Nat \ {0} /\ RTC_FREQUENCY \in Nat \ {0} /\ rtc_ticks \in Nat
        /\ start \in Nat \X (0 .. Day - 1) /\ rtc_time = (Thousandfold(start) + rtc_ticks) % Modulus
    BY Zenon, <1>3, ClockAssumption DEF ClockInv, Reads, Counting
  <2>2. PICK n \in Nat : rtc_second = Seconds(start[1], start[2] + n) /\ Counts(n)
    BY Zenon, <1>3 DEF ClockInv, Counting
  <2>3. Thousandfold(start) \in Nat /\ Thousandfold(start) + rtc_ticks \in Nat
    <3>1. Thousandfold(start) \in 0 .. Modulus - 1
      BY Zenon, <2>1, StartTime
    <3> QED BY SMT, <2>1, <3>1
  <2>4. Overflows \in Nat /\ rtc_time \in Nat
    <3>1. Overflows \in Nat /\ rtc_time \in 0 .. Modulus - 1
      BY Zenon, <2>1, <2>3, DivMod DEF Overflows
    <3> QED BY SMT, <2>1, <3>1
  <2>6. Thousandfold(start) % RTC_FREQUENCY \in 0 .. RTC_FREQUENCY - 1
    BY Zenon, <2>1, <2>3, DivMod
  <2>7. n \in (rtc_ticks \div RTC_FREQUENCY) .. ((rtc_ticks \div RTC_FREQUENCY) + 1 + Overflows)
    BY Zenon, <2>1, <2>2, <2>4, <2>6, CountBounds DEF Counts
  <2> QED BY Zenon, <2>2, <2>7 DEF SecondsByTicks
<1> QED BY <1>1, <1>2, <1>3, PTL DEF ClockSpec
=============================================================================
