----------------------------- MODULE Irq_proof -----------------------------
(***************************************************************************)
(* For every set of lines, every length of the ring and of the keyboard's  *)
(* queue and any number of codes: the controllers agree with the kernel,   *)
(* and every code is printed once and in order.                            *)
(*                                                                         *)
(* The argument.  Interrupts are on, or one is served, only while the main *)
(* program is outside of irq_mask's critical part and of the boot          *)
(* (Exclusion), so at most one line is in service and irq_mask's two steps *)
(* see the same mask (Masks).  A keyboard request is only latched while    *)
(* there is a code, and the handler that was called for one finds the line *)
(* still up and the request gone (Keyboard): no interrupt comes for a code *)
(* that is read already.                                                   *)
(***************************************************************************)
EXTENDS Irq, SequenceTheorems, WellFoundedInduction, TLAPS

\* What the controllers have in service when isr_entry serves line l.
Serving(l) == (IF l \in {None, 7, 15} THEN {} ELSE {l})
              \cup (IF l \in Slave THEN {cascade} ELSE {})

Places == {"master", "slave", "mask1", "mask2", "tty", "rtc", "sti", "run",
           "cli", "in", "out", "restore"}

\* Where the main program can be interrupted.
Open == {"run", "cli"}

Types ==
    /\ last_irr \subseteq Line /\ irr \subseteq Line /\ imr \subseteq Line
    /\ ifl \in BOOLEAN /\ pc \in Places
    /\ asked \in (Device \cup {kbd}) \X BOOLEAN
    /\ cur \in {None} \cup Master \cup Slave
    /\ hpc \in {"none", "handler", "print", "eoi"}
    /\ enabled \subseteq Line

Exclusion ==
    /\ ifl => cur = None
    /\ ifl \/ cur # None => pc \in Open
    /\ cur = None <=> hpc = "none"
    /\ hpc = "print" => cur = kbd
    /\ cur # cascade
    /\ isr = Serving(cur)

Masks ==
    /\ pc \in {"master", "slave", "mask1", "mask2"} => enabled = {cascade}
    /\ pc = "mask2" => imr = (Line \cap Master) \ {cascade}
    /\ pc \notin {"master", "slave", "mask1", "mask2"} => imr = Line \ enabled
    /\ pc = "out" => mask_word = imr \cap Chip(asked[1])

Keyboard ==
    /\ kbd \in irr => kbd \in last_irr
    /\ kbd \in last_irr => queue # <<>>
    /\ cur = kbd /\ hpc = "handler" => kbd \in last_irr /\ kbd \notin irr

\* The ring holds the code in hand, if there is one, and nothing else.
RingOK ==
    /\ ring \in [head : 0 .. BUF_SIZE - 1, tail : 0 .. BUF_SIZE - 1,
                 buf : [0 .. BUF_SIZE - 1 -> Nat]]
    /\ \A k \in 0 .. BUF_SIZE - 1 :
         ring.buf[k] # 0 <=> hpc = "print" /\ k = ring.tail
    /\ ring.head = IF hpc = "print" THEN Below(ring.tail) ELSE ring.tail

\* The number of codes in hand.
Hand == IF hpc = "print" THEN 1 ELSE 0

\* CodesInOrder, code by code.
Codes ==
    /\ typed \in Nat /\ printed \in Seq(Nat) /\ queue \in Seq(Nat \ {0})
    /\ Len(printed) + Hand + Len(queue) = typed
    /\ \A k \in 1 .. Len(printed) : printed[k] = k
    /\ hpc = "print" => ring.buf[ring.tail] = Len(printed) + 1
    /\ \A k \in 1 .. Len(queue) : queue[k] = Len(printed) + Hand + k

IInv == Types /\ Exclusion /\ Masks /\ Keyboard /\ RingOK /\ Codes

USE IrqAssumption DEF kbd, cascade, Master, Slave, None
-----------------------------------------------------------------------------
(* The controllers.                                                        *)

\* Least, by which pic_get_irq finds the line with the highest priority, is a
\* member of any set of lines that is not empty.
LEMMA LeastIsMember ==
    ASSUME NEW S \in SUBSET Nat, S # {}
    PROVE  Least(S) \in S
<1> DEFINE R == {ss \in Nat \X Nat : ss[1] < ss[2]}
<1>1. \E x \in S : \A y \in S : ~ (<<y, x>> \in R)
  <2>1. IsWellFoundedOn(R, Nat)
    BY Zenon, NatLessThanWellFounded DEF OpToRel
  <2> HIDE DEF R
  <2> QED BY Zenon, <2>1, WFMin
<1>2. PICK x \in S : \A y \in S : ~ (<<y, x>> \in R)
  BY Zenon, <1>1
<1>3. \A y \in S : x <= y
  <2> TAKE y \in S
  <2>1. ~ (<<y, x>> \in R) /\ x \in Nat /\ y \in Nat
    BY Zenon, <1>2
  <2>2. ~ (y < x)
    BY Zenon, <2>1
  <2> QED BY SMTT(30), <2>1, <2>2
<1> QED BY Zenon, <1>3 DEF Least

\* pic_get_irq answers with a line that is requested, or with none.
LEMMA GetIrq ==
    ASSUME NEW chip \in {Master, Slave}, NEW rr \in SUBSET Nat, NEW sr, NEW mr
    PROVE  pic_get_irq(chip, rr, sr, mr) \in {None} \cup (rr \cap chip)
<1>1. CASE (rr \cap chip) \ mr = {}
  BY Zenon, <1>1 DEF pic_get_irq
<1>2. CASE (rr \cap chip) \ mr # {}
  <2>1. Least((rr \cap chip) \ mr) \in (rr \cap chip) \ mr
    BY Zenon, <1>2, LeastIsMember
  <2> QED BY Zenon, <2>1 DEF pic_get_irq
<1> QED BY Zenon, <1>1, <1>2

\* The lines.
LEMMA Lines ==
    /\ Line \subseteq Master \cup Slave /\ Line \subseteq Nat
    /\ 7 \notin Line /\ 15 \notin Line /\ kbd \in Line /\ cascade \in Line
    /\ Device \subseteq Line \ {kbd, cascade} /\ HandlerLines \subseteq Line \ {kbd, cascade}
    /\ MainLines \subseteq Device /\ 0 \in Device
BY DEF Line

\* pic_update_irq adds at most the cascade's request.
LEMMA Update ==
    ASSUME NEW rr \in SUBSET Line, NEW sr, NEW mr, pic_update_irq(rr, sr, mr)
    PROVE  /\ irr' \in SUBSET Line /\ isr' = sr /\ imr' = mr
           /\ kbd \in irr' <=> kbd \in rr
BY Zenon, Lines DEF pic_update_irq

\* A line goes up: the edge is latched unless the line was up.
LEMMA RaiseLine ==
    ASSUME NEW l \in Line, Types, pic_raise(l)
    PROVE  /\ last_irr' = last_irr \cup {l}
           /\ irr' \in SUBSET Line /\ isr' = isr /\ imr' = imr
           /\ kbd \in irr' <=> kbd \in irr \/ (l = kbd /\ kbd \notin last_irr)
<1> DEFINE rr == IF l \in last_irr THEN irr ELSE irr \cup {l}
<1>1. last_irr' = last_irr \cup {l} /\ pic_update_irq(rr, isr, imr)
  BY Zenon DEF pic_raise
<1>2. rr \in SUBSET Line /\ (kbd \in rr <=> kbd \in irr \/ (l = kbd /\ kbd \notin last_irr))
  BY DEF Types
<1> HIDE DEF rr
<1> QED BY Zenon, <1>1, <1>2, Update

\* A line goes down: what is latched stays.
LEMMA LowerLine ==
    ASSUME NEW l \in Line, Types, pic_lower(l)
    PROVE  /\ last_irr' = last_irr \ {l}
           /\ irr' \in SUBSET Line /\ isr' = isr /\ imr' = imr
           /\ kbd \in irr' <=> kbd \in irr
<1>1. last_irr' = last_irr \ {l} /\ pic_update_irq(irr, isr, imr) /\ irr \in SUBSET Line
  BY Zenon DEF pic_lower, Types
<1> QED BY Zenon, <1>1, Update
-----------------------------------------------------------------------------
(* Each step keeps the invariant.                                          *)

\* A step that leaves the ring, the queue and the history alone, and does not
\* begin or end the printing of a code.
LEMMA CodesKept ==
    ASSUME RingOK, Codes, UNCHANGED <<ring, typed, printed, queue>>,
           hpc' = "print" <=> hpc = "print"
    PROVE  RingOK' /\ Codes'
<1>1. RingOK'
  BY Zenon DEF RingOK
<1>2. Codes'
  BY Zenon DEF Codes, Hand
<1> QED BY Zenon, <1>1, <1>2

\* The machine at power-on, before the kernel has set up its controllers.
LEMMA InitStep == Init => IInv
<1> SUFFICES ASSUME Init PROVE IInv
  BY Zenon
<1>1. typed \in Nat /\ Len(queue) = typed /\ queue \in Seq(Nat \ {0})
      /\ \A k \in 1 .. Len(queue) : queue[k] = k
  BY DEF Init
<1>2. Types
  BY Zenon, Lines DEF Init, Types, Places
<1>3. Exclusion
  BY DEF Init, Exclusion, Serving
<1>4. Masks
  BY Zenon DEF Init, Masks
<1>5. Keyboard
  BY Zenon DEF Init, Keyboard
<1>6. RingOK
  BY SMTT(30) DEF Init, RingOK
<1>7. Codes
  BY SMTT(30), <1>1 DEF Init, Codes, Hand
<1> QED BY SMTT(30), <1>2, <1>3, <1>4, <1>5, <1>6, <1>7 DEF IInv

\* A new code: the line may have been up already.
LEMMA QueueStep == IInv /\ ps2_queue => IInv'
<1> SUFFICES ASSUME IInv, ps2_queue PROVE IInv'
  BY Zenon
<1> USE DEF IInv
<1>1. CASE UNCHANGED <<typed, queue, pic>>
  <2>1. UNCHANGED <<last_irr, irr, isr, imr, typed, queue, ifl, pc, cur, hpc, ring, printed,
                    irq_handler, mask_word, asked, enabled>>
    BY Zenon, <1>1 DEF ps2_queue, pic, kernel
  <2>2. Types' /\ Exclusion' /\ Masks' /\ Keyboard'
    BY SMTT(30), <2>1 DEF Types, Exclusion, Masks, Chip, Keyboard
  <2> QED BY Zenon, <2>1, <2>2, CodesKept
<1>2. CASE typed' = typed + 1 /\ queue' = Append(queue, typed') /\ pic_raise(kbd)
  <2>1. UNCHANGED <<ifl, pc, cur, hpc, ring, printed, irq_handler, mask_word, asked, enabled>>
    BY Zenon DEF ps2_queue, kernel
  <2>2. /\ last_irr' = last_irr \cup {kbd}
        /\ irr' \in SUBSET Line /\ isr' = isr /\ imr' = imr
        /\ kbd \in irr' <=> kbd \in irr \/ kbd \notin last_irr
    BY Zenon, <1>2, RaiseLine, Lines
  <2>3. Types' /\ Exclusion' /\ Masks'
    BY SMTT(30), <2>1, <2>2, Lines DEF Types, Exclusion, Masks, Chip
  <2>4. typed \in Nat /\ queue \in Seq(Nat \ {0}) /\ typed' \in Nat \ {0}
    BY SMTT(30), <1>2 DEF Codes
  <2>5. /\ queue' \in Seq(Nat \ {0}) /\ Len(queue') = Len(queue) + 1 /\ Len(queue) \in Nat
        /\ queue'[Len(queue) + 1] = typed + 1
        /\ \A k \in 1 .. Len(queue) : queue'[k] = queue[k]
    BY SMTT(30), <1>2, <2>4, AppendProperties
  <2>6. Keyboard'
    BY SMTT(30), <2>1, <2>2, <2>5 DEF Keyboard
  <2>7. RingOK'
    BY Zenon, <2>1 DEF RingOK
  <2>8. Len(printed) \in Nat /\ Hand \in Nat /\ Hand' = Hand
    BY SMTT(30), <2>1 DEF Codes, Hand
  <2>9. Len(printed) + Hand + Len(queue) = typed /\ typed' = typed + 1
    BY Zenon, <1>2 DEF Codes
  <2>10. \A k \in 1 .. Len(queue') : queue'[k] = Len(printed) + Hand + k
    <3>1. ASSUME NEW k \in 1 .. Len(queue) PROVE queue'[k] = Len(printed) + Hand + k
      BY Zenon, <2>5 DEF Codes
    <3>2. queue'[Len(queue) + 1] = Len(printed) + Hand + (Len(queue) + 1)
      BY SMTT(30), <2>5, <2>8, <2>9
    <3>3. \A k \in 1 .. Len(queue') : k \in 1 .. Len(queue) \/ k = Len(queue) + 1
      BY SMTT(30), <2>5
    <3> QED BY Zenon, <3>1, <3>2, <3>3
  <2>11. Len(printed) + Hand + Len(queue') = typed'
    BY SMTT(30), <2>4, <2>5, <2>8, <2>9
  <2>12. Codes'
    BY Zenon, <2>1, <2>4, <2>5, <2>8, <2>10, <2>11 DEF Codes
  <2> QED BY Zenon, <2>3, <2>6, <2>7, <2>12
<1> QED BY Zenon, <1>1, <1>2 DEF ps2_queue

\* Other devices move their own lines, which are not the keyboard's.
LEMMA DeviceStep ==
    ASSUME NEW l \in Device
    PROVE  IInv /\ (Raise(l) \/ Lower(l)) => IInv'
<1> SUFFICES ASSUME IInv, Raise(l) \/ Lower(l) PROVE IInv'
  BY Zenon
<1> USE DEF IInv
<1>1. UNCHANGED <<queue, ifl, pc, cur, hpc, ring, typed, printed, irq_handler, mask_word,
                  asked, enabled>>
  BY Zenon DEF Raise, Lower, kernel
<1>2. /\ last_irr' \in SUBSET Line /\ (kbd \in last_irr' <=> kbd \in last_irr)
      /\ irr' \in SUBSET Line /\ isr' = isr /\ imr' = imr
      /\ kbd \in irr' <=> kbd \in irr
  <2>1. l \in Line /\ l # kbd /\ last_irr \in SUBSET Line
    BY Zenon, Lines DEF Types
  <2>2. CASE Raise(l)
    <3>1. pic_raise(l)
      BY Zenon, <2>2 DEF Raise
    <3> QED BY SMTT(30), <2>1, <3>1, RaiseLine
  <2>3. CASE Lower(l)
    <3>1. pic_lower(l)
      BY Zenon, <2>3 DEF Lower
    <3> QED BY SMTT(30), <2>1, <3>1, LowerLine
  <2> QED BY Zenon, <2>2, <2>3
<1>3. Types' /\ Exclusion' /\ Masks' /\ Keyboard'
  BY <1>1, <1>2 DEF Types, Exclusion, Masks, Chip, Keyboard
<1> QED BY Zenon, <1>1, <1>3, CodesKept

\* Only the clock's period ends.
LEMMA PeriodStep == IInv /\ PeriodOver => IInv'
<1> SUFFICES ASSUME IInv, PeriodOver PROVE IInv'
  OBVIOUS
<1> USE DEF IInv
<1>1. UNCHANGED <<last_irr, irr, isr, imr, queue, ifl, pc, cur, hpc, ring, typed, printed,
                  irq_handler, mask_word, asked, enabled>>
  BY Zenon DEF PeriodOver, pic
<1>2. Types' /\ Exclusion' /\ Masks' /\ Keyboard'
  BY SMTT(30), <1>1 DEF Types, Exclusion, Masks, Chip, Keyboard
<1> QED BY Zenon, <1>1, <1>2, CodesKept

\* pic_init: requests are dropped with their lines, never a line alone.
LEMMA InitControllers == IInv /\ pic_init => IInv'
<1> SUFFICES ASSUME IInv, pic_init PROVE IInv'
  OBVIOUS
<1> USE DEF IInv
<1>1. /\ UNCHANGED <<ifl, irq_handler, mask_word, asked, enabled, queue, cur, hpc, ring,
                     typed, printed>>
      /\ cur = None /\ ifl = FALSE /\ isr = {} /\ hpc = "none"
  BY DEF pic_init, kernel, Rest, Main, Exclusion, Open, Serving, Types
<1>2. RingOK' /\ Codes'
  BY Zenon, <1>1, CodesKept
<1>3. CASE Main("master") /\ pic_reset(Master) /\ pc' = "slave"
  <2>1. Types' /\ Exclusion' /\ Masks' /\ Keyboard'
    BY SMTT(30), <1>1, <1>3 DEF Main, pic_reset, Types, Places, Exclusion, Serving, Masks, Keyboard
  <2> QED BY Zenon, <1>2, <2>1
<1>4. CASE Main("slave") /\ pic_reset(Slave) /\ pc' = "mask1"
  <2>1. Types' /\ Exclusion' /\ Masks' /\ Keyboard'
    BY SMTT(30), <1>1, <1>4 DEF Main, pic_reset, Types, Places, Exclusion, Serving, Masks, Keyboard
  <2> QED BY SMTT(30), <1>2, <2>1
<1>5. CASE /\ Main("mask1") /\ pc' = "mask2"
           /\ pic_update_irq(irr, isr, (Line \cap Master) \ {cascade}) /\ UNCHANGED last_irr
  <2>1. /\ irr' \in SUBSET Line /\ isr' = isr /\ imr' = (Line \cap Master) \ {cascade}
        /\ kbd \in irr' <=> kbd \in irr
    <3>1. irr \in SUBSET Line
      BY Zenon DEF Types
    <3> QED BY Zenon, <1>5, <3>1, Update
  <2>2. Types' /\ Exclusion' /\ Masks' /\ Keyboard'
    BY Zenon, <1>1, <1>5, <2>1 DEF Main, Types, Places, Exclusion, Serving, Masks, Keyboard
  <2> QED BY <1>2, <2>2
<1>6. CASE /\ Main("mask2") /\ pc' = "tty"
           /\ pic_update_irq(irr, isr, imr \cup (Line \cap Slave)) /\ UNCHANGED last_irr
  <2>1. /\ irr' \in SUBSET Line /\ isr' = isr /\ imr' = imr \cup (Line \cap Slave)
        /\ kbd \in irr' <=> kbd \in irr
    <3>1. irr \in SUBSET Line
      BY DEF Types
    <3> QED BY Zenon, <1>6, <3>1, Update
  <2>2. imr' = Line \ enabled
    <3>1. imr = (Line \cap Master) \ {cascade} /\ enabled = {cascade}
      BY Zenon, <1>6 DEF Main, Masks
    <3>2. \A l \in Line : l \in Master \cup Slave
      BY Zenon, Lines
    <3>3. cascade \notin Slave
      OBVIOUS
    <3> HIDE DEF Master, Slave, cascade
    <3> QED BY Zenon, <2>1, <3>1, <3>2, <3>3
  <2>3. Types' /\ Exclusion' /\ Masks' /\ Keyboard'
    BY Zenon, <1>1, <1>6, <2>1, <2>2 DEF Main, Types, Places, Exclusion, Serving, Masks, Keyboard
  <2> QED BY <1>2, <2>3
<1> QED BY Zenon, <1>3, <1>4, <1>5, <1>6 DEF pic_init

\* irq_install is called by the boot with interrupts off and by programs with
\* interrupts on.
LEMMA InstallStep == IInv /\ (Boot \/ Run) => IInv'
<1> SUFFICES ASSUME IInv, Boot \/ Run PROVE IInv'
  BY Zenon
<1> USE DEF IInv
<1>1. /\ UNCHANGED <<last_irr, irr, isr, imr, mask_word, enabled, queue, cur, hpc, ring,
                     typed, printed>>
      /\ cur = None
      /\ \/ pc \in {"tty", "rtc", "run"} /\ pc' = "cli" /\ ifl' = ifl
         \/ pc = "sti" /\ pc' = "run" /\ ifl' = TRUE
  BY Zenon DEF Boot, Run, irq_install, pic, kernel, Rest, Main
<1>2. asked' \in (Device \cup {kbd}) \X BOOLEAN
  <2>1. CASE Boot
    <3>1. asked' = <<kbd, TRUE>> \/ asked' = <<0, TRUE>> \/ asked' = asked
      BY Zenon, <2>1 DEF Boot, irq_install, kernel
    <3>2. asked \in (Device \cup {kbd}) \X BOOLEAN
      BY Zenon DEF Types
    <3>3. <<kbd, TRUE>> \in (Device \cup {kbd}) \X BOOLEAN
      BY Zenon
    <3>4. <<0, TRUE>> \in (Device \cup {kbd}) \X BOOLEAN
      BY Zenon, Lines
    <3> QED BY ONLY Zenon, <3>1, <3>2, <3>3, <3>4
  <2>2. CASE Run
    <3>1. PICK l \in MainLines, h \in BOOLEAN : asked' = <<l, h>>
      BY Zenon, <2>2 DEF Run, irq_install
    <3> QED BY Zenon, <3>1, Lines
  <2> QED BY Zenon, <2>1, <2>2
<1>3. Types'
  BY Zenon, <1>1, <1>2 DEF Types, Places
<1>4. Exclusion' /\ Masks' /\ Keyboard'
  BY Zenon, <1>1 DEF Exclusion, Open, Masks, Keyboard
<1> QED BY Zenon, <1>1, <1>3, <1>4, CodesKept

\* irq_mask: the word that was read is still the mask when it is written.
LEMMA MaskStep == IInv /\ irq_mask => IInv'
<1> SUFFICES ASSUME IInv, irq_mask PROVE IInv'
  OBVIOUS
<1> USE DEF IInv
<1>1. /\ UNCHANGED <<asked, last_irr, queue, cur, hpc, ring, typed, printed>>
      /\ cur = None
  BY Zenon DEF irq_mask, pic, Rest, Main
<1>2. RingOK' /\ Codes'
  BY Zenon, <1>1, CodesKept
<1>3. CASE Main("cli") /\ pc' = "in" /\ Cli /\ UNCHANGED <<pic, mask_word, enabled>>
  <2>1. Types' /\ Exclusion' /\ Masks' /\ Keyboard'
    BY Zenon, <1>1, <1>3 DEF Main, Cli, pic, Types, Places, Exclusion, Masks, Keyboard
  <2> QED BY <1>2, <2>1
<1>4. CASE /\ Main("in") /\ pc' = "out" /\ mask_word' = imr \cap Chip(asked[1])
           /\ UNCHANGED <<pic, ifl, enabled>>
  <2>1. Types' /\ Exclusion' /\ Masks' /\ Keyboard'
    BY Zenon, <1>1, <1>4 DEF Main, pic, Types, Places, Exclusion, Open, Masks, Chip, Keyboard
  <2> QED BY <1>2, <2>1
<1>5. CASE /\ Main("out") /\ pc' = "restore"
           /\ pic_update_irq(irr, isr, (imr \ Chip(asked[1])) \cup
                                       Masked(mask_word, asked[1], asked[2]))
           /\ enabled' = IF asked[2] THEN enabled \cup {asked[1]} ELSE enabled \ {asked[1]}
           /\ UNCHANGED <<last_irr, ifl>>
  <2>1. PICK l \in Device \cup {kbd}, h \in BOOLEAN : asked = <<l, h>>
    BY DEF Types
  <2>2. l \in Line /\ l \in Chip(l) /\ asked[1] = l /\ asked[2] = h
    BY Zenon, <2>1, Lines DEF Chip
  <2>3. mask_word = imr \cap Chip(l) /\ imr = Line \ enabled
    BY Zenon, <1>5, <2>2 DEF Main, Masks
  <2>4. /\ irr' \in SUBSET Line /\ isr' = isr /\ (kbd \in irr' <=> kbd \in irr)
        /\ imr' = (imr \ Chip(l)) \cup Masked(imr \cap Chip(l), l, h)
        /\ enabled' = IF h THEN enabled \cup {l} ELSE enabled \ {l}
    <3>1. irr \in SUBSET Line
      BY Zenon DEF Types
    <3>2. mask_word = imr \cap Chip(l)
      BY Zenon, <2>3
    <3>3. pic_update_irq(irr, isr, (imr \ Chip(l)) \cup Masked(imr \cap Chip(l), l, h))
      BY Zenon, <1>5, <2>2, <3>2
    <3> QED BY Zenon, <1>5, <2>2, <3>1, <3>3, Update
  <2>5. imr' = Line \ enabled'
    BY SMTT(30), <2>2, <2>3, <2>4 DEF Masked
  <2>6. Types'
    BY Zenon, <1>1, <1>5, <2>2, <2>4, <2>5 DEF Types, Places
  <2>7. Exclusion' /\ Masks' /\ Keyboard'
    BY Zenon, <1>1, <1>5, <2>4, <2>5 DEF Main, Exclusion, Open, Masks, Keyboard
  <2> QED BY Zenon, <1>2, <2>6, <2>7
<1>6. CASE /\ Main("restore") /\ pc' = After /\ ifl' = (After = "run")
           /\ UNCHANGED <<pic, mask_word, enabled>>
  <2>1. After \in {"rtc", "sti", "run"}
    BY Zenon DEF After
  <2>2. Types' /\ Exclusion' /\ Masks' /\ Keyboard'
    BY Zenon, <1>1, <1>6, <2>1 DEF Main, pic, Types, Places, Exclusion, Open, Masks, Keyboard
  <2> QED BY <1>2, <2>2
<1> QED BY Zenon, <1>3, <1>4, <1>5, <1>6 DEF irq_mask

\* The processor takes an interrupt: nothing is in service, and the line that is
\* served was requested, unless it is the spurious one of its controller.
LEMMA InterruptStep == IInv /\ Interrupt => IInv'
<1> SUFFICES ASSUME IInv, Interrupt PROVE IInv'
  OBVIOUS
<1> USE DEF IInv
<1> DEFINE l == pic_get_irq(Master, irr, isr, imr)
           l2 == pic_get_irq(Slave, irr, isr, imr)
           got == CASE l = None -> {}
                    [] l # None /\ l # cascade -> {l}
                    [] l = cascade -> {l} \cup ({l2} \ {None})
           line == CASE l = None -> 7
                     [] l = cascade /\ l2 = None -> 15
                     [] l = cascade /\ l2 # None -> l2
                     [] OTHER -> l
<1>1. /\ UNCHANGED <<last_irr, imr, queue, pc, ring, typed, printed, asked, enabled, mask_word>>
      /\ ifl /\ cur = None /\ ifl' = FALSE
  BY Zenon DEF Interrupt, kernel
<1>2. isr = {} /\ pc \in Open /\ irr \in SUBSET Line /\ hpc = "none"
  BY <1>1 DEF Exclusion, Serving, Types
<1>3. l \in {None} \cup (irr \cap Master) /\ l2 \in {None} \cup (irr \cap Slave)
  <2>1. irr \in SUBSET Nat
    BY Zenon, <1>2, Lines
  <2> QED BY Zenon, <2>1, GetIrq
<1>4. /\ isr' = isr \cup got /\ irr' \in SUBSET Line
      /\ kbd \in irr' <=> kbd \in irr \ got
      /\ cur' = line /\ hpc' \in {"handler", "eoi"}
  BY Zenon, <1>2, Lines DEF Interrupt, Enter
<1> HIDE DEF l, l2
<1>5. \/ got = {} /\ line = 7
      \/ got = {cascade} /\ line = 15
      \/ got = {cascade, line} /\ line \in Slave \cap Line
      \/ got = {line} /\ line \in (Master \cap Line) \ {cascade} /\ line \in irr
  BY <1>2, <1>3
<1> HIDE DEF got, line
<1>6. got = Serving(line) /\ line \in Master \cup Slave /\ line # cascade
      /\ (line = kbd => kbd \in irr /\ kbd \in got)
  BY SMTT(30), <1>5, Lines DEF Serving
<1>7. Types'
  BY Zenon, <1>1, <1>4, <1>6 DEF Types
<1>8. Exclusion'
  BY SMTT(30), <1>1, <1>2, <1>4, <1>6 DEF Exclusion
<1>9. Masks' /\ Keyboard'
  BY Zenon, <1>1, <1>2, <1>4, <1>6 DEF Masks, Open, Keyboard
<1>10. RingOK' /\ Codes'
  BY Zenon, <1>1, <1>2, <1>4, CodesKept
<1> QED BY Zenon, <1>7, <1>8, <1>9, <1>10

\* tty_intr reads: there is a code, and the request for the next one, if there
\* is one, is made now.
LEMMA ReadStep == IInv /\ tty_intr_read => IInv'
<1> SUFFICES ASSUME IInv, tty_intr_read PROVE IInv'
  OBVIOUS
<1> USE DEF IInv
<1>1. /\ UNCHANGED <<ifl, pc, cur, typed, printed, mask_word, asked, enabled>>
      /\ cur = kbd /\ hpc = "handler" /\ hpc' = "print"
  BY Zenon DEF tty_intr_read, Handler, kernel
<1>2. queue # <<>> /\ kbd \in last_irr /\ kbd \notin irr
  BY Zenon, <1>1 DEF Keyboard
<1>3. queue \in Seq(Nat \ {0})
  BY Zenon DEF Codes
<1>4. /\ Head(queue) = queue[1] /\ Head(queue) \in Nat \ {0} /\ queue' = Tail(queue)
      /\ queue' \in Seq(Nat \ {0}) /\ Len(queue') = Len(queue) - 1 /\ Len(queue) \in Nat \ {0}
      /\ \A k \in 1 .. Len(queue') : queue'[k] = queue[k + 1]
      /\ ring' = push(ring, Head(queue))
  BY SMTT(30), <1>2, <1>3, HeadTailProperties DEF tty_intr_read
<1>5. /\ last_irr' \in SUBSET Line /\ irr' \in SUBSET Line /\ isr' = isr /\ imr' = imr
      /\ kbd \in irr' => kbd \in last_irr'
      /\ kbd \in last_irr' => Len(queue) > 1
  <2>1. irr \in SUBSET Line /\ irr \cup {kbd} \in SUBSET Line /\ last_irr \in SUBSET Line
        /\ kbd \in Line
    BY Zenon, Lines DEF Types
  <2>2. CASE Len(queue) > 1
    <3>1. last_irr' = last_irr \cup {kbd} /\ pic_update_irq(irr \cup {kbd}, isr, imr)
      BY Zenon, <2>2 DEF tty_intr_read, DataLeft, pic_pulse
    <3> QED BY Zenon, <2>1, <2>2, <3>1, Update
  <2>3. CASE ~ (Len(queue) > 1)
    <3>1. pic_lower(kbd)
      BY Zenon, <2>3 DEF tty_intr_read, DataLeft
    <3> QED BY SMTT(30), <1>2, <2>1, <3>1, LowerLine
  <2> QED BY Zenon, <2>2, <2>3
<1>6. Types'
  BY Zenon, <1>1, <1>5 DEF Types
<1>7. Exclusion' /\ Masks' /\ Keyboard'
  <2>1. Exclusion'
    BY Zenon, <1>1, <1>5 DEF Exclusion
  <2>2. Masks'
    BY Zenon, <1>1, <1>5 DEF Masks, Chip
  <2>3. queue' # <<>> \/ ~ (Len(queue) > 1)
    <3>1. Len(queue) > 1 => Len(queue') # 0
      BY SMTT(30), <1>4
    <3>2. Len(<<>>) = 0
      BY Zenon
    <3> QED BY ONLY Zenon, <3>1, <3>2
  <2>4. Keyboard'
    BY Zenon, <1>1, <1>5, <2>3 DEF Keyboard
  <2> QED BY Zenon, <2>1, <2>2, <2>4
<1>8. RingOK' /\ ring'.buf[ring'.tail] = Head(queue)
  <2>1. /\ ring \in [head : 0 .. BUF_SIZE - 1, tail : 0 .. BUF_SIZE - 1,
                     buf : [0 .. BUF_SIZE - 1 -> Nat]]
        /\ \A k \in 0 .. BUF_SIZE - 1 : ring.buf[k] = 0
        /\ ring.head = ring.tail
    BY Zenon, <1>1 DEF RingOK
  <2>2. Below(ring.tail) \in 0 .. BUF_SIZE - 1
    BY SMTT(30), <2>1 DEF Below
  <2>3. /\ ring' = [head |-> Below(ring.tail), tail |-> ring.tail,
                    buf |-> [ring.buf EXCEPT ![ring.tail] = Head(queue)]]
    BY Zenon, <1>4, <2>1 DEF push
  <2> DEFINE code == Head(queue)
  <2>4. code \in Nat \ {0}
    BY Zenon, <1>4
  <2>5. ring'.tail = ring.tail /\ ring'.head = Below(ring.tail)
        /\ ring'.buf = [ring.buf EXCEPT ![ring.tail] = code]
    BY Zenon, <2>3
  <2> HIDE DEF code
  <2>6. /\ ring'.buf \in [0 .. BUF_SIZE - 1 -> Nat] /\ ring'.buf[ring.tail] = code
        /\ \A k \in 0 .. BUF_SIZE - 1 : k # ring.tail => ring'.buf[k] = 0
    BY SMTT(30), <2>1, <2>4, <2>5
  <2>7. ring' \in [head : 0 .. BUF_SIZE - 1, tail : 0 .. BUF_SIZE - 1,
                   buf : [0 .. BUF_SIZE - 1 -> Nat]]
    BY Zenon, <2>1, <2>2, <2>3, <2>4 DEF code
  <2>8. Below(ring.tail)' = Below(ring'.tail)
    BY Zenon DEF Below
  <2>9. RingOK'
    BY Zenon, <1>1, <2>4, <2>5, <2>6, <2>7, <2>8 DEF RingOK
  <2> QED BY Zenon, <2>5, <2>6, <2>9 DEF code
<1>9. Codes'
  <2>1. Len(printed) \in Nat /\ Hand = 0 /\ Hand' = 1
    BY <1>1 DEF Codes, Hand
  <2>2. /\ typed \in Nat /\ printed \in Seq(Nat) /\ Len(printed) + Len(queue) = typed
        /\ \A k \in 1 .. Len(printed) : printed[k] = k
        /\ \A k \in 1 .. Len(queue) : queue[k] = Len(printed) + k
    BY SMTT(30), <2>1 DEF Codes
  <2>3. Head(queue) = Len(printed) + 1
    BY SMTT(30), <1>4, <2>1, <2>2
  <2>4. \A k \in 1 .. Len(queue') : queue'[k] = Len(printed) + 1 + k
    BY SMTT(30), <1>4, <2>1, <2>2
  <2>5. Len(printed) + 1 + Len(queue') = typed /\ queue' \in Seq(Nat \ {0})
    BY SMTT(30), <1>4, <2>1, <2>2
  <2> QED BY ONLY Zenon, <1>1, <1>8, <2>1, <2>2, <2>3, <2>4, <2>5 DEF Codes
<1> QED BY Zenon, <1>6, <1>7, <1>8, <1>9

\* tty_intr prints the code it has read.
LEMMA PrintStep == IInv /\ tty_intr_print => IInv'
<1> SUFFICES ASSUME IInv, tty_intr_print PROVE IInv'
  OBVIOUS
<1> USE DEF IInv
<1>1. /\ UNCHANGED <<last_irr, irr, isr, imr, queue, ifl, pc, cur, typed, mask_word,
                     asked, enabled>>
      /\ cur = kbd /\ hpc = "print" /\ hpc' = "eoi"
      /\ printed' = Append(printed, ring.buf[ring.tail]) /\ ring' = popped(ring)
  BY Zenon DEF tty_intr_print, pic, kernel
<1>2. Types' /\ Exclusion' /\ Masks' /\ Keyboard'
  BY SMTT(30), <1>1 DEF Types, Exclusion, Masks, Chip, Keyboard
<1>3. RingOK'
  <2>1. /\ ring \in [head : 0 .. BUF_SIZE - 1, tail : 0 .. BUF_SIZE - 1,
                     buf : [0 .. BUF_SIZE - 1 -> Nat]]
        /\ \A k \in 0 .. BUF_SIZE - 1 : ring.buf[k] # 0 <=> k = ring.tail
        /\ ring.head = Below(ring.tail)
    BY Zenon, <1>1 DEF RingOK
  <2>2. Below(ring.tail) \in 0 .. BUF_SIZE - 1
    BY Zenon, <2>1 DEF Below
  <2>3. ring' = [head |-> ring.head, tail |-> Below(ring.tail),
                 buf |-> [ring.buf EXCEPT ![ring.tail] = 0]]
    BY Zenon, <1>1, <2>1 DEF popped
  <2> QED BY SMTT(30), <1>1, <2>1, <2>2, <2>3 DEF RingOK
<1>4. Codes'
  <2>1. Len(printed) \in Nat /\ Hand = 1 /\ Hand' = 0 /\ printed \in Seq(Nat)
        /\ ring.buf[ring.tail] = Len(printed) + 1
    BY <1>1 DEF Codes, Hand
  <2>2. /\ printed' \in Seq(Nat) /\ Len(printed') = Len(printed) + 1
        /\ printed'[Len(printed) + 1] = Len(printed) + 1
        /\ \A k \in 1 .. Len(printed) : printed'[k] = printed[k]
    BY SMTT(30), <1>1, <2>1, AppendProperties
  <2>3. /\ typed \in Nat /\ queue \in Seq(Nat \ {0}) /\ Len(printed) + 1 + Len(queue) = typed
        /\ \A k \in 1 .. Len(printed) : printed[k] = k
        /\ \A k \in 1 .. Len(queue) : queue[k] = Len(printed) + 1 + k
    BY Zenon, <2>1 DEF Codes
  <2>4. \A k \in 1 .. Len(printed') : printed'[k] = k
    <3> TAKE k \in 1 .. Len(printed')
    <3>1. k \in 1 .. Len(printed) \/ k = Len(printed) + 1
      BY <2>1, <2>2
    <3> QED BY ONLY Zenon, <2>2, <2>3, <3>1
  <2> QED BY SMTT(30), <1>1, <2>1, <2>2, <2>3, <2>4 DEF Codes
<1> QED BY Zenon, <1>2, <1>3, <1>4

\* The clock's handler changes masks while the main program is outside of the
\* critical part of irq_mask; other handlers change nothing here.
LEMMA HandlerStep == IInv /\ (rtc_intr \/ OtherHandler) => IInv'
<1> SUFFICES ASSUME IInv, rtc_intr \/ OtherHandler PROVE IInv'
  OBVIOUS
<1> USE DEF IInv
<1>1. /\ UNCHANGED <<last_irr, queue, ifl, pc, cur, ring, typed, printed, mask_word, asked>>
      /\ hpc = "handler" /\ hpc' = "eoi"
  BY Zenon DEF rtc_intr, OtherHandler, Handler, pic, kernel
<1>2. pc \in Open /\ cur # None
  BY Zenon, <1>1 DEF Exclusion
<1>3. imr = Line \ enabled
  BY Zenon, <1>2 DEF Open, Masks
<1>4. /\ irr' \in SUBSET Line /\ isr' = isr /\ (kbd \in irr' <=> kbd \in irr)
      /\ imr' = Line \ enabled' /\ enabled' \in SUBSET Line
  <2>1. irr \in SUBSET Line /\ enabled \in SUBSET Line
    BY Zenon DEF Types
  <2>2. CASE UNCHANGED <<pic, enabled>>
    BY Zenon, <1>3, <2>1, <2>2 DEF pic
  <2>3. CASE \E l \in HandlerLines, h \in BOOLEAN :
               /\ pic_update_irq(irr, isr, Masked(imr, l, h))
               /\ enabled' = IF h THEN enabled \cup {l} ELSE enabled \ {l}
    <3>1. PICK l \in HandlerLines, h \in BOOLEAN :
               /\ pic_update_irq(irr, isr, Masked(imr, l, h))
               /\ enabled' = IF h THEN enabled \cup {l} ELSE enabled \ {l}
      BY Zenon, <2>3
    <3>2. /\ irr' \in SUBSET Line /\ isr' = isr /\ (kbd \in irr' <=> kbd \in irr)
          /\ imr' = Masked(imr, l, h)
      BY Zenon, <2>1, <3>1, Update
    <3>3. l \in Line
      BY Zenon, Lines
    <3> QED BY SMTT(30), <1>3, <2>1, <3>1, <3>2, <3>3 DEF Masked
  <2> QED BY Zenon, <2>2, <2>3 DEF rtc_intr, OtherHandler, kernel
<1>5. Types'
  BY Zenon, <1>1, <1>4 DEF Types
<1>6. Exclusion' /\ Masks' /\ Keyboard'
  BY Zenon, <1>1, <1>2, <1>4 DEF Exclusion, Open, Masks, Keyboard
<1> QED BY Zenon, <1>1, <1>5, <1>6, CodesKept

\* The unspecific ends of interrupt find just what isr_entry was serving.
LEMMA EndStep == IInv /\ EndOfInterrupt => IInv'
<1> SUFFICES ASSUME IInv, EndOfInterrupt PROVE IInv'
  OBVIOUS
<1> USE DEF IInv
<1> DEFINE sr == isr \ (Highest(Master) \cup (IF cur \in Slave THEN Highest(Slave) ELSE {}))
<1>1. /\ UNCHANGED <<last_irr, queue, pc, ring, typed, printed, mask_word, asked, enabled>>
      /\ hpc = "eoi" /\ hpc' = "none" /\ cur' = None /\ ifl' = TRUE
      /\ pic_update_irq(irr, sr, imr)
  BY Zenon DEF EndOfInterrupt, irq_eoi, kernel
<1>2. isr = Serving(cur) /\ cur # None /\ cur # cascade /\ pc \in Open
      /\ cur \in Master \cup Slave /\ irr \in SUBSET Line
  BY Zenon, <1>1 DEF Exclusion, Types
<1>3. sr = {}
  <2>1. \A x \in Nat : Least({x}) = x
    BY SMTT(30), LeastIsMember
  <2>2. CASE cur = 7
    BY SMTT(30), <1>2, <2>2 DEF Serving
  <2>3. CASE cur \in Master \ {7}
    <3>1. isr \cap Master = {cur} /\ isr = {cur} /\ cur \notin Slave
      BY SMTT(30), <1>2, <2>3 DEF Serving
    <3>2. Highest(Master) = {cur}
      BY SMTT(30), <2>1, <2>3, <3>1 DEF Highest
    <3> QED BY Zenon, <3>1, <3>2
  <2>4. CASE cur = 15
    <3>1. isr \cap Master = {cascade} /\ isr = {cascade}
      BY SMTT(30), <1>2, <2>4 DEF Serving
    <3>2. Highest(Master) = {cascade}
      BY Zenon, <2>1, <3>1 DEF Highest
    <3> QED BY Zenon, <3>1, <3>2
  <2>5. CASE cur \in Slave \ {15}
    <3>1. isr \cap Master = {cascade} /\ isr \cap Slave = {cur} /\ isr = {cascade, cur}
      BY SMTT(30), <1>2, <2>5 DEF Serving
    <3>2. Highest(Master) = {cascade} /\ Highest(Slave) = {cur}
      BY SMTT(30), <2>1, <2>5, <3>1 DEF Highest
    <3> QED BY Zenon, <2>5, <3>1, <3>2
  <2> QED BY Zenon, <1>2, <2>2, <2>3, <2>4, <2>5
<1> HIDE DEF sr
<1>4. irr' \in SUBSET Line /\ isr' = {} /\ imr' = imr /\ (kbd \in irr' <=> kbd \in irr)
  BY Zenon, <1>1, <1>2, <1>3, Update
<1>5. Types'
  BY Zenon, <1>1, <1>4 DEF Types
<1>6. Exclusion' /\ Masks' /\ Keyboard'
  BY SMTT(30), <1>1, <1>2, <1>4 DEF Exclusion, Serving, Open, Masks, Keyboard
<1> QED BY Zenon, <1>1, <1>5, <1>6, CodesKept

\* The invariant is inductive.
LEMMA Inductive == IInv /\ [Next]_vars => IInv'
<1> SUFFICES ASSUME IInv, [Next]_vars PROVE IInv'
  BY Zenon
<1>1. CASE UNCHANGED vars
  <2>1. UNCHANGED <<last_irr, irr, isr, imr, queue, ifl, pc, cur, hpc, ring, typed, printed,
                    mask_word, asked, enabled>>
    BY Zenon, <1>1 DEF vars
  <2>2. Types' /\ Exclusion' /\ Masks' /\ Keyboard'
    BY <2>1 DEF IInv, Types, Exclusion, Masks, Chip, Keyboard
  <2> QED BY Zenon, <2>1, <2>2, CodesKept DEF IInv
<1>2. CASE Next
  BY Zenon, <1>2, QueueStep, DeviceStep, PeriodStep, InitControllers, InstallStep, MaskStep,
     InterruptStep, ReadStep, PrintStep, HandlerStep, EndStep
     DEF Next, Main_steps, Handler_steps
<1> QED BY Zenon, <1>1, <1>2

\* Spec keeps the invariant.
LEMMA Invariant == Spec => []IInv
BY InitStep, Inductive, PTL DEF Spec
-----------------------------------------------------------------------------
(* What follows.                                                           *)

\* However interrupts, masks and the boot interleave, what the controllers have
\* in service is what isr_entry serves, and the masks are those last asked for:
\* irq_eoi never ends another interrupt and irq_mask never undoes a handler's
\* change.
THEOREM Agreement == Spec => []ControllersAgree
<1>1. IInv => ControllersAgree
  <2> SUFFICES ASSUME IInv PROVE ControllersAgree
    BY Zenon
  <2>1. isr = Serving(cur) /\ cur \in {None} \cup Master \cup Slave
        /\ (pc \notin {"master", "slave", "mask1", "mask2"} => imr = Line \ enabled)
    BY Zenon DEF IInv, Types, Exclusion, Masks
  <2>2. CASE cur \in {None, 7}
    BY SMTT(30), <2>1, <2>2 DEF ControllersAgree, Serving
  <2>3. CASE cur = 15
    BY SMTT(30), <2>1, <2>3 DEF ControllersAgree, Serving
  <2>4. CASE cur \in Slave \ {15}
    BY SMTT(30), <2>1, <2>4 DEF ControllersAgree, Serving
  <2>5. CASE cur \in Master \ {7}
    BY SMTT(30), <2>1, <2>5 DEF ControllersAgree, Serving
  <2> QED BY Zenon, <2>1, <2>2, <2>3, <2>4, <2>5
<1> QED BY Invariant, <1>1, PTL

\* A sequence that counts from 1, continued.
LEMMA Counting ==
    ASSUME NEW a \in Seq(Nat), NEW b \in Seq(Nat),
           \A k \in 1 .. Len(a) : a[k] = k,
           \A k \in 1 .. Len(b) : b[k] = Len(a) + k
    PROVE  /\ a \o b \in Seq(Nat) /\ Len(a \o b) = Len(a) + Len(b)
           /\ \A k \in 1 .. Len(a) + Len(b) : (a \o b)[k] = k
<1>1. Len(a) \in Nat /\ Len(b) \in Nat
  BY SMTT(30)
<1>2. /\ a \o b \in Seq(Nat) /\ Len(a \o b) = Len(a) + Len(b)
      /\ \A k \in 1 .. Len(a) + Len(b) :
           (a \o b)[k] = IF k <= Len(a) THEN a[k] ELSE b[k - Len(a)]
  BY SMTT(30), ConcatProperties
<1>3. ASSUME NEW k \in 1 .. Len(a) + Len(b) PROVE (a \o b)[k] = k
  <2>1. CASE k <= Len(a)
    BY SMTT(30), <1>1, <1>2, <2>1
  <2>2. CASE k > Len(a)
    <3>1. k - Len(a) \in 1 .. Len(b)
      BY SMTT(30), <1>1, <2>2
    <3> QED BY SMTT(30), <1>1, <1>2, <2>2, <3>1
  <2> QED BY SMTT(30), <1>1, <2>1, <2>2
<1> QED BY Zenon, <1>2, <1>3

\* Every code the keyboard accepted is printed once and in order, in hand or
\* still queued, for any length of the keyboard's queue and of the ring: the
\* handler is never called without a code.
THEOREM CodesPrintedInOrder == Spec => []CodesInOrder
<1>1. IInv => CodesInOrder
  <2> SUFFICES ASSUME IInv PROVE CodesInOrder
    BY SMTT(30)
  <2> DEFINE n == Len(printed)
             s == printed \o InHand
             all == [k \in 1 .. typed |-> k]
  <2>1. /\ typed \in Nat /\ printed \in Seq(Nat) /\ queue \in Seq(Nat)
        /\ n \in Nat /\ Len(queue) \in Nat
        /\ n + Hand + Len(queue) = typed
        /\ \A k \in 1 .. n : printed[k] = k
        /\ \A k \in 1 .. Len(queue) : queue[k] = n + Hand + k
    BY SMTT(30) DEF IInv, Codes
  <2>2. InHand \in Seq(Nat) /\ Len(InHand) = Hand /\ Hand \in {0, 1}
        /\ (Hand = 1 => InHand[1] = n + 1)
    BY SMTT(30), <2>1 DEF IInv, Codes, Exclusion, InHand, Hand
  <2>3. s \in Seq(Nat) /\ Len(s) = n + Hand /\ \A k \in 1 .. n + Hand : s[k] = k
    <3>1. \A k \in 1 .. Len(InHand) : InHand[k] = Len(printed) + k
      BY SMTT(30), <2>1, <2>2
    <3>2. \A k \in 1 .. Len(printed) : printed[k] = k
      BY Zenon, <2>1
    <3> QED BY ONLY Zenon, <2>1, <2>2, <3>1, <3>2, Counting
  <2> HIDE DEF s
  <2>4. s \o queue \in Seq(Nat) /\ Len(s \o queue) = typed
        /\ \A k \in 1 .. typed : (s \o queue)[k] = k
    <3>1. \A k \in 1 .. Len(queue) : queue[k] = Len(s) + k
      BY Zenon, <2>1, <2>3
    <3>2. \A k \in 1 .. Len(s) : s[k] = k
      BY Zenon, <2>3
    <3>3. Len(s) + Len(queue) = typed
      BY Zenon, <2>1, <2>3
    <3> QED BY ONLY Zenon, <2>1, <2>3, <3>1, <3>2, <3>3, Counting
  <2>5. all \in Seq(Nat) /\ Len(all) = typed /\ \A k \in 1 .. typed : all[k] = k
    BY <2>1
  <2> HIDE DEF all
  <2>6. s \o queue = all
    BY Zenon, <2>1, <2>4, <2>5, SeqEqual
  <2> QED BY Zenon, <2>6 DEF CodesInOrder, s, all
<1> QED BY Invariant, <1>1, PTL
=============================================================================
