-------------------------------- MODULE Irq --------------------------------
(***************************************************************************)
(* The way of an interrupt: the keyboard of the virtual machine (hw/ps2.c, *)
(* hw/pckbd.c of sysvm), its two interrupt controllers (hw/i8259.c), the   *)
(* processor, and the kernel's side of it, kernel/arch/i386/cpu/irq.c with *)
(* tty_intr of tty.c.                                                      *)
(*                                                                         *)
(* A controller latches the rising edges of its lines in irr.  When a      *)
(* request is not masked and no higher one is in service it tells the      *)
(* processor, and does not take that back: if the request is gone by the   *)
(* time the processor asks, the answer is line 7 (15 from the slave).      *)
(* isr_entry calls the handler and ends the interrupt.  The keyboard keeps *)
(* its line up while it has scan codes and lets it down and up again when  *)
(* one of several is read.                                                 *)
(*                                                                         *)
(* Other lines are moved by their devices at any time (Hda has the disk's).*)
(* The model begins where the kernel does, in irq_init, with whatever the  *)
(* devices have done before.                                               *)
(***************************************************************************)
EXTENDS Integers, Sequences

CONSTANTS
    Device,         \* the lines of other devices, 0 (the clock) among them
    MainLines,      \* those for which the main program changes handlers
    HandlerLines,   \* those which timer handlers allow and disable
    BUF_SIZE,       \* of the ring of scan codes in tty.c
    PS2_QUEUE_SIZE,
    MaxKeys         \* bound: codes typed

kbd == 1
cascade == 2
Master == 0 .. 7
Slave == 8 .. 15
Line == Device \cup {kbd, cascade} \cup HandlerLines

ASSUME IrqAssumption ==
    /\ Device \cup HandlerLines \subseteq (Master \cup Slave) \ {kbd, cascade, 7, 15}
    /\ 0 \in Device
    /\ MainLines \subseteq Device
    /\ BUF_SIZE \in Nat \ {0} /\ PS2_QUEUE_SIZE \in Nat \ {0} /\ MaxKeys \in Nat

VARIABLES
    last_irr, irr, isr, imr,   \* both controllers: sets of lines
    intr,                      \* CPU_INTERRUPT_HARD
    queue,                     \* scan codes in the keyboard
    ifl,                       \* the interrupt flag
    pc, mask_word,             \* of the main program and irq_mask
    irq_handler,               \* the lines with a handler
    cur, hpc,                  \* the line whose interrupt is served, and what
                               \* isr_entry does next
    ring,                      \* tty_kbd_buf
    asked,                     \* what irq_mask is doing
    ticked,                    \* the clock has ticked and its period is not over
    typed, printed,            \* history: number of codes typed; codes printed
    enabled                    \* history: the lines last allowed

pic == <<last_irr, irr, isr, imr, intr>>
kernel == <<irq_handler, mask_word, asked, enabled, ticked>>
vars == <<last_irr, irr, isr, imr, intr, queue, ifl, pc, mask_word, irq_handler,
          cur, hpc, ring, asked, ticked, typed, printed, enabled>>

None == -1
Least(S) == CHOOSE l \in S : \A k \in S : l <= k
-----------------------------------------------------------------------------
(* The controllers.                                                        *)

\* The line a controller wants to interrupt for.
pic_get_irq(chip, rr, sr, mr) ==
    LET wanted == (rr \cap chip) \ mr
    IN IF wanted # {} /\ \A l \in sr \cap chip : Least(wanted) < l
         THEN Least(wanted) ELSE None

\* The slave passes its request on to the master, the master to the processor.
pic_update_irq(rr, sr, mr) ==
    LET rr2 == IF pic_get_irq(Slave, rr, sr, mr) # None THEN rr \cup {cascade} ELSE rr
    IN /\ irr' = rr2 /\ isr' = sr /\ imr' = mr
       /\ intr' = (intr \/ pic_get_irq(Master, rr2, sr, mr) # None)

pic_raise(l) ==
    /\ last_irr' = last_irr \cup {l}
    /\ pic_update_irq(IF l \in last_irr THEN irr ELSE irr \cup {l}, isr, imr)

pic_lower(l) ==
    /\ last_irr' = last_irr \ {l}
    /\ pic_update_irq(irr, isr, imr)

\* Mutant: the line is not let down.
pic_pulse_Up(l) == pic_raise(l)

\* Lets line l down and up again.
pic_pulse(l) ==
    /\ last_irr' = last_irr \cup {l}
    /\ pic_update_irq(irr \cup {l}, isr, imr)

\* pic_reset, for an ICW1.
pic_reset(chip) ==
    /\ last_irr' = last_irr \ chip /\ irr' = irr \ chip
    /\ isr' = isr \ chip /\ imr' = imr \ chip
    /\ intr' = FALSE

Highest(chip) == IF isr \cap chip = {} THEN {} ELSE {Least(isr \cap chip)}

\* Mutant: only the controller of the line is told.
irq_eoi_One(l) ==
    /\ pic_update_irq(irr, isr \ (IF l \in Slave THEN Highest(Slave) ELSE Highest(Master)), imr)
    /\ UNCHANGED last_irr

\* The end of an interrupt: each controller that took part ends the highest
\* it has in service.
irq_eoi(l) ==
    /\ pic_update_irq(irr, isr \ (Highest(Master) \cup
                                  (IF l \in Slave THEN Highest(Slave) ELSE {})), imr)
    /\ UNCHANGED last_irr
-----------------------------------------------------------------------------
(* The keyboard and the other devices.                                     *)

\* A key is pressed or released; the code is lost when the queue is full.
ps2_queue ==
    /\ typed < MaxKeys
    /\ \/ /\ Len(queue) < PS2_QUEUE_SIZE
          /\ typed' = typed + 1
          /\ queue' = Append(queue, typed')
          /\ pic_raise(kbd)
       \/ /\ Len(queue) = PS2_QUEUE_SIZE
          /\ UNCHANGED <<typed, queue, pic>>
    /\ UNCHANGED <<ifl, pc, cur, hpc, ring, printed, kernel>>

\* The clock does not tick again before everything it interrupted is done.
Raise(l) ==
    /\ l \notin last_irr
    /\ l = 0 => ~ticked
    /\ ticked' = (ticked \/ l = 0)
    /\ pic_raise(l)
    /\ UNCHANGED <<queue, ifl, pc, cur, hpc, ring, typed, printed, irq_handler,
                   mask_word, asked, enabled>>

PeriodOver ==
    /\ ticked /\ cur = None /\ ~intr
    /\ ticked' = FALSE
    /\ UNCHANGED <<pic, queue, ifl, pc, cur, hpc, ring, typed, printed, irq_handler,
                   mask_word, asked, enabled>>

Lower(l) ==
    /\ l \in last_irr
    /\ pic_lower(l)
    /\ UNCHANGED <<queue, ifl, pc, cur, hpc, ring, typed, printed, kernel>>
-----------------------------------------------------------------------------
(* The ring of scan codes; slots hold 0 when they are free.                *)

Below(k) == IF k > 0 THEN k - 1 ELSE BUF_SIZE - 1

push(r, code) ==
    IF r.buf[r.head] = 0
      THEN [r EXCEPT !.buf[r.head] = code, !.head = Below(r.head)] ELSE r

popped(r) ==
    IF r.buf[r.tail] # 0
      THEN [r EXCEPT !.buf[r.tail] = 0, !.tail = Below(@)] ELSE r
-----------------------------------------------------------------------------
(* The main program.                                                       *)

Init ==
    /\ typed \in 0 .. MaxKeys /\ typed <= PS2_QUEUE_SIZE
    /\ queue = [k \in 1 .. typed |-> k]
    /\ last_irr \in {S \in SUBSET (Device \cup {kbd}) : kbd \in S <=> queue # <<>>}
    /\ irr = last_irr /\ isr = {} /\ imr = {} /\ intr = (irr # {})
    /\ ifl = FALSE
    /\ pc = "master" /\ mask_word = {} /\ asked = <<0, FALSE>>
    /\ irq_handler = {} /\ ticked = FALSE /\ enabled = {cascade}
    /\ cur = None /\ hpc = "none"
    /\ ring = [head |-> 0, tail |-> 0, buf |-> [k \in 0 .. BUF_SIZE - 1 |-> 0]]
    /\ printed = <<>>

Main(l) == cur = None /\ pc = l
Rest == UNCHANGED <<queue, cur, hpc, ring, typed, printed>>

\* pic_init: the initialisation of each controller, then the masks.
pic_init ==
    /\ \/ Main("master") /\ pic_reset(Master) /\ pc' = "slave"
       \/ Main("slave") /\ pic_reset(Slave) /\ pc' = "mask1"
       \/ /\ Main("mask1") /\ pc' = "mask2"
          /\ pic_update_irq(irr, isr, (Line \cap Master) \ {cascade}) /\ UNCHANGED last_irr
       \/ /\ Main("mask2") /\ pc' = "tty"
          /\ pic_update_irq(irr, isr, imr \cup (Line \cap Slave)) /\ UNCHANGED last_irr
    /\ UNCHANGED <<ifl, kernel>> /\ Rest

\* irq_install begins: the handler, then the mask.
irq_install(l, h) ==
    /\ irq_handler' = IF h THEN irq_handler \cup {l} ELSE irq_handler \ {l}
    /\ asked' = <<l, h>>
    /\ UNCHANGED <<mask_word, enabled, ticked, ifl, pic>> /\ Rest

Boot ==
    \/ Main("tty") /\ pc' = "cli" /\ irq_install(kbd, TRUE)
    \/ /\ Main("rtc") /\ pc' = "cli" /\ irq_install(0, TRUE)
    \/ /\ Main("sti") /\ pc' = "run" /\ ifl' = TRUE
       /\ UNCHANGED <<pic, kernel>> /\ Rest

Run ==
    /\ Main("run") /\ pc' = "cli"
    /\ \E l \in MainLines, h \in BOOLEAN : irq_install(l, h)

\* Mutant: interrupts stay on.
Cli_On == UNCHANGED ifl

Cli == ifl' = FALSE

\* What follows irq_mask; interrupts are on again where they were before.
After == CASE asked[1] = kbd -> "rtc" [] asked[1] = 0 -> "sti" [] OTHER -> "run"

Chip(l) == IF l \in Master THEN Master ELSE Slave
Masked(word, l, h) == IF h THEN word \ {l} ELSE word \cup {l}

irq_mask ==
    /\ \/ /\ Main("cli") /\ pc' = "in"
          /\ Cli
          /\ UNCHANGED <<pic, mask_word, enabled>>
       \/ /\ Main("in") /\ pc' = "out"
          /\ mask_word' = imr \cap Chip(asked[1])
          /\ UNCHANGED <<pic, ifl, enabled>>
       \/ /\ Main("out") /\ pc' = "restore"
          /\ pic_update_irq(irr, isr, (imr \ Chip(asked[1])) \cup
                                      Masked(mask_word, asked[1], asked[2]))
          /\ enabled' = IF asked[2] THEN enabled \cup {asked[1]} ELSE enabled \ {asked[1]}
          /\ mask_word' = {}
          /\ UNCHANGED <<last_irr, ifl>>
       \/ /\ Main("restore") /\ pc' = After
          /\ ifl' = (After = "run")
          /\ UNCHANGED <<pic, mask_word, enabled>>
    /\ UNCHANGED <<irq_handler, asked, ticked>> /\ Rest
-----------------------------------------------------------------------------
(* The processor and isr_entry.                                            *)

Enter(l) == cur' = l /\ hpc' = IF l \in irq_handler THEN "handler" ELSE "eoi"

\* The processor asks the controllers for the line (pic_read_irq).
Interrupt ==
    /\ ifl /\ intr /\ cur = None
    /\ ifl' = FALSE
    /\ LET l == pic_get_irq(Master, irr, isr, imr)
           l2 == pic_get_irq(Slave, irr, isr, imr)
           got == CASE l = None -> {}
                    [] l # None /\ l # cascade -> {l}
                    [] l = cascade -> {l} \cup ({l2} \ {None})
           rr == irr \ got
           rr2 == IF pic_get_irq(Slave, rr, isr \cup got, imr) # None
                    THEN rr \cup {cascade} ELSE rr
       IN /\ irr' = rr2 /\ isr' = isr \cup got
          /\ intr' = (pic_get_irq(Master, rr2, isr \cup got, imr) # None)
          /\ Enter(CASE l = None -> 7
                     [] l = cascade /\ l2 = None -> 15
                     [] l = cascade /\ l2 # None -> l2
                     [] OTHER -> l)
    /\ UNCHANGED <<last_irr, imr, queue, pc, ring, typed, printed, kernel>>

Handler(l) == cur = l /\ hpc = "handler"

\* Mutant: the code being read is counted too.
DataLeft_Read == queue # <<>>

\* There are codes behind the one that is read.
DataLeft == Len(queue) > 1

\* tty_intr reads the code: the keyboard lets its line down, and up again when
\* there are more.  When there is none it repeats the last one.
tty_intr_read ==
    /\ Handler(kbd)
    /\ hpc' = "print"
    /\ ring' = push(ring, IF queue = <<>> THEN typed ELSE Head(queue))
    /\ queue' = IF queue = <<>> THEN queue ELSE Tail(queue)
    /\ IF DataLeft THEN pic_pulse(kbd) ELSE pic_lower(kbd)
    /\ UNCHANGED <<ifl, pc, cur, typed, printed, kernel>>

\* ... and prints what it takes out of the ring.
tty_intr_print ==
    /\ cur = kbd /\ hpc = "print"
    /\ printed' = Append(printed, ring.buf[ring.tail])
    /\ ring' = popped(ring)
    /\ hpc' = "eoi"
    /\ UNCHANGED <<pic, queue, ifl, pc, cur, typed, kernel>>

\* A timer handler allows or disables a line, or not; interrupts are off.
rtc_intr ==
    /\ Handler(0)
    /\ \/ \E l \in HandlerLines, h \in BOOLEAN :
            /\ pic_update_irq(irr, isr, Masked(imr, l, h)) /\ UNCHANGED last_irr
            /\ enabled' = IF h THEN enabled \cup {l} ELSE enabled \ {l}
       \/ UNCHANGED <<pic, enabled>>
    /\ hpc' = "eoi"
    /\ UNCHANGED <<queue, ifl, pc, cur, ring, typed, printed, irq_handler,
                   mask_word, asked, ticked>>

\* The handler of another device.
OtherHandler ==
    /\ cur \notin {0, kbd} /\ hpc = "handler"
    /\ hpc' = "eoi"
    /\ UNCHANGED <<pic, queue, ifl, pc, cur, ring, typed, printed, kernel>>

\* The end of isr_entry, and the return from the interrupt.
EndOfInterrupt ==
    /\ hpc = "eoi"
    /\ irq_eoi(cur)
    /\ cur' = None /\ hpc' = "none"
    /\ ifl' = TRUE
    /\ UNCHANGED <<queue, pc, ring, typed, printed, kernel>>

Main_steps == pic_init \/ Boot \/ irq_mask
Handler_steps == tty_intr_read \/ tty_intr_print \/ rtc_intr \/ OtherHandler \/ EndOfInterrupt

Next ==
    \/ ps2_queue
    \/ \E l \in Device : Raise(l) \/ Lower(l)
    \/ PeriodOver
    \/ Main_steps \/ Run
    \/ Interrupt
    \/ Handler_steps

\* Programs go on; the processor does not ignore an interrupt for ever though
\* interrupts are on again and again.
Spec ==
    /\ Init /\ [][Next]_vars
    /\ WF_vars(Main_steps) /\ WF_vars(Handler_steps) /\ SF_vars(Interrupt)
-----------------------------------------------------------------------------
(* Properties.                                                             *)

\* The controllers agree with the kernel.  What they have in service is what
\* isr_entry is serving, and nothing once it has returned: the unspecific end of
\* interrupt never ends another one, nor does that of a spurious interrupt, and
\* none stays.  The masks are those last asked for, although irq_mask reads and
\* writes them in two steps and timer handlers change them too.
ControllersAgree ==
    /\ pc \notin {"master", "slave"} =>
         isr = CASE cur \in {None, 7} -> {}
                 [] cur = 15 -> {cascade}
                 [] cur \in Slave \ {15} -> {cascade, cur}
                 [] OTHER -> {cur}
    /\ pc \notin {"master", "slave", "mask1", "mask2"} => imr = Line \ enabled

\* A code that is read but not printed yet.
InHand == IF cur = kbd /\ hpc = "print" THEN <<ring.buf[ring.tail]>> ELSE <<>>

\* Every code the keyboard has accepted is printed once and in order, or still
\* waiting: the handler is never called in vain and reads the last code again.
CodesInOrder == printed \o InHand \o queue = [k \in 1 .. typed |-> k]

\* A code whose edge was seen is printed, whatever else interrupts.
EveryCodePrinted ==
    \A n \in 1 .. MaxKeys :
        (/\ pc # "master" /\ kbd \in last_irr
         /\ \E k \in 1 .. Len(queue) : queue[k] = n)
        ~> \E k \in 1 .. Len(printed) : printed[k] = n

\* A request of another device is served or masked.
EveryRequestServed ==
    \A l \in Device : (pc = "run" /\ l \in irr) ~> (l \in isr \/ l \in imr)
=============================================================================
