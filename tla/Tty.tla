-------------------------------- MODULE Tty --------------------------------
(***************************************************************************)
(* The screen of kernel/arch/i386/cpu/tty.c as written by two programs: the *)
(* main program, and the interrupt handlers, which print a line each        *)
(* (tty_intr the scan code, MSG a message).                                *)
(*                                                                         *)
(* Both call tty_write on the same page, whose position is not protected.  *)
(* A handler runs with interrupts off, so it is not interrupted; it may    *)
(* come between any two accesses of the main program to pos_x and pos_y.   *)
(* The kernel is compiled without optimisation: an increment is a load and *)
(* a store.  What is on the screen is left out, except which cell a        *)
(* character goes to.                                                      *)
(***************************************************************************)
EXTENDS Integers

CONSTANTS
    max_x, max_y,   \* size of a page
    Width           \* unsigned has Width bits

Modulus == 2^Width

ASSUME TtyAssumption ==
    /\ max_x \in Nat \ {0, 1} /\ max_y \in Nat \ {0, 1}
    /\ Width \in Nat /\ Modulus \in Nat /\ max_x + 9 < Modulus /\ max_y + 1 < Modulus

VARIABLES
    pos_x, pos_y,   \* of tty_disp[0]
    active,         \* who is running: a handler runs until it is done
    pc,             \* per program: what tty_write does next
    ch,             \* per program: *buf
    t, ty,          \* per program: the value of pos_x or pos_y just loaded,
                    \* and of pos_y when a character is stored
    printed         \* characters of the handler's line so far, up to MinLine

vars == <<pos_x, pos_y, active, pc, ch, t, ty, printed>>

\* The shortest line of a handler, "<%x>", has at least three characters and a
\* newline.
MinLine == 3

Prog == {"main", "intr"}
Char == {"bs", "cr", "nl", "tab", "c"}

Init ==
    /\ pos_x = 0 /\ pos_y = 0
    /\ active = "main"
    /\ pc = [p \in Prog |-> "idle"]
    /\ ch = [p \in Prog |-> "c"]
    /\ t = [p \in Prog |-> 0] /\ ty = [p \in Prog |-> 0]
    /\ printed = 0
-----------------------------------------------------------------------------
At(p, l) == active = p /\ pc[p] = l
Go(p, l) == pc' = [pc EXCEPT ![p] = l]
Load(p, v) == t' = [t EXCEPT ![p] = v]

\* Steps that only choose what is next.
Branch(p, l, cond, yes, no) ==
    /\ At(p, l)
    /\ Go(p, IF cond THEN yes ELSE no)
    /\ UNCHANGED <<pos_x, pos_y, active, ch, t, ty, printed>>

SetX(p, l, v, next) ==
    /\ At(p, l) /\ pos_x' = v /\ Go(p, next)
    /\ UNCHANGED <<pos_y, active, ch, t, ty, printed>>

SetY(p, l, v, next) ==
    /\ At(p, l) /\ pos_y' = v /\ Go(p, next)
    /\ UNCHANGED <<pos_x, active, ch, t, ty, printed>>

Fetch(p, l, v, next) ==
    /\ At(p, l) /\ Load(p, v) /\ Go(p, next)
    /\ UNCHANGED <<pos_x, pos_y, active, ch, ty, printed>>
-----------------------------------------------------------------------------
(* tty_write, one character.                                               *)

\* The line is full: the beginning of the next one.
Wrap(p) ==
    \/ Branch(p, "wrap", pos_x >= max_x, "wrap_x", "bottom")
    \/ SetX(p, "wrap_x", 0, "wrap_load")
    \/ Fetch(p, "wrap_load", pos_y, "wrap_y")
    \/ SetY(p, "wrap_y", (t[p] + 1) % Modulus, "bottom")

\* Mutant: the last line is used before the page scrolls.
Bottom_Last(p) ==
    \/ Branch(p, "bottom", pos_y >= max_y, "scroll", "switch")
    \/ Fetch(p, "scroll", pos_y, "scroll_y")
    \/ SetY(p, "scroll_y", (t[p] - 1) % Modulus, "switch")

\* The last line but one is left: the page scrolls.
Bottom(p) ==
    \/ Branch(p, "bottom", pos_y >= max_y - 1, "scroll", "switch")
    \/ Fetch(p, "scroll", pos_y, "scroll_y")
    \/ SetY(p, "scroll_y", (t[p] - 1) % Modulus, "switch")

Switch(p) ==
    /\ At(p, "switch")
    /\ Go(p, CASE ch[p] = "bs" -> "b" [] ch[p] = "cr" -> "r" [] ch[p] = "nl" -> "n"
               [] ch[p] = "tab" -> "t" [] ch[p] = "c" -> "c")
    /\ UNCHANGED <<pos_x, pos_y, active, ch, t, ty, printed>>

Backspace(p) ==
    \/ Branch(p, "b", pos_x > 0, "b_load", "done")
    \/ Fetch(p, "b_load", pos_x, "b_x")
    \/ SetX(p, "b_x", (t[p] - 1) % Modulus, "done")

CarriageReturn(p) ==
    \/ Branch(p, "r", pos_x > 0, "r_x", "done")
    \/ SetX(p, "r_x", 0, "done")

Newline(p) ==
    \/ SetX(p, "n", 0, "n_load")
    \/ Fetch(p, "n_load", pos_y, "n_y")
    \/ SetY(p, "n_y", (t[p] + 1) % Modulus, "done")

Tab(p) ==
    \/ Fetch(p, "t", pos_x, "t_x")
    \/ SetX(p, "t_x", ((t[p] \div 8 + 1) * 8) % Modulus, "done")

Store(p) ==
    \/ Fetch(p, "c", pos_x, "c_y")
    \/ /\ At(p, "c_y")
       /\ ty' = [ty EXCEPT ![p] = pos_y]
       /\ Go(p, "store")
       /\ UNCHANGED <<pos_x, pos_y, active, ch, t, printed>>
    \/ Branch(p, "store", TRUE, "c_load", "c_load")
    \/ Fetch(p, "c_load", pos_x, "c_x")
    \/ SetX(p, "c_x", (t[p] + 1) % Modulus, "done")

tty_write(p) ==
    Wrap(p) \/ Bottom(p) \/ Switch(p) \/ Backspace(p) \/ CarriageReturn(p)
    \/ Newline(p) \/ Tab(p) \/ Store(p)
-----------------------------------------------------------------------------
(* The two programs.                                                       *)

\* The main program writes the next character.
Write(c) ==
    /\ At("main", "idle")
    /\ ch' = [ch EXCEPT !["main"] = c]
    /\ Go("main", "wrap")
    /\ UNCHANGED <<pos_x, pos_y, active, t, ty, printed>>

\* kprintf sets a column or a row that is on the page.
tty_ioctl ==
    /\ At("main", "idle")
    /\ \/ \E x \in 0 .. max_x - 1 : pos_x' = x /\ UNCHANGED pos_y
       \/ \E y \in 0 .. max_y - 1 : pos_y' = y /\ UNCHANGED pos_x
    /\ UNCHANGED <<active, pc, ch, t, ty, printed>>

Written(p) ==
    /\ At(p, "done")
    /\ Go(p, "idle")
    /\ t' = [t EXCEPT ![p] = 0] /\ ty' = [ty EXCEPT ![p] = 0]
    /\ UNCHANGED <<pos_x, pos_y, active, ch, printed>>

\* An interrupt comes; its handler prints.
Interrupt ==
    /\ active = "main"
    /\ active' = "intr"
    /\ UNCHANGED <<pos_x, pos_y, pc, ch, t, ty, printed>>

\* The handler prints the characters of its line, then a newline, and returns.
PrintLine ==
    /\ At("intr", "idle")
    /\ \/ /\ printed < MinLine \/ ch["intr"] = "c"
          /\ \/ ch' = [ch EXCEPT !["intr"] = "c"]
                /\ printed' = IF printed < MinLine THEN printed + 1 ELSE printed
             \/ ch' = [ch EXCEPT !["intr"] = "nl"]
                /\ printed = MinLine /\ UNCHANGED printed
          /\ Go("intr", "wrap")
          /\ UNCHANGED active
       \/ /\ ch["intr"] = "nl"
          /\ active' = "main" /\ printed' = 0
          /\ ch' = [ch EXCEPT !["intr"] = "c"]
          /\ UNCHANGED pc
    /\ UNCHANGED <<pos_x, pos_y, t, ty>>

Next ==
    \/ \E c \in Char : Write(c)
    \/ tty_ioctl
    \/ \E p \in Prog : tty_write(p) \/ Written(p)
    \/ Interrupt
    \/ PrintLine

Spec == Init /\ [][Next]_vars
-----------------------------------------------------------------------------
(* Properties.                                                             *)

Label == {"idle", "wrap", "wrap_x", "wrap_load", "wrap_y", "bottom", "scroll",
          "scroll_y", "switch", "b", "b_load", "b_x", "r", "r_x", "n", "n_load",
          "n_y", "t", "t_x", "c", "c_y", "store", "c_load", "c_x", "done"}

\* Every variable has its type.
TypeOK ==
    /\ pos_x \in 0 .. Modulus - 1 /\ pos_y \in 0 .. Modulus - 1
    /\ active \in Prog
    /\ pc \in [Prog -> Label]
    /\ ch \in [Prog -> Char]
    /\ printed \in 0 .. MinLine
    /\ t \in [Prog -> 0 .. Modulus - 1] /\ ty \in [Prog -> 0 .. Modulus - 1]

\* However the lines of handlers and the text of the main program mix, a
\* character is stored in a cell of its page and never in another page.
StoresInPage ==
    \A p \in Prog : pc[p] = "store" => t[p] + ty[p] * max_x < max_x * max_y

\* The position is at most one line below the page, so that one scroll brings
\* it back.
RowsBounded == pos_y <= max_y
=============================================================================
