----------------------------- MODULE Tty_proof -----------------------------
(***************************************************************************)
(* For every page of two columns and two rows or more: no mixture of the   *)
(* main program's text and the handlers' lines leaves the page.            *)
(*                                                                         *)
(* The argument: a handler that is entered with the position anywhere the  *)
(* main program leaves it has, by the third character of its line, the row *)
(* at max_y - 2 or above, so that after its newline it returns at the      *)
(* beginning of a row from 1 to max_y - 1.  That suits the main program    *)
(* wherever it was interrupted, provided the values it had loaded were     *)
(* bounded (MainLoaded).                                                   *)
(***************************************************************************)
EXTENDS Tty, TLAPS

\* What the main program has loaded, whoever runs.
MainLoaded ==
    /\ pc["main"] \in {"wrap_y", "n_y"} => t["main"] < max_y
    /\ pc["main"] = "scroll_y" => t["main"] \in 1 .. max_y
    /\ pc["main"] \in {"c_y", "store", "c_x"} => t["main"] < max_x
    /\ pc["main"] = "store" => ty["main"] < max_y

\* Where the position is while the main program runs.
AfterBottom == {"switch", "b", "b_load", "b_x", "r", "r_x", "n", "n_load", "n_y",
                "t", "t_x", "c", "c_y", "store", "c_load", "c_x"}

MainPlace ==
    /\ pos_y <= max_y
    /\ pos_y = max_y => pos_x < max_x
    /\ pc["main"] \in {"wrap_x", "wrap_load", "wrap_y"} \union AfterBottom => pos_y < max_y
    /\ pc["main"] \in {"bottom", "scroll", "scroll_y"} \union AfterBottom => pos_x < max_x
    /\ pc["main"] \in {"wrap_load", "wrap_y", "n_load", "n_y"} => pos_x = 0
    /\ pc["main"] = "scroll" => pos_y >= 1

\* The position between two characters of a handler's line, after k of them.
Between(k, x, y) ==
    /\ k = 0 => y <= max_y /\ (y = max_y => x < max_x)
    /\ k = 1 => y < max_y
    /\ k = 2 => y < max_y /\ (y = max_y - 1 => x < max_x)
    /\ k >= 3 => y <= max_y - 2

\* The position during the k-th character, before and after the row is tested.
Before(k, x, y) ==
    /\ x < max_x /\ y <= max_y
    /\ k = 2 => (y = max_y => x = 0)
    /\ k >= 3 => y < max_y

After(k, x, y) ==
    /\ x < max_x /\ y < max_y
    /\ k = 2 => (y = max_y - 1 => x = 0)
    /\ k >= 3 => y <= max_y - 2

\* Characters are counted when they begin; the newline and every further
\* character find the page as the third one left it.
Previous(k) == IF ch["intr"] = "nl" THEN 3 ELSE k - 1

HandlerPlace ==
    LET l == pc["intr"]
        k == printed
        x == pos_x
        y == pos_y
        v == t["intr"]
    IN /\ l \in {"idle", "wrap", "wrap_x", "wrap_load", "wrap_y", "bottom", "scroll", "scroll_y",
                 "switch", "n", "n_load", "n_y", "c", "c_y", "store", "c_load", "c_x", "done"}
       /\ l # "idle" => k >= 1
       /\ ch["intr"] \in {"c", "nl"} /\ (ch["intr"] = "nl" => k = 3)
       /\ l \in {"n", "n_load", "n_y"} => ch["intr"] = "nl"
       /\ l \in {"c", "c_y", "store", "c_load", "c_x"} => ch["intr"] = "c"
       /\ l \in {"idle", "done"} => IF ch["intr"] = "nl" THEN x = 0 /\ y \in 1 .. max_y - 1
                                                        ELSE Between(k, x, y)
       /\ l = "wrap" => Between(Previous(k), x, y)
       /\ l = "wrap_x" => y < max_y /\ (k >= 3 => y <= max_y - 2)
       /\ l = "wrap_load" => x = 0 /\ y < max_y /\ (k >= 3 => y <= max_y - 2)
       /\ l = "wrap_y" => x = 0 /\ v < max_y /\ (k >= 3 => v <= max_y - 2)
       /\ l = "bottom" => Before(k, x, y)
       /\ l = "scroll" => Before(k, x, y) /\ y >= max_y - 1
       /\ l = "scroll_y" => Before(k, x, v) /\ v >= max_y - 1
       /\ l \in {"switch", "n", "c", "c_y", "store", "c_load", "c_x"} => After(k, x, y)
       /\ l \in {"c_y", "store", "c_x"} => v = x
       /\ l = "store" => ty["intr"] = y
       /\ l = "n_load" => x = 0 /\ y <= max_y - 2
       /\ l = "n_y" => x = 0 /\ v <= max_y - 2

\* The inductive invariant.
Placed ==
    /\ TypeOK
    /\ MainLoaded
    /\ active = "main" => MainPlace /\ pc["intr"] = "idle" /\ printed = 0 /\ ch["intr"] = "c"
    /\ active = "intr" => HandlerPlace
    /\ RowsBounded
-----------------------------------------------------------------------------
\* What is below the divisor is its own remainder.
LEMMA ModuloSmall ==
    ASSUME NEW a \in Nat, NEW n \in Nat, a < n
    PROVE  a % n = a
OBVIOUS

\* A remainder is below the divisor.
LEMMA ModuloRange ==
    ASSUME NEW a \in Int, NEW n \in Nat \ {0}
    PROVE  a % n \in 0 .. n - 1
OBVIOUS

\* A row and a column within the page give a cell of it.
LEMMA CellInPage ==
    ASSUME NEW a \in Nat, NEW b \in Nat, a < max_x, b < max_y
    PROVE  a + b * max_x < max_x * max_y
<1>1. b + 1 <= max_y /\ max_x \in Nat /\ max_y \in Nat
  BY TtyAssumption
<1>2. (b + 1) * max_x <= max_y * max_x
  BY <1>1
<1>3. (b + 1) * max_x = b * max_x + max_x /\ max_y * max_x = max_x * max_y
  BY <1>1
<1> QED
  BY <1>1, <1>2, <1>3

\* A step of the main program in tty_write keeps the invariant.
LEMMA MainWrites ==
    ASSUME Placed, tty_write("main")
    PROVE  Placed'
<1> USE TtyAssumption DEF Prog, At, Go, Load, Branch, SetX, SetY, Fetch
<1>0. active = "main" /\ TypeOK /\ MainLoaded /\ MainPlace
      /\ pc["intr"] = "idle" /\ printed = 0 /\ ch["intr"] = "c"
  BY DEF Placed, tty_write, Wrap, Bottom, Switch, Backspace, CarriageReturn, Newline, Tab, Store
<1>a. t["main"] \in Nat /\ t["main"] < Modulus
  BY <1>0 DEF TypeOK
<1>z. Modulus \in Nat \ {0}
  OBVIOUS
<1>b. pc["main"] \in {"wrap_y", "n_y"} => (t["main"] + 1) % Modulus = t["main"] + 1
  BY <1>0, <1>a, ModuloSmall DEF MainLoaded
<1>c. pc["main"] = "scroll_y" => (t["main"] - 1) % Modulus = t["main"] - 1
  BY <1>0, <1>a, ModuloSmall DEF MainLoaded
<1>d. (t["main"] - 1) % Modulus \in 0 .. Modulus - 1
  <2>1. t["main"] - 1 \in Int
    BY <1>a
  <2> QED
    BY ONLY SMTT(30), <2>1, <1>z, ModuloRange
<1>e. ((t["main"] \div 8 + 1) * 8) % Modulus \in 0 .. Modulus - 1
  <2>1. (t["main"] \div 8 + 1) * 8 \in Int
    BY <1>a
  <2> QED
    BY ONLY Zenon, <2>1, <1>z, ModuloRange
<1>1. CASE Wrap("main")
  BY SMTT(30), <1>0, <1>a, <1>b, <1>1 DEF Wrap, Placed, TypeOK, MainLoaded, MainPlace, AfterBottom, RowsBounded, Label
<1>2. CASE Bottom("main")
  BY SMTT(30), <1>0, <1>a, <1>c, <1>2 DEF Bottom, Placed, TypeOK, MainLoaded, MainPlace, AfterBottom, RowsBounded, Label
<1>3. CASE Switch("main")
  BY SMTT(30), <1>0, <1>3 DEF Switch, Placed, TypeOK, MainLoaded, MainPlace, AfterBottom, RowsBounded, Label, Char
<1>4. CASE Backspace("main")
  BY SMTT(30), <1>0, <1>a, <1>d, <1>4 DEF Backspace, Placed, TypeOK, MainLoaded, MainPlace, AfterBottom, RowsBounded, Label
<1>5. CASE CarriageReturn("main")
  BY SMTT(30), <1>0, <1>5 DEF CarriageReturn, Placed, TypeOK, MainLoaded, MainPlace, AfterBottom, RowsBounded, Label
<1>6. CASE Newline("main")
  BY SMTT(30), <1>0, <1>a, <1>b, <1>6 DEF Newline, Placed, TypeOK, MainLoaded, MainPlace, AfterBottom, RowsBounded, Label
<1>7. CASE Tab("main")
  BY SMTT(30), <1>0, <1>a, <1>e, <1>7 DEF Tab, Placed, TypeOK, MainLoaded, MainPlace, AfterBottom, RowsBounded, Label
<1>8. CASE Store("main")
  BY SMTT(30), <1>0, <1>8, ModuloSmall DEF Store, Placed, TypeOK, MainLoaded, MainPlace, AfterBottom, RowsBounded, Label
<1> QED
  BY SMTT(30), <1>1, <1>2, <1>3, <1>4, <1>5, <1>6, <1>7, <1>8 DEF tty_write

\* So does a step of a handler in tty_write.
LEMMA HandlerWrites ==
    ASSUME Placed, tty_write("intr")
    PROVE  Placed'
<1> USE TtyAssumption DEF Prog, At, Go, Load, Branch, SetX, SetY, Fetch
<1>0. active = "intr" /\ TypeOK /\ MainLoaded /\ HandlerPlace /\ RowsBounded
  BY DEF Placed, tty_write, Wrap, Bottom, Switch, Backspace, CarriageReturn, Newline, Tab, Store
<1>a. t["intr"] \in Nat /\ t["intr"] < Modulus /\ printed \in 0 .. 3
      /\ pos_x \in Nat /\ pos_y \in Nat
  BY <1>0 DEF TypeOK, MinLine
<1>b. pc["intr"] \in {"wrap_y", "n_y", "c_x"} => (t["intr"] + 1) % Modulus = t["intr"] + 1
  BY SMTT(30), <1>0, <1>a, ModuloSmall DEF HandlerPlace, After
<1>c. pc["intr"] = "scroll_y" => (t["intr"] - 1) % Modulus = t["intr"] - 1
  BY <1>0, <1>a, ModuloSmall DEF HandlerPlace
<1>1. CASE Wrap("intr")
  BY SMTT(30), <1>0, <1>a, <1>b, <1>1 DEF Wrap, Placed, TypeOK, MainLoaded, HandlerPlace, Between, Before, After, Previous, RowsBounded, Label
<1>2. CASE Bottom("intr")
  BY SMTT(30), <1>0, <1>a, <1>c, <1>2 DEF Bottom, Placed, TypeOK, MainLoaded, HandlerPlace, Between, Before, After, Previous, RowsBounded, Label
<1>3. CASE Switch("intr")
  BY SMTT(30), <1>0, <1>a, <1>3 DEF Switch, Placed, TypeOK, MainLoaded, HandlerPlace, Between, Before, After, Previous, RowsBounded, Label
<1>4. CASE Newline("intr")
  BY SMTT(30), <1>0, <1>a, <1>b, <1>4 DEF Newline, Placed, TypeOK, MainLoaded, HandlerPlace, Between, Before, After, Previous, RowsBounded, Label
<1>5. CASE Store("intr")
  BY SMTT(30), <1>0, <1>a, <1>b, <1>5 DEF Store, Placed, TypeOK, MainLoaded, HandlerPlace, Between, Before, After, Previous, RowsBounded, Label
<1>6. CASE Backspace("intr") \/ CarriageReturn("intr") \/ Tab("intr")
  BY <1>0, <1>6 DEF HandlerPlace, Backspace, CarriageReturn, Tab
<1> QED
  BY <1>1, <1>2, <1>3, <1>4, <1>5, <1>6 DEF tty_write

\* A step of either program outside tty_write keeps it.
LEMMA Others ==
    ASSUME Placed,
           (\E c \in Char : Write(c)) \/ tty_ioctl \/ (\E p \in Prog : Written(p))
             \/ Interrupt \/ PrintLine
    PROVE  Placed'
<1> USE TtyAssumption DEF Prog, At, Go
<1>0. TypeOK /\ MainLoaded /\ printed \in 0 .. 3 /\ pos_x \in Nat /\ pos_y \in Nat
  BY SMTT(30) DEF Placed, TypeOK, MinLine
<1>1. ASSUME NEW c \in Char, Write(c)
      PROVE  Placed'
  BY SMTT(30), <1>0, <1>1 DEF Write, Placed, TypeOK, MainLoaded, MainPlace, AfterBottom, RowsBounded, Label
<1>2. CASE tty_ioctl
  BY SMTT(30), <1>0, <1>2 DEF tty_ioctl, Placed, TypeOK, MainLoaded, MainPlace, AfterBottom, RowsBounded
<1>3. CASE Written("main")
  BY SMTT(30), <1>0, <1>3 DEF Written, Placed, TypeOK, MainLoaded, MainPlace, AfterBottom, RowsBounded, Label
<1>4. CASE Written("intr")
  BY SMTT(30), <1>0, <1>4 DEF Written, Placed, TypeOK, MainLoaded, HandlerPlace, Between, Previous, RowsBounded, Label
<1>5. CASE Interrupt
  BY SMTT(30), <1>0, <1>5 DEF Interrupt, Placed, TypeOK, MainLoaded, MainPlace, HandlerPlace, Between, RowsBounded
<1>6. CASE PrintLine
  <2>0. active = "intr" /\ HandlerPlace /\ pc["intr"] = "idle"
    BY SMTT(30), <1>6 DEF PrintLine, Placed
  <2>1. CASE ch["intr"] = "nl" /\ active' = "main"
    <3>1. TypeOK' /\ MainLoaded' /\ RowsBounded'
      BY SMTT(30), <1>0, <1>6, <2>0, <2>1 DEF PrintLine, Placed, TypeOK, MainLoaded, RowsBounded, MinLine, Char
    <3>2. MainPlace' /\ pc'["intr"] = "idle" /\ printed' = 0 /\ ch'["intr"] = "c"
      BY SMTT(30), <1>0, <1>6, <2>0, <2>1 DEF PrintLine, TypeOK, MainPlace, HandlerPlace, AfterBottom, MinLine
    <3> QED BY Zenon, <2>1, <3>1, <3>2 DEF Placed
  <2>2. CASE ch["intr"] = "c" /\ UNCHANGED active
    <3>1. TypeOK' /\ MainLoaded' /\ RowsBounded'
      BY SMTT(30), <1>0, <1>6, <2>0, <2>2 DEF PrintLine, Placed, TypeOK, MainLoaded, RowsBounded, MinLine, Char, Label
    <3>2. HandlerPlace'
      BY SMTT(30), <1>0, <1>6, <2>0, <2>2 DEF PrintLine, TypeOK, HandlerPlace, Between, Previous, MinLine, Char
    <3> QED BY Zenon, <2>0, <2>2, <3>1, <3>2 DEF Placed
  <2> QED
    BY SMTT(30), <1>6, <2>0, <2>1, <2>2 DEF PrintLine, HandlerPlace, MinLine
<1> QED
  BY SMTT(30), <1>1, <1>2, <1>3, <1>4, <1>5, <1>6

\* Whatever the size of the page, of two columns and two rows at least, and
\* wherever tty_write is interrupted by handlers that print their lines with it,
\* a character is stored in a cell of its page.
THEOREM ScreenSafe == Spec => [](StoresInPage /\ RowsBounded)
<1>1. Init => Placed
  BY TtyAssumption DEF Init, Placed, TypeOK, MainLoaded, MainPlace, AfterBottom, RowsBounded, Prog, Char, Label, MinLine
<1>2. Placed /\ [Next]_vars => Placed'
  <2> SUFFICES ASSUME Placed, [Next]_vars
               PROVE  Placed'
    OBVIOUS
  <2>1. CASE Next
    BY SMTT(30), <2>1, MainWrites, HandlerWrites, Others DEF Next, Prog
  <2>2. CASE UNCHANGED vars
    BY <2>2 DEF vars, Placed, TypeOK, MainLoaded, MainPlace, HandlerPlace, Between, Before, After, Previous, RowsBounded
  <2> QED
    BY <2>1, <2>2
<1>3. Placed => StoresInPage /\ RowsBounded
  <2> SUFFICES ASSUME Placed
               PROVE  StoresInPage
    BY DEF Placed
  <2>1. \A p \in Prog : t[p] \in Nat /\ ty[p] \in Nat
    BY TtyAssumption DEF Placed, TypeOK
  <2>2. pc["main"] = "store" => t["main"] < max_x /\ ty["main"] < max_y
    BY SMTT(30) DEF Placed, MainLoaded
  <2>3. pc["intr"] = "store" => t["intr"] < max_x /\ ty["intr"] < max_y
    BY DEF Placed, HandlerPlace, After, TypeOK, Prog
  <2> QED
    BY <2>1, <2>2, <2>3, CellInPage DEF StoresInPage, Prog
<1> QED
  BY <1>1, <1>2, <1>3, PTL DEF Spec
=============================================================================
