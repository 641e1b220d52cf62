----------------------------- MODULE Hda_proof -----------------------------
(***************************************************************************)
(* For every geometry, every size of a sector and every sequence of calls: *)
(* wherever the interrupts fall, reads return their sectors and writes     *)
(* store theirs, and calls stay inside the partition they are made on.     *)
(*                                                                         *)
(* The argument.  hda_intr touches the device only for an IDENTIFY command,*)
(* and cmd says so only during the first call of hda_init (Control); so a  *)
(* transfer is between the driver and the device alone, and the number of  *)
(* sectors the device has left tells how far both of them are (Reading,    *)
(* Writing).  Partitions is what hda_init has entered: where a partition   *)
(* should begin at the very end of the disk the read fails, the last       *)
(* superblock is found a second time, and Held says that the entry made of *)
(* it refuses every seek.                                                  *)
(***************************************************************************)
EXTENDS Hda, TLAPS

Datum == Int \X Int
Block == [Word -> Datum]
Image == [n \in Sector |-> [w \in Word |-> <<n, w>>]]
Geometry == <<Cyls, Heads, Sectors>>

Registers == [drq : BOOLEAN, nsector : Int, sector : Int, ptr : Word, io : Block,
              what : {"stop", "identify", "read", "write"}]

Places == {"arm", "command", "send", "wait", "status", "data", "done", "scan", "idle"}

Types ==
    /\ Address(chs) \in Int
    /\ rready \in BOOLEAN /\ cmd \in {NoCmd, "identify", "read", "write"}
    /\ cnt \in Nat /\ i \in Nat
    /\ op # "identify" => buf \in [0 .. cnt * Words - 1 -> Datum]
    /\ pc \in Places /\ op \in {"identify", "read", "write"}
    /\ dev \in Registers
    /\ disk \in [Sector -> Block] /\ old \in [Sector -> Block]
    /\ fsize \in [Sector -> Nat]

\* Where a call is, and what that says of the interrupt and the geometry.
Control ==
    /\ op = "identify" =>
         /\ pc \in {"arm", "command", "send", "wait", "scan", "idle"}
         /\ cmd \in {NoCmd, "identify"}
         /\ pc \in {"arm", "command"} => cmd = NoCmd /\ ~rready
         /\ rready => cmd = NoCmd /\ geom = Geometry
         /\ pc \in {"scan", "idle"} => rready
    /\ op # "identify" => cmd # "identify" /\ geom = Geometry /\ cnt > 0
    /\ op = "write" => pc \notin {"arm", "wait"}
    /\ pc = "data" => dev.drq /\ i < cnt * Words
    /\ pc = "done" => ~dev.drq

\* The registers are written.
Ready ==
    op # "identify" /\ pc \in {"arm", "command", "send"} =>
        dev.nsector = cnt /\ dev.sector = Address(chs) /\ i = 0 /\ disk = old

\* The first q sectors of a read are in the buffer, and p words of the next.
Filled(q, p) ==
    /\ \A j \in 0 .. q - 1, w \in Word :
         Address(chs) + j \in Sector => buf[j * Words + w] = disk[Address(chs) + j][w]
    /\ Address(chs) + q \in Sector =>
         \A w \in 0 .. p - 1 : buf[q * Words + w] = disk[Address(chs) + q][w]

Reading ==
    op = "read" /\ pc \in {"wait", "status", "data", "done"} =>
        LET q == cnt - 1 - dev.nsector
        IN /\ disk = old
           /\ dev.drq => /\ q \in 0 .. cnt - 1
                         /\ i = q * Words + dev.ptr /\ dev.sector = Address(chs) + q + 1
                         /\ Address(chs) + q \in Sector => dev.io = disk[Address(chs) + q]
                         /\ Filled(q, dev.ptr)
           /\ ~dev.drq => Filled(cnt, 0) /\ i > 0

\* The first q sectors of a write are on the disk.
Stored(q) ==
    \A n \in Sector :
        disk[n] = IF n - Address(chs) \in 0 .. q - 1
                    THEN [w \in Word |-> buf[(n - Address(chs)) * Words + w]]
                    ELSE old[n]

Writing ==
    op = "write" /\ pc \in {"status", "data", "done"} =>
        LET q == cnt - dev.nsector
        IN /\ Stored(q)
           /\ dev.drq => /\ q \in 0 .. cnt - 1
                         /\ i = q * Words + dev.ptr /\ dev.sector = Address(chs) + q
                         /\ \A w \in 0 .. dev.ptr - 1 : dev.io[w] = buf[q * Words + w]
           /\ ~dev.drq => q = cnt

\* hda_init has not had the device's answer yet.
Asking == op = "identify" /\ pc \in {"arm", "command", "send", "wait"}

Partitions ==
    /\ pi \in 0 .. NVFSMNTS
    /\ part \in [0 .. NVFSMNTS -> [begin : Nat, end : Nat]]
    /\ Asking => pi = 0 /\ part[0].begin = 0
    /\ ~Asking => part[pi].begin >= 2
    /\ part[pi].end = 0
    /\ \A j \in 0 .. NVFSMNTS :
         /\ j > pi => part[j].begin = 0 /\ part[j].end = 0
         /\ j < pi => /\ part[j].begin >= 2
                      /\ \/ part[j].begin < DiskSize /\ fsize[part[j].begin - 1] = part[j].end
                         \/ part[j].begin = DiskSize /\ part[j].end < DiskSize
    /\ pi > 0 => part[pi].begin = part[pi - 1].end + 1

\* What a word of a superblock's sector v tells: the last partition again.
Held(v) ==
    IF pi = 0 THEN v[1] \notin Sector
              ELSE v[1] \in Sector /\ fsize[v[1]] = part[pi - 1].end

\* ... or the one that is looked for.
Found(v) == IF Address(chs) \in Sector THEN v[1] = Address(chs) ELSE Held(v)

\* hda_init reads the image as it was made.
Searching ==
    /\ Asking \/ pc = "scan" => disk = Image /\ Held(dev.io[0])
    /\ ret = "detect" /\ pc # "idle" /\ pc # "scan" /\ op # "identify" =>
         /\ op = "read" /\ cnt = 1 /\ disk = Image /\ pi < NVFSMNTS
         /\ part[pi].begin <= DiskSize
         /\ Address(chs) = IF part[pi].begin = DiskSize THEN -1 ELSE part[pi].begin - 1
         /\ pc \in {"arm", "command", "send"} => Held(dev.io[0])
         /\ pc \notin {"arm", "command", "send"} =>
              Found(dev.io[0]) /\ (i > 0 => Found(buf[0]))

Transfer == Types /\ Control /\ Ready /\ Reading /\ Writing

IInv == Transfer /\ Partitions /\ Searching

USE DEF NoCmd
-----------------------------------------------------------------------------
(* Arithmetic.                                                             *)

\* The disk and its sectors are not empty.
LEMMA Sizes ==
    /\ Cyls \in Nat \ {0} /\ Heads \in Nat \ {0} /\ Sectors \in Nat \ {0}
    /\ Words \in Nat \ {0} /\ NVFSMNTS \in Nat \ {0}
    /\ 0 \in Word /\ \A w \in Word : w \in Nat /\ w < Words
    /\ DiskSize \in Nat \ {0}
    /\ \A n \in Sector : n \in Nat
<1>1. /\ Cyls \in Nat \ {0} /\ Heads \in Nat \ {0} /\ Sectors \in Nat \ {0}
      /\ Words \in Nat \ {0} /\ NVFSMNTS \in Nat \ {0}
  BY Zenon, HdaAssumption
<1>2. \A a, b \in Nat \ {0} : a * b \in Nat \ {0}
  OBVIOUS
<1>3. Cyls * Heads \in Nat \ {0}
  BY Zenon, <1>1, <1>2
<1>4. DiskSize \in Nat \ {0}
  BY Zenon, <1>1, <1>2, <1>3 DEF DiskSize
<1> QED BY <1>1, <1>4 DEF Word, Sector

\* A word of an earlier sector has a smaller index.
LEMMA EarlierSector ==
    ASSUME NEW j \in Nat, NEW q \in Nat, j < q, NEW w \in Word
    PROVE  j * Words + w \in Nat /\ j * Words + w < q * Words
<1>1. Words \in Nat /\ w \in Nat /\ w < Words
  BY Zenon, Sizes
<1>2. PICK d \in Nat : q = j + 1 + d
  <2> WITNESS q - j - 1 \in Nat
  <2> QED OBVIOUS
<1>3. q * Words = j * Words + Words + d * Words
  BY <1>1, <1>2
<1>4. d * Words \in Nat /\ j * Words \in Nat
  BY <1>1
<1> QED BY <1>1, <1>3, <1>4

\* Division with remainder.
LEMMA DivMod ==
    ASSUME NEW a \in Nat, NEW b \in Nat \ {0}
    PROVE  /\ a \div b \in Nat /\ a % b \in 0 .. b - 1
           /\ a = b * (a \div b) + (a % b)
           /\ \A c \in Nat \ {0} : a < c * b => a \div b < c
           /\ a < b => a % b = a
           /\ b % b = 0
OBVIOUS

\* The offset hda_lseek is given is found again in the address that the device
\* computes, one sector earlier.
LEMMA AddressOfSeek ==
    ASSUME NEW off \in Nat, geom = Geometry
    PROVE  /\ off < DiskSize => Address(Seek(off)) = off - 1
           /\ off = DiskSize => Address(Seek(off)) = -1
           /\ Address(Seek(off)) \in Int
<1> DEFINE d == off \div Sectors
           r == off % Sectors
           c == d \div Heads
           h == d % Heads
           e == c % Cyls
<1>1. d \in Nat /\ off = Sectors * d + r /\ r \in Nat
  BY Sizes, DivMod
<1>2. Cyls * Heads \in Nat \ {0}
  BY Sizes
<1>3. off < DiskSize => d < Cyls * Heads
  BY Zenon, <1>2, Sizes, DivMod DEF DiskSize
<1>4. off = DiskSize => d = Cyls * Heads /\ r = 0
  BY <1>2, Sizes DEF DiskSize
<1>5. Address(Seek(off)) = ((e * Heads + h) * Sectors + r) - 1
  BY Sizes DEF Address, Seek, Geometry
<1> HIDE DEF d, r, e
<1>6. c \in Nat /\ h \in Nat /\ d = Heads * c + h
  BY <1>1, Sizes, DivMod
<1>7. off < DiskSize => c < Cyls
  BY Zenon, <1>1, <1>3, Sizes, DivMod
<1>8. off = DiskSize => c = Cyls /\ h = 0
  BY <1>4, Sizes
<1> HIDE DEF c, h
<1>9. e \in Nat /\ (c < Cyls => e = c) /\ (c = Cyls => e = 0)
  BY SMTT(30), <1>6, Sizes, DivMod DEF e
<1>10. ASSUME off < DiskSize PROVE Address(Seek(off)) = off - 1
  <2>1. e = c
    BY Zenon, <1>7, <1>9, <1>10
  <2>2. e * Heads + h = d
    BY <2>1, <1>6, Sizes
  <2>3. d * Sectors + r = off
    BY <1>1, Sizes
  <2> QED BY ONLY Zenon, <1>5, <2>2, <2>3
<1>11. ASSUME off = DiskSize PROVE Address(Seek(off)) = -1
  <2>1. e = 0 /\ h = 0 /\ r = 0
    BY Zenon, <1>4, <1>8, <1>9, <1>11
  <2>2. ((0 * Heads + 0) * Sectors + 0) - 1 = -1
    BY Sizes
  <2> QED BY Zenon, <1>5, <1>11, <2>1, <2>2
<1>12. Address(Seek(off)) \in Int
  <2>1. ((e * Heads + h) * Sectors + r) - 1 \in Int
    BY SMTT(30), <1>1, <1>6, <1>9, Sizes
  <2> QED BY Zenon, <1>5, <2>1
<1> QED BY Zenon, <1>10, <1>11, <1>12
-----------------------------------------------------------------------------
(* What one word of a transfer does.                                       *)

\* hda_read has put a word where it belongs.
LEMMA FillWord ==
    ASSUME NEW q \in Nat, NEW p \in Word, NEW x,
           Types, op = "read", i = q * Words + p, i < cnt * Words, Filled(q, p),
           buf' = [buf EXCEPT ![i] = x], UNCHANGED <<chs, disk>>,
           Address(chs) + q \in Sector => x = disk[Address(chs) + q][p]
    PROVE  Filled(q, p + 1)'
<1> DEFINE a == Address(chs)
<1>1. a \in Int /\ Address(chs)' = a /\ disk' = disk /\ i \in Nat
      /\ buf \in [0 .. cnt * Words - 1 -> Datum] /\ cnt * Words \in Nat
  BY SMTT(30), Sizes DEF Types, Address
<1>2. \A k \in Nat : k < i => buf'[k] = buf[k]
  BY SMTT(30), <1>1
<1>3. buf'[i] = x
  BY SMTT(30), <1>1
<1>4. q * Words \in Nat /\ p \in Nat /\ Words \in Nat
  BY Sizes
<1> HIDE DEF a
<1>5. ASSUME NEW j \in 0 .. q - 1, NEW w \in Word, a + j \in Sector
      PROVE  buf'[j * Words + w] = disk[a + j][w]
  <2>1. j * Words + w \in Nat /\ j * Words + w < q * Words
    BY EarlierSector
  <2>2. buf'[j * Words + w] = buf[j * Words + w]
    BY <1>2, <1>4, <2>1
  <2> QED BY Zenon, <1>5, <2>2 DEF Filled, a
<1>6. ASSUME NEW w \in 0 .. p, a + q \in Sector
      PROVE  buf'[q * Words + w] = disk[a + q][w]
  <2>1. CASE w = p
    BY Zenon, <1>3, <1>6, <2>1 DEF a
  <2>2. CASE w < p
    <3>1. q * Words + w \in Nat /\ q * Words + w < i /\ w \in 0 .. p - 1
      BY <1>4, <2>2
    <3>2. buf'[q * Words + w] = buf[q * Words + w]
      BY Zenon, <1>2, <3>1
    <3> QED BY Zenon, <1>6, <3>1, <3>2 DEF Filled, a
  <2>3. w = p \/ w < p
    BY ONLY <1>4, w \in 0 .. p
  <2> QED BY ONLY Zenon, <2>1, <2>2, <2>3
<1>7. (p + 1) - 1 = p
  BY SMTT(30), <1>4
<1> QED BY SMTT(30), <1>1, <1>5, <1>6, <1>7 DEF Filled, a

\* After its last word a sector is full.
LEMMA FullSector ==
    ASSUME NEW q \in Nat, Filled(q, Words)'
    PROVE  Filled(q + 1, 0)'
<1>1. ASSUME NEW j \in 0 .. (q + 1) - 1, NEW w \in Word, Address(chs') + j \in Sector
      PROVE  buf'[j * Words + w] = disk'[Address(chs') + j][w]
  <2>1. j \in 0 .. q - 1 \/ j = q
    OBVIOUS
  <2>2. w \in 0 .. Words - 1
    BY Zenon DEF Word
  <2> QED BY Zenon, <1>1, <2>1, <2>2 DEF Filled, Address
<1> QED BY <1>1 DEF Filled, Address

\* The device goes on to the next sector, or stops.
LEMMA LoadSector ==
    ASSUME Types, dev' = ide_sector_read(dev)
    PROVE  /\ dev' \in Registers
           /\ dev.nsector = 0 => dev'.drq = FALSE /\ dev'.io = dev.io
           /\ dev.nsector # 0 =>
                /\ dev'.drq = TRUE /\ dev'.ptr = 0 /\ dev'.nsector = dev.nsector - 1
                /\ dev'.sector = dev.sector + 1
                /\ dev'.io = IF dev.sector \in Sector THEN disk[dev.sector] ELSE dev.io
<1>1. dev \in Registers /\ 0 \in Word
  BY Zenon, Sizes DEF Types
<1>2. PICK x \in Block : x = IF dev.sector \in Sector THEN disk[dev.sector] ELSE dev.io
  BY Zenon, <1>1 DEF Types, Registers
<1>3. x = Content(dev.sector)
  BY Zenon, <1>2 DEF Content
<1>4. CASE dev.nsector = 0
  <2>1. dev' = [dev EXCEPT !.drq = FALSE, !.what = "stop", !.ptr = 0]
    BY Zenon, <1>4 DEF ide_sector_read
  <2> QED BY ONLY Zenon, <1>1, <1>4, <2>1 DEF Registers
<1>5. CASE dev.nsector # 0
  <2>1. dev' = [dev EXCEPT !.drq = TRUE, !.what = "read", !.ptr = 0, !.io = x,
                           !.sector = @ + 1, !.nsector = @ - 1]
    BY Zenon, <1>3, <1>5 DEF ide_sector_read
  <2>2. PICK s \in Int, n \in Int : s = dev.sector + 1 /\ n = dev.nsector - 1
    BY <1>1 DEF Registers
  <2>3. dev' = [dev EXCEPT !.drq = TRUE, !.what = "read", !.ptr = 0, !.io = x,
                           !.sector = s, !.nsector = n]
    BY Zenon, <2>1, <2>2
  <2>4. /\ dev' \in Registers /\ dev'.drq = TRUE /\ dev'.ptr = 0 /\ dev'.io = x
        /\ dev'.nsector = n /\ dev'.sector = s
    BY ONLY Zenon, <1>1, <2>2, <2>3 DEF Registers
  <2> QED BY Zenon, <1>2, <1>5, <2>2, <2>4
<1> QED BY Zenon, <1>4, <1>5
-----------------------------------------------------------------------------
(* Each step keeps Transfer.                                               *)

\* hda_init before its first command.
LEMMA InitTransfer == Init => Transfer
<1> SUFFICES ASSUME Init PROVE Transfer
  BY Zenon
<1>1. Address(chs) \in Int
  <2>1. chs[1] = 0 /\ chs[2] = 0 /\ chs[3] = 0
    BY Zenon DEF Init
  <2> QED BY <2>1, Sizes DEF Address
<1>2. Blank \in Block /\ disk \in [Sector -> Block] /\ old \in [Sector -> Block]
  BY Sizes DEF Init, Blank, Block, Datum
<1>3. fsize \in [Sector -> Nat]
  BY Zenon, HdaAssumption DEF Init
<1>4. dev \in Registers
  BY <1>2, Sizes DEF Init, Registers
<1>5. Types
  BY Zenon, <1>1, <1>2, <1>3, <1>4 DEF Init, Types, Places
<1>6. Control
  BY Zenon DEF Init, Control
<1>7. Ready /\ Reading /\ Writing
  BY Zenon DEF Init, Ready, Reading, Writing
<1> QED BY Zenon, <1>5, <1>6, <1>7 DEF Transfer

\* hda_lseek and the writing of the registers, for a request or in hda_init.
LEMMA BeginTransfer ==
    ASSUME Transfer, part \in [0 .. NVFSMNTS -> [begin : Nat, end : Nat]],
           pc \in {"idle", "scan"},
           NEW kind \in {"read", "write"}, NEW m \in Nat, NEW o \in Nat, NEW n \in Nat \ {0},
           NEW to, Begin(kind, m, o, n, to), UNCHANGED fsize
    PROVE  Transfer' /\ (SeekOK(m, o) => /\ geom = Geometry /\ Offset(m, o) \in Nat
                                         /\ dev'.sector = Address(Seek(Offset(m, o))))
<1> USE DEF Transfer
<1>1. geom = Geometry /\ cmd # "identify"
  BY Zenon DEF Control
<1>2. SeekOK(m, o) => Offset(m, o) \in Nat
  <2> SUFFICES ASSUME SeekOK(m, o), m > 0 PROVE o + part[m - 1].begin \in Nat
    BY Zenon DEF Offset
  <2>1. m <= NVFSMNTS
    BY Zenon DEF SeekOK
  <2>2. m - 1 \in 0 .. NVFSMNTS
    BY SMTT(30), <2>1, Sizes
  <2>3. part[m - 1].begin \in Nat
    BY SMTT(30), <2>2
  <2> QED BY SMTT(30), <2>3
<1>3. chs' = IF SeekOK(m, o) THEN Seek(Offset(m, o)) ELSE chs
  BY Zenon DEF Begin, hda_lseek
<1>4. Address(chs') \in Int /\ Address(chs)' = Address(chs')
  BY Zenon, <1>1, <1>2, <1>3, AddressOfSeek DEF Types, Address
<1>5. /\ op' = kind /\ cnt' = n /\ i' = 0 /\ buf' = Buffer(kind, n)
      /\ dev' = [dev EXCEPT !.nsector = n, !.sector = Address(chs')]
      /\ pc' = (IF kind = "read" THEN "arm" ELSE "command")
      /\ old' = disk /\ UNCHANGED <<geom, rready, cmd, disk>>
  BY Zenon DEF Begin
<1>6. Buffer(kind, n) \in [0 .. n * Words - 1 -> Datum]
  <2> DEFINE from == IF kind = "write" THEN -1 ELSE -2
  <2>1. from \in Int /\ n * Words \in Nat
    BY Sizes
  <2> HIDE DEF from
  <2>2. \A k \in 0 .. n * Words - 1 : <<from, k>> \in Datum
    BY SMTT(30), <2>1 DEF Datum
  <2>3. Buffer(kind, n) = [k \in 0 .. n * Words - 1 |-> <<from, k>>]
    BY Zenon DEF Buffer, from
  <2> QED BY Zenon, <2>2, <2>3
<1>7. Types'
  <2>1. dev' \in Registers
    <3>1. PICK x \in Int : x = Address(chs')
      BY Zenon, <1>4
    <3>2. dev \in Registers /\ dev' = [dev EXCEPT !.nsector = n, !.sector = x] /\ n \in Int
      BY <1>5, <3>1 DEF Types
    <3> QED BY ONLY Zenon, <3>2 DEF Registers
  <2> QED BY Zenon, <1>4, <1>5, <1>6, <2>1 DEF Types, Places
<1>8. Control'
  BY <1>1, <1>5 DEF Control
<1>9. dev'.nsector = n /\ dev'.sector = Address(chs')
  BY Zenon, <1>5 DEF Types, Registers
<1>10. Ready' /\ Reading' /\ Writing'
  BY Zenon, <1>4, <1>5, <1>9 DEF Ready, Reading, Writing
<1> QED BY Zenon, <1>1, <1>2, <1>3, <1>7, <1>8, <1>9, <1>10

\* Arm and SetCmd: the device does not see them.
LEMMA ArmTransfer == Transfer /\ (Arm \/ SetCmd) /\ UNCHANGED fsize => Transfer'
<1> SUFFICES ASSUME Transfer, Arm \/ SetCmd, UNCHANGED fsize PROVE Transfer'
  BY Zenon
<1> USE DEF Transfer
<1>1. /\ UNCHANGED <<geom, chs, cnt, buf, op, i, dev, disk, old, fsize>>
      /\ \/ pc = "arm" /\ pc' = "command" /\ rready' = FALSE /\ cmd' = cmd
         \/ pc = "command" /\ pc' = "send" /\ rready' = rready /\ cmd' = op
  BY Zenon DEF Arm, SetCmd
<1>2. Address(chs)' = Address(chs)
  BY Zenon, <1>1 DEF Address
<1>3. Types'
  BY Zenon, <1>1, <1>2 DEF Types, Places
<1>4. Control'
  BY <1>1 DEF Types, Control
<1>5. Ready' /\ Reading' /\ Writing'
  BY Zenon, <1>1, <1>2 DEF Types, Control, Ready, Reading, Writing
<1> QED BY Zenon, <1>3, <1>4, <1>5

\* The command register is written: the device begins with the first sector.
LEMMA SendTransfer == Transfer /\ Send /\ UNCHANGED fsize => Transfer'
<1> SUFFICES ASSUME Transfer, Send, UNCHANGED fsize PROVE Transfer'
  BY Zenon
<1> USE DEF Transfer
<1>1. /\ UNCHANGED <<geom, chs, rready, cmd, cnt, buf, op, i, disk, old, fsize>>
      /\ pc = "send" /\ pc' = (IF op = "write" THEN "status" ELSE "wait")
  BY Zenon DEF Send
<1>2. Address(chs)' = Address(chs) /\ Address(chs) \in Int /\ cnt \in Nat
  BY Zenon, <1>1 DEF Address, Types
<1>3. dev \in Registers /\ 0 \in Word /\ Words \in Nat
  BY Zenon, Sizes DEF Types
<1>4. dev' \in Registers => Types'
  BY Zenon, <1>1, <1>2 DEF Types, Places
<1>5. Control'
  BY Zenon, <1>1 DEF Control
<1>6. Ready'
  BY Zenon, <1>1 DEF Ready
<1>7. CASE op = "identify"
  <2>1. dev' = [dev EXCEPT !.drq = TRUE, !.what = "identify", !.ptr = 0]
    BY Zenon, <1>7 DEF Send, ide_command
  <2>2. dev' \in Registers
    BY ONLY Zenon, <1>3, <2>1 DEF Registers
  <2>3. Reading' /\ Writing'
    BY Zenon, <1>1, <1>7 DEF Reading, Writing
  <2> QED BY Zenon, <1>4, <1>5, <1>6, <2>2, <2>3
<1>8. CASE op = "read"
  <2>1. dev' = ide_sector_read(dev)
    BY Zenon, <1>8 DEF Send, ide_command
  <2>2. dev.nsector = cnt /\ dev.sector = Address(chs) /\ i = 0 /\ disk = old /\ cnt > 0
    BY Zenon, <1>1, <1>8 DEF Ready, Control
  <2>3. /\ dev' \in Registers /\ dev'.drq = TRUE /\ dev'.ptr = 0 /\ dev'.nsector = cnt - 1
        /\ dev'.sector = Address(chs) + 1
        /\ Address(chs) \in Sector => dev'.io = disk[Address(chs)]
    <3>1. dev.nsector # 0
      BY <1>2, <2>2
    <3> QED BY Zenon, <2>1, <2>2, <3>1, LoadSector
  <2>4. Filled(0, 0)'
    BY SMTT(30) DEF Filled
  <2>5. cnt' - 1 - dev'.nsector = 0 /\ Address(chs)' + 0 = Address(chs)
        /\ 0 \in 0 .. cnt - 1 /\ i' = 0 * Words + 0
    BY SMTT(30), <1>1, <1>2, <1>3, <2>2, <2>3
  <2>6. Reading'
    BY SMTT(30), <1>1, <1>2, <2>2, <2>3, <2>4, <2>5 DEF Reading
  <2>7. Writing'
    BY Zenon, <1>1, <1>8 DEF Writing
  <2> QED BY Zenon, <1>4, <1>5, <1>6, <2>3, <2>6, <2>7
<1>9. CASE op = "write"
  <2>1. dev' = [dev EXCEPT !.drq = TRUE, !.what = "write", !.ptr = 0]
    BY Zenon, <1>9 DEF Send, ide_command
  <2>2. /\ dev' \in Registers /\ dev'.drq = TRUE /\ dev'.ptr = 0
        /\ dev'.nsector = dev.nsector /\ dev'.sector = dev.sector
    BY ONLY Zenon, <1>3, <2>1 DEF Registers
  <2>3. dev.nsector = cnt /\ dev.sector = Address(chs) /\ i = 0 /\ disk = old /\ cnt > 0
    BY Zenon, <1>1, <1>9 DEF Ready, Control
  <2>4. Stored(0)'
    BY SMTT(30), <1>1, <2>3 DEF Stored
  <2>5. cnt' - dev'.nsector = 0 /\ Address(chs)' + 0 = Address(chs)
        /\ 0 \in 0 .. cnt - 1 /\ i' = 0 * Words + 0
    BY SMTT(30), <1>1, <1>2, <1>3, <2>2, <2>3
  <2>6. Writing'
    BY SMTT(30), <1>1, <1>2, <2>2, <2>3, <2>4, <2>5 DEF Writing
  <2>7. Reading'
    BY Zenon, <1>1, <1>9 DEF Reading
  <2> QED BY Zenon, <1>4, <1>5, <1>6, <2>2, <2>6, <2>7
<1> QED BY Zenon, <1>7, <1>8, <1>9 DEF Types

\* The steps that move no data: the end of the waiting loop, the test of the
\* status register, the return, and the steps of hda_init.
LEMMA QuietTransfer ==
    Transfer /\ (Wait \/ Status \/ Return \/ ScanEnd \/ Detect) /\ UNCHANGED fsize => Transfer'
<1> SUFFICES ASSUME Transfer, Wait \/ Status \/ Return \/ ScanEnd \/ Detect, UNCHANGED fsize
             PROVE  Transfer'
  BY Zenon
<1> USE DEF Transfer
<1>1. UNCHANGED <<geom, chs, rready, cmd, cnt, buf, op, i, dev, disk, old, fsize>>
  BY Zenon DEF Wait, Status, Return, ScanEnd, Detect
<1>2. Address(chs)' = Address(chs)
  BY Zenon, <1>1 DEF Address
<1>3. \/ pc = "wait" /\ rready /\ pc' = (IF op = "identify" THEN "scan" ELSE "status")
      \/ pc = "status" /\ pc' = (IF ~dev.drq THEN "done"
                                 ELSE IF i < cnt * Words THEN "data" ELSE "status")
      \/ pc = "done" /\ pc' = "idle"
      \/ pc = "scan" /\ pc' = "idle"
      \/ pc = "done" /\ pc' = "scan"
  BY Zenon DEF Wait, Status, Return, ScanEnd, Detect
<1>4. Types'
  BY Zenon, <1>1, <1>2, <1>3 DEF Types, Places
<1>5. Control'
  BY Zenon, <1>1, <1>3 DEF Control, Types, Registers
<1>6. Ready'
  BY Zenon, <1>3 DEF Ready
<1>7. Reading'
  BY <1>1, <1>2, <1>3 DEF Reading, Filled
<1>8. Writing'
  BY Zenon, <1>1, <1>2, <1>3 DEF Control, Writing, Stored
<1> QED BY Zenon, <1>4, <1>5, <1>6, <1>7, <1>8

\* hda_intr touches the device only for IDENTIFY.
LEMMA InterruptTransfer == Transfer /\ Interrupt => Transfer'
<1> SUFFICES ASSUME Transfer, Interrupt PROVE Transfer'
  BY Zenon
<1> USE DEF Transfer
<1>1. /\ UNCHANGED <<chs, cnt, buf, pc, op, i, disk, old, fsize>>
      /\ cmd' = NoCmd /\ rready' = (IF cmd # NoCmd THEN TRUE ELSE rready)
  BY Zenon DEF Interrupt
<1>2. Address(chs)' = Address(chs)
  BY Zenon, <1>1 DEF Address
<1>3. CASE cmd = "identify"
  <2>1. op = "identify" /\ geom' = Geometry
    BY Zenon, <1>3 DEF Control, Interrupt, Geometry
  <2>2. dev' = [dev EXCEPT !.drq = FALSE, !.what = "stop", !.ptr = 0] /\ dev \in Registers
        /\ 0 \in Word
    BY Zenon, <1>3, Sizes DEF Interrupt, Types
  <2>3. dev' \in Registers
    BY ONLY Zenon, <2>2 DEF Registers
  <2>4. Types'
    BY Zenon, <1>1, <1>2, <2>3 DEF Types
  <2>5. Control'
    BY Zenon, <1>1, <1>3, <2>1 DEF Control
  <2>6. Ready' /\ Reading' /\ Writing'
    BY Zenon, <1>1, <2>1 DEF Ready, Reading, Writing
  <2> QED BY Zenon, <2>4, <2>5, <2>6
<1>4. CASE cmd # "identify"
  <2>1. UNCHANGED <<geom, dev>>
    BY Zenon, <1>4 DEF Interrupt
  <2>2. Types'
    BY Zenon, <1>1, <1>2, <2>1 DEF Types
  <2>3. Control'
    BY SMTT(30), <1>1, <1>4, <2>1 DEF Control
  <2>4. Ready' /\ Reading' /\ Writing'
    BY SMTT(30), <1>1, <1>2, <2>1 DEF Ready, Reading, Filled, Writing, Stored
  <2> QED BY <2>2, <2>3, <2>4
<1> QED BY Zenon, <1>3, <1>4

\* A word of a read.
LEMMA ReadTransfer == Transfer /\ Data /\ op = "read" /\ UNCHANGED fsize => Transfer'
<1> SUFFICES ASSUME Transfer, Data, op = "read", UNCHANGED fsize PROVE Transfer'
  BY Zenon
<1> USE DEF Transfer
<1>1. /\ UNCHANGED <<geom, chs, rready, cmd, cnt, op, disk, old, fsize>>
      /\ pc = "data" /\ pc' = "status" /\ i' = i + 1
      /\ buf' = [buf EXCEPT ![i] = dev.io[dev.ptr]]
      /\ dev' = IF dev.ptr + 1 < Words THEN [dev EXCEPT !.ptr = @ + 1] ELSE ide_sector_read(dev)
  BY Zenon DEF Data, ide_data_read
<1>2. /\ dev.drq = TRUE /\ i < cnt * Words /\ dev \in Registers
      /\ i \in Nat /\ cnt \in Nat /\ cnt > 0
      /\ Address(chs) \in Int /\ Address(chs)' = Address(chs)
      /\ buf \in [0 .. cnt * Words - 1 -> Datum] /\ dev.io \in Block
      /\ dev.io[dev.ptr] \in Datum
  BY Zenon, <1>1 DEF Types, Control, Address, Registers, Block
<1>3. PICK q \in Nat, p \in Word :
        /\ q = cnt - 1 - dev.nsector /\ p = dev.ptr
        /\ q \in 0 .. cnt - 1 /\ i = q * Words + p /\ dev.sector = Address(chs) + q + 1
        /\ Address(chs) + q \in Sector => dev.io = disk[Address(chs) + q]
        /\ Filled(q, p) /\ disk = old
  BY SMTT(30), <1>1, <1>2 DEF Reading, Registers
<1>4. p \in Nat /\ p < Words /\ Words \in Nat /\ q * Words \in Nat /\ dev.nsector \in Int
  BY <1>2, Sizes DEF Registers
<1>5. Filled(q, p + 1)'
  BY Zenon, <1>1, <1>2, <1>3, FillWord
<1>6. dev' \in Registers => Types'
  <2>1. buf' \in [0 .. cnt * Words - 1 -> Datum]
    BY Zenon, <1>1, <1>2
  <2> QED BY <1>1, <1>2, <2>1 DEF Types, Places
<1>7. Control' /\ Ready' /\ Writing'
  BY Zenon, <1>1 DEF Control, Ready, Writing
<1>8. CASE p + 1 < Words
  <2>1. dev' = [dev EXCEPT !.ptr = p + 1] /\ p + 1 \in Word
    BY <1>1, <1>3, <1>4, <1>8 DEF Word
  <2>2. /\ dev' \in Registers /\ dev'.ptr = p + 1
        /\ dev'.drq = dev.drq /\ dev'.nsector = dev.nsector
        /\ dev'.sector = dev.sector /\ dev'.io = dev.io
    BY ONLY Zenon, <1>2, <2>1 DEF Registers
  <2>3. i' = q * Words + (p + 1)
    BY <1>1, <1>3, <1>4
  <2>4. Reading'
    BY Zenon, <1>1, <1>2, <1>3, <1>5, <2>2, <2>3 DEF Reading
  <2> QED BY Zenon, <1>6, <1>7, <2>2, <2>4
<1>9. CASE ~ (p + 1 < Words)
  <2>1. dev' = ide_sector_read(dev) /\ p + 1 = Words
    BY <1>1, <1>3, <1>4, <1>9
  <2>2. Filled(q + 1, 0)'
    BY Zenon, <1>5, <2>1, FullSector
  <2>3. i' = (q + 1) * Words + 0 /\ i' > 0 /\ (q + 1) * Words \in Nat
    BY <1>1, <1>3, <1>4, <2>1
  <2>4. dev' \in Registers
    BY Zenon, <2>1, LoadSector
  <2>5. /\ cnt \in Nat /\ dev.nsector \in Int /\ Address(chs) \in Int /\ q \in Nat
        /\ q = cnt - 1 - dev.nsector /\ q \in 0 .. cnt - 1
    BY Zenon, <1>2, <1>3, <1>4
  <2>6. CASE dev.nsector = 0
    <3>1. dev'.drq = FALSE
      BY Zenon, <2>1, <2>6, LoadSector
    <3>2. q + 1 = cnt
      BY ONLY <2>5, <2>6
    <3>3. Reading'
      BY Zenon, <1>1, <1>3, <2>2, <2>3, <3>1, <3>2 DEF Reading
    <3> QED BY Zenon, <1>6, <1>7, <2>4, <3>3
  <2>7. CASE dev.nsector # 0
    <3> DEFINE s == Address(chs) + (q + 1)
    <3>1. s \in Int /\ dev.sector = s /\ Address(chs)' + (q + 1) = s
      BY ONLY SMTT(30), <1>2, <1>3, <2>5
    <3>2. /\ dev'.drq = TRUE /\ dev'.ptr = 0 /\ dev'.nsector = dev.nsector - 1
          /\ dev'.sector = s + 1
          /\ s \in Sector => dev'.io = disk[s]
      BY Zenon, <2>1, <2>7, <3>1, LoadSector
    <3>3. cnt - 1 - (dev.nsector - 1) = q + 1 /\ q + 1 \in 0 .. cnt - 1
      BY ONLY <2>5, <2>7
    <3> HIDE DEF s
    <3>4. Reading'
      BY SMTT(30), <1>1, <1>3, <2>2, <2>3, <3>1, <3>2, <3>3 DEF Reading
    <3> QED BY SMTT(30), <1>6, <1>7, <2>4, <3>4
  <2> QED BY Zenon, <2>6, <2>7
<1> QED BY Zenon, <1>8, <1>9

\* A word of a write.
LEMMA WriteTransfer == Transfer /\ Data /\ op = "write" /\ UNCHANGED fsize => Transfer'
<1> SUFFICES ASSUME Transfer, Data, op = "write", UNCHANGED fsize PROVE Transfer'
  BY Zenon
<1> USE DEF Transfer
<1>1. /\ UNCHANGED <<geom, chs, rready, cmd, cnt, op, buf, old, fsize>>
      /\ pc = "data" /\ pc' = "status" /\ i' = i + 1 /\ ide_data_write(buf[i])
  BY Zenon DEF Data
<1>2. /\ dev.drq = TRUE /\ i < cnt * Words /\ dev \in Registers
      /\ i \in Nat /\ cnt \in Nat /\ cnt > 0
      /\ Address(chs) \in Int /\ Address(chs)' = Address(chs)
      /\ buf \in [0 .. cnt * Words - 1 -> Datum] /\ dev.io \in Block
      /\ disk \in [Sector -> Block]
  BY Zenon, <1>1 DEF Types, Control, Address, Registers
<1> DEFINE q0 == cnt - dev.nsector
<1>a. /\ q0 \in 0 .. cnt - 1 /\ i = q0 * Words + dev.ptr /\ dev.sector = Address(chs) + q0
      /\ \A w \in 0 .. dev.ptr - 1 : dev.io[w] = buf[q0 * Words + w]
      /\ Stored(q0)
  BY Zenon, <1>1, <1>2 DEF Writing
<1> HIDE DEF q0
<1>b. PICK q \in 0 .. cnt - 1, p \in Word : q = q0 /\ p = dev.ptr
  BY Zenon, <1>2, <1>a DEF Registers
<1>3. /\ q = cnt - dev.nsector /\ p = dev.ptr /\ i = q * Words + p
      /\ dev.sector = Address(chs) + q
      /\ \A w \in 0 .. p - 1 : dev.io[w] = buf[q * Words + w]
      /\ Stored(q)
  BY Zenon, <1>a, <1>b DEF q0
<1>4. /\ q \in Nat /\ q * Words \in Nat /\ dev.nsector \in Int /\ dev.sector \in Int
      /\ p \in Nat /\ p < Words /\ Words \in Nat
  BY <1>2, Sizes DEF Registers
<1>c. PICK a \in Int : a = Address(chs)
  BY Zenon, <1>2
<1>5. PICK io \in Block : io = [dev.io EXCEPT ![dev.ptr] = buf[i]]
  <2>1. buf[i] \in Datum
    BY SMTT(30), <1>2, Sizes
  <2> QED BY Zenon, <1>2, <2>1 DEF Block
<1>6. /\ io[p] = buf[q * Words + p]
      /\ \A w \in 0 .. p - 1 : io[w] = buf[q * Words + w]
  <2>1. io[p] = buf[i] /\ \A w \in Word : w # p => io[w] = dev.io[w]
    BY Zenon, <1>2, <1>3, <1>5 DEF Block
  <2>2. \A w \in 0 .. p - 1 : w \in Word /\ w # p
    BY <1>4 DEF Word
  <2> QED BY <1>3, <2>1, <2>2
<1>7. \A w \in 0 .. p : io[w] = buf[q * Words + w]
  <2> TAKE w \in 0 .. p
  <2>1. w = p \/ w \in 0 .. p - 1
    BY <1>4
  <2> QED BY ONLY Zenon, <1>6, <2>1
<1>8. dev' \in Registers /\ disk' \in [Sector -> Block] => Types'
  BY <1>1, <1>2 DEF Types, Places
<1>9. Control' /\ Ready' /\ Reading'
  BY Zenon, <1>1 DEF Control, Ready, Reading
<1>10. CASE p + 1 < Words
  <2>1. dev' = [dev EXCEPT !.io = io, !.ptr = p + 1] /\ disk' = disk /\ p + 1 \in Word
    BY SMTT(30), <1>1, <1>3, <1>4, <1>5, <1>10 DEF ide_data_write, Word
  <2>2. /\ dev' \in Registers /\ dev'.ptr = p + 1 /\ dev'.io = io
        /\ dev'.drq = dev.drq /\ dev'.nsector = dev.nsector /\ dev'.sector = dev.sector
    BY ONLY Zenon, <1>2, <2>1 DEF Registers
  <2>3. i' = q * Words + (p + 1) /\ (p + 1) - 1 = p
    BY <1>1, <1>3, <1>4
  <2>4. Stored(q)'
    BY Zenon, <1>1, <1>2, <1>3, <2>1 DEF Stored
  <2>5. Writing'
    BY SMTT(30), <1>1, <1>2, <1>3, <1>7, <2>2, <2>3, <2>4 DEF Writing
  <2> QED BY Zenon, <1>2, <1>8, <1>9, <2>1, <2>2, <2>5
<1>11. CASE ~ (p + 1 < Words)
  <2>1. p + 1 = Words
    BY <1>4, <1>11
  <2>2. io = [w \in Word |-> buf[q * Words + w]]
    <3>1. \A w \in Word : w \in 0 .. p
      BY <1>4, <2>1 DEF Word
    <3> QED BY Zenon, <1>7, <3>1 DEF Block
  <2>3. PICK s \in Int, n \in Int : s = dev.sector + 1 /\ n = dev.nsector - 1
    BY ONLY <1>4
  <2>c. PICK more \in BOOLEAN, what \in {"write", "stop"} :
          more = (dev.nsector > 1) /\ what = IF dev.nsector > 1 THEN "write" ELSE "stop"
    <3>1. (dev.nsector > 1) \in BOOLEAN
      BY <1>4
    <3>2. (IF dev.nsector > 1 THEN "write" ELSE "stop") \in {"write", "stop"}
      BY ONLY Zenon
    <3> QED BY ONLY Zenon, <3>1, <3>2
  <2>4. /\ dev' = [dev EXCEPT !.io = io, !.ptr = 0, !.drq = more, !.what = what,
                      !.sector = s, !.nsector = n]
        /\ disk' = [k \in Sector |-> IF k = dev.sector THEN io ELSE disk[k]]
    BY Zenon, <1>1, <1>3, <1>5, <1>11, <2>3, <2>c DEF ide_data_write
  <2>5. /\ dev' \in Registers /\ dev'.ptr = 0 /\ dev'.drq = more
        /\ dev'.nsector = n /\ dev'.sector = s
    BY ONLY Zenon, <1>2, <2>3, <2>4, Sizes DEF Registers
  <2>6. disk' \in [Sector -> Block]
    BY Zenon, <1>2, <2>4
  <2>7. i' = (q + 1) * Words + 0
    BY <1>1, <1>3, <1>4, <2>1
  <2>8. /\ cnt - n = q + 1 /\ s = Address(chs) + (q + 1)
        /\ IF more THEN q + 1 \in 0 .. cnt - 1 ELSE q + 1 = cnt
    <3>1. cnt \in Nat /\ q = cnt - dev.nsector /\ n = dev.nsector - 1 /\ dev.nsector \in Int
          /\ s = (a + q) + 1 /\ a = Address(chs) /\ q \in 0 .. cnt - 1
      BY Zenon, <1>2, <1>3, <1>4, <1>c, <2>3
    <3>2. more <=> dev.nsector > 1
      BY ONLY Zenon, <2>c
    <3>3. dev.nsector \in 1 .. cnt /\ cnt - n = q + 1 /\ s = a + (q + 1)
          /\ (dev.nsector > 1 => q + 1 \in 0 .. cnt - 1)
          /\ (~ (dev.nsector > 1) => q + 1 = cnt)
      BY ONLY <3>1
    <3> QED BY ONLY Zenon, <3>1, <3>2, <3>3
  <2>9. Stored(q + 1)'
    <3>1. ASSUME NEW k \in Sector
          PROVE  disk'[k] = IF k - Address(chs) \in 0 .. (q + 1) - 1
                              THEN [w \in Word |-> buf[(k - Address(chs)) * Words + w]]
                              ELSE old[k]
      <4>1. k \in Int /\ (k = dev.sector <=> k - Address(chs) = q)
        <5>1. k \in Int /\ dev.sector = a + q /\ a = Address(chs) /\ q \in Int
          BY <1>3, <1>4, <1>c, Sizes
        <5> QED BY ONLY SMTT(30), <5>1
      <4>2. k - Address(chs) \in 0 .. (q + 1) - 1
              <=> k - Address(chs) \in 0 .. q - 1 \/ k - Address(chs) = q
        <5>1. PICK j \in Int : j = k - Address(chs)
          BY SMTT(30), <1>c, <4>1
        <5>2. j \in 0 .. (q + 1) - 1 <=> j \in 0 .. q - 1 \/ j = q
          BY ONLY <5>1, <1>4
        <5> QED BY ONLY Zenon, <5>1, <5>2
      <4>3. CASE k = dev.sector
        BY Zenon, <2>2, <2>4, <4>1, <4>2, <4>3
      <4>4. CASE k # dev.sector
        BY Zenon, <1>3, <2>4, <4>1, <4>2, <4>4 DEF Stored
      <4> QED BY Zenon, <4>3, <4>4
    <3> QED BY Zenon, <1>1, <1>2, <3>1 DEF Stored
  <2>10. Writing'
    <3>1. /\ cnt' - dev'.nsector = q + 1 /\ dev'.sector = Address(chs)' + (q + 1)
          /\ dev'.drq => q + 1 \in 0 .. cnt' - 1
          /\ ~dev'.drq => q + 1 = cnt'
      BY ONLY Zenon, <1>1, <1>2, <2>5, <2>8
    <3>2. \A w \in 0 .. dev'.ptr - 1 : FALSE
      BY <2>5
    <3> QED BY Zenon, <2>5, <2>7, <2>9, <3>1, <3>2 DEF Writing
  <2> QED BY Zenon, <1>8, <1>9, <2>5, <2>6, <2>10
<1> QED BY Zenon, <1>10, <1>11
-----------------------------------------------------------------------------
(* Each step keeps Partitions and Searching.                               *)

\* hda_init has entered nothing, and the device's buffer holds no superblock.
LEMMA InitSearch == Init => Partitions /\ Searching
<1> SUFFICES ASSUME Init PROVE Partitions /\ Searching
  BY Zenon
<1>1. pi = 0 /\ Asking /\ ret = "scan" /\ disk = Image
      /\ part = [j \in 0 .. NVFSMNTS |-> [begin |-> 0, end |-> 0]]
  BY Zenon DEF Init, Asking, Image
<1>2. Partitions
  BY <1>1, Sizes DEF Partitions
<1>3. dev.io[0][1] = -3
  BY Zenon, Sizes DEF Init, Blank
<1>4. Held(dev.io[0])
  BY <1>1, <1>3, Sizes DEF Held, Sector
<1> QED BY Zenon, <1>1, <1>2, <1>4 DEF Searching

\* The steps that leave the table, the buffers and the device's sector alone.
LEMMA QuietSearch ==
    /\ IInv /\ UNCHANGED fsize
    /\ Arm \/ SetCmd \/ Status \/ Return \/ ScanEnd \/ Interrupt \/ (Wait /\ op # "identify")
    => Partitions' /\ Searching'
<1> SUFFICES ASSUME IInv, UNCHANGED fsize,
                    \/ Arm \/ SetCmd \/ Status \/ Return \/ ScanEnd \/ Interrupt
                    \/ Wait /\ op # "identify"
             PROVE  Partitions' /\ Searching'
  BY Zenon
<1>1. /\ UNCHANGED <<part, pi, chs, disk, fsize, ret, op, cnt, buf, i>>
      /\ \/ pc' = pc
         \/ pc = "arm" /\ pc' = "command"
         \/ pc = "command" /\ pc' = "send"
         \/ pc = "status" /\ pc' \in {"done", "data", "status"}
         \/ pc = "done" /\ pc' = "idle"
         \/ pc = "scan" /\ pc' = "idle"
         \/ pc = "wait" /\ pc' = "status" /\ op # "identify"
  BY Zenon DEF Arm, SetCmd, Status, Return, ScanEnd, Interrupt, Wait
<1>2. dev'.io = dev.io
  <2>1. dev \in Registers
    BY Zenon DEF IInv, Transfer, Types
  <2>2. dev' = dev \/ dev' = [dev EXCEPT !.drq = FALSE, !.what = "stop", !.ptr = 0]
    BY Zenon DEF Arm, SetCmd, Status, Return, ScanEnd, Interrupt, Wait
  <2> QED BY ONLY Zenon, <2>1, <2>2 DEF Registers
<1>3. Asking' <=> Asking
  BY Zenon, <1>1 DEF Asking, IInv, Transfer, Control
<1>4. Partitions'
  BY <1>1, <1>3 DEF IInv, Partitions
<1>5. Searching'
  BY Zenon, <1>1, <1>2, <1>3 DEF IInv, Searching, Held, Found, Address
<1> QED BY Zenon, <1>4, <1>5

\* The device has identified itself: the search begins at sector 2.
LEMMA IdentifiedSearch ==
    IInv /\ Wait /\ op = "identify" /\ UNCHANGED fsize => Partitions' /\ Searching'
<1> SUFFICES ASSUME IInv, Wait, op = "identify", UNCHANGED fsize
             PROVE  Partitions' /\ Searching'
  BY Zenon
<1>1. /\ UNCHANGED <<pi, chs, disk, fsize, op, dev>>
      /\ pc' = "scan" /\ part' = [part EXCEPT ![0].begin = 2]
  BY Zenon DEF Wait
<1>2. Asking /\ ~Asking'
  BY Zenon, <1>1 DEF Wait, Asking
<1>3. /\ pi = 0 /\ part \in [0 .. NVFSMNTS -> [begin : Nat, end : Nat]]
      /\ part[0].end = 0
      /\ \A j \in 0 .. NVFSMNTS : j > 0 => part[j].begin = 0 /\ part[j].end = 0
  BY Zenon, <1>2 DEF IInv, Partitions
<1>4. /\ part' \in [0 .. NVFSMNTS -> [begin : Nat, end : Nat]]
      /\ part'[0].begin = 2 /\ part'[0].end = 0
      /\ \A j \in 0 .. NVFSMNTS : j > 0 => part'[j] = part[j]
  BY SMTT(30), <1>1, <1>3, Sizes
<1>5. Partitions'
  BY SMTT(30), <1>1, <1>2, <1>3, <1>4, Sizes DEF Partitions
<1>6. Searching'
  BY Zenon, <1>1, <1>2, <1>3 DEF IInv, Searching, Held
<1> QED BY Zenon, <1>5, <1>6

\* The command is sent: a sector of the disk is in the device's buffer then.
LEMMA SendSearch == IInv /\ Send /\ UNCHANGED fsize => Partitions' /\ Searching'
<1> SUFFICES ASSUME IInv, Send, UNCHANGED fsize PROVE Partitions' /\ Searching'
  BY Zenon
<1>1. /\ UNCHANGED <<part, pi, chs, disk, fsize, ret, op, cnt, buf, i>>
      /\ pc = "send" /\ pc' = (IF op = "write" THEN "status" ELSE "wait")
  BY Zenon DEF Send
<1>2. Asking' <=> Asking
  BY Zenon, <1>1 DEF Asking
<1>3. Partitions'
  BY <1>1, <1>2 DEF IInv, Partitions
<1>4. dev \in Registers /\ Types
  BY Zenon DEF IInv, Transfer, Types
<1>5. CASE op = "identify"
  <2>1. dev' = [dev EXCEPT !.drq = TRUE, !.what = "identify", !.ptr = 0]
    BY Zenon, <1>5 DEF Send, ide_command
  <2>2. dev'.io = dev.io
    BY ONLY SMTT(30), <1>4, <2>1 DEF Registers
  <2>3. Searching'
    BY Zenon, <1>1, <1>2, <1>5, <2>2 DEF IInv, Searching, Held
  <2> QED BY Zenon, <1>3, <2>3
<1>6. CASE op # "identify" /\ ret # "detect"
  BY Zenon, <1>1, <1>3, <1>6 DEF Searching, Asking
<1>7. CASE op # "identify" /\ ret = "detect"
  <2>1. /\ op = "read" /\ cnt = 1 /\ disk = Image /\ pi < NVFSMNTS
        /\ part[pi].begin <= DiskSize
        /\ Address(chs) = IF part[pi].begin = DiskSize THEN -1 ELSE part[pi].begin - 1
        /\ Held(dev.io[0])
    BY Zenon, <1>1, <1>7 DEF IInv, Searching
  <2>2. dev.nsector = 1 /\ dev.sector = Address(chs) /\ i = 0
    BY Zenon, <1>1, <2>1 DEF IInv, Transfer, Ready
  <2>3. dev' = ide_sector_read(dev)
    BY Zenon, <2>1 DEF Send, ide_command
  <2>4. dev'.io = IF Address(chs) \in Sector THEN disk[Address(chs)] ELSE dev.io
    BY <1>4, <2>2, <2>3, LoadSector
  <2>5. Found(dev.io[0])'
    <3>1. CASE Address(chs) \in Sector
      <4>1. dev'.io[0][1] = Address(chs)
        BY <2>1, <2>4, <3>1, Sizes DEF Image
      <4> QED BY Zenon, <1>1, <3>1, <4>1 DEF Found, Address
    <3>2. CASE Address(chs) \notin Sector
      BY Zenon, <1>1, <2>1, <2>4, <3>2 DEF Found, Held, Address
    <3> QED BY Zenon, <3>1, <3>2
  <2>6. Address(chs)' = Address(chs)
    BY SMTT(30), <1>1 DEF Address
  <2>7. Searching'
    BY <1>1, <2>1, <2>2, <2>5, <2>6 DEF Searching, Asking
  <2> QED BY <1>3, <2>7
<1> QED BY Zenon, <1>5, <1>6, <1>7

\* A word of the sector the search reads: the first one says whose sector it is.
LEMMA DataSearch == IInv /\ Data /\ UNCHANGED fsize => Partitions' /\ Searching'
<1> SUFFICES ASSUME IInv, Data, UNCHANGED fsize PROVE Partitions' /\ Searching'
  OBVIOUS
<1>1. /\ UNCHANGED <<part, pi, chs, fsize, ret, op, cnt>>
      /\ pc = "data" /\ pc' = "status" /\ i' = i + 1
  BY Zenon DEF Data
<1>2. op # "identify" /\ ~Asking /\ ~Asking'
  BY Zenon, <1>1 DEF IInv, Transfer, Control, Asking
<1>3. Partitions'
  BY <1>1, <1>2 DEF IInv, Partitions
<1>4. CASE ret # "detect"
  BY Zenon, <1>1, <1>2, <1>3, <1>4 DEF Searching
<1>5. CASE ret = "detect"
  <2>1. /\ op = "read" /\ cnt = 1 /\ disk = Image /\ pi < NVFSMNTS
        /\ part[pi].begin <= DiskSize
        /\ Address(chs) = IF part[pi].begin = DiskSize THEN -1 ELSE part[pi].begin - 1
        /\ Found(dev.io[0]) /\ (i > 0 => Found(buf[0]))
    BY Zenon, <1>1, <1>2, <1>5 DEF IInv, Searching
  <2>2. /\ buf' = [buf EXCEPT ![i] = dev.io[dev.ptr]] /\ disk' = disk
        /\ dev' = IF dev.ptr + 1 < Words THEN [dev EXCEPT !.ptr = @ + 1]
                                         ELSE ide_sector_read(dev)
    BY Zenon, <2>1 DEF Data, ide_data_read
  <2>3. /\ Types /\ dev \in Registers /\ dev.drq /\ i \in Nat /\ i < cnt * Words
        /\ buf \in [0 .. cnt * Words - 1 -> Datum]
    BY Zenon, <1>1, <2>1 DEF IInv, Transfer, Types, Control
  <2>4. dev.nsector = 0 /\ i = dev.ptr
    <3>1. cnt - 1 - dev.nsector \in 0 .. cnt - 1
          /\ i = (cnt - 1 - dev.nsector) * Words + dev.ptr
      BY Zenon, <1>1, <2>1, <2>3 DEF IInv, Transfer, Reading
    <3>2. cnt = 1 /\ dev.nsector \in Int /\ dev.ptr \in Int /\ Words \in Int
      BY <2>1, <2>3, Sizes DEF Registers
    <3>3. 1 - 1 - dev.nsector \in 0 .. 1 - 1 /\ dev.nsector \in Int
      BY ONLY Zenon, <3>1, <3>2
    <3>4. dev.nsector = 0
      BY ONLY <3>3
    <3>5. i = 0 * Words + dev.ptr
      BY ONLY <3>1, <3>2, <3>4
    <3> QED BY ONLY SMTT(30), <3>2, <3>4, <3>5
  <2>5. dev'.io = dev.io
    <3>1. CASE dev.ptr + 1 < Words
      BY Zenon, <2>2, <2>3, <3>1 DEF Registers
    <3>2. CASE ~ (dev.ptr + 1 < Words)
      BY Zenon, <2>2, <2>3, <2>4, <3>2, LoadSector
    <3> QED BY Zenon, <3>1, <3>2
  <2>6. buf'[0] = IF i = 0 THEN dev.io[0] ELSE buf[0]
    <3>1. 0 \in 0 .. cnt * Words - 1
      BY SMTT(30), <2>1, Sizes
    <3> QED BY Zenon, <2>2, <2>3, <2>4, <3>1
  <2>7. Found(buf[0])' /\ Found(dev.io[0])'
    <3>1. CASE i = 0
      BY SMTT(30), <1>1, <2>1, <2>5, <2>6, <3>1 DEF Found, Held, Address
    <3>2. CASE i # 0
      <4>1. i > 0
        BY <2>3, <3>2
      <4> QED BY Zenon, <1>1, <2>1, <2>5, <2>6, <3>2, <4>1 DEF Found, Held, Address
    <3> QED BY SMTT(30), <3>1, <3>2
  <2>8. Address(chs)' = Address(chs)
    BY Zenon, <1>1 DEF Address
  <2>9. Searching'
    BY SMTT(30), <1>1, <1>2, <2>1, <2>2, <2>7, <2>8 DEF Searching
  <2> QED BY <1>3, <2>9
<1> QED BY Zenon, <1>4, <1>5

\* A caller's request has nothing to do with the search, which is over.
LEMMA RequestSearch ==
    ASSUME IInv, NEW r \in Requests, Request(r) PROVE Partitions' /\ Searching'
<1>1. /\ UNCHANGED <<part, pi, fsize>> /\ pc = "idle" /\ ret' = "idle" /\ op' = r.kind
      /\ pc' \in {"arm", "command"}
  BY Zenon DEF Request, Begin
<1>2. r.kind # "identify"
  BY HdaAssumption
<1>3. ~Asking /\ ~Asking'
  BY Zenon, <1>1, <1>2 DEF Asking
<1>4. Partitions'
  BY Zenon, <1>1, <1>3 DEF IInv, Partitions
<1> QED BY Zenon, <1>1, <1>3, <1>4 DEF Searching

\* hda_init seeks to where the next partition should begin.
LEMMA ScanSearch == IInv /\ Scan /\ UNCHANGED fsize => Partitions' /\ Searching'
<1> SUFFICES ASSUME IInv, Scan, UNCHANGED fsize PROVE Partitions' /\ Searching'
  OBVIOUS
<1>1. /\ UNCHANGED <<part, pi, fsize, disk, geom>> /\ pc = "scan" /\ pi < NVFSMNTS
      /\ ret' = "detect" /\ op' = "read" /\ pc' = "arm" /\ cnt' = 1
      /\ dev' = [dev EXCEPT !.nsector = 1, !.sector = Address(chs')]
      /\ SeekOK(0, part[pi].begin) /\ chs' = Seek(part[pi].begin)
  BY DEF Scan, Begin, hda_lseek, Offset
<1>2. ~Asking /\ ~Asking' /\ geom = Geometry /\ dev \in Registers
  BY Zenon, <1>1 DEF Asking, IInv, Transfer, Control, Types
<1>3. Partitions'
  BY <1>1, <1>2 DEF IInv, Partitions
<1>4. disk = Image /\ Held(dev.io[0]) /\ part[pi].begin \in Nat
  BY Zenon, <1>1 DEF IInv, Searching, Partitions
<1>5. part[pi].begin <= DiskSize
  BY <1>1, <1>2 DEF SeekOK, Offset, Geometry, DiskSize
<1>6. Address(chs)' = IF part[pi].begin = DiskSize THEN -1 ELSE part[pi].begin - 1
  <2>1. PICK b \in Nat : b = part[pi].begin
    BY Zenon, <1>4
  <2>2. /\ b < DiskSize => Address(Seek(b)) = b - 1
        /\ b = DiskSize => Address(Seek(b)) = -1
    BY Zenon, <1>2, AddressOfSeek
  <2>3. b < DiskSize \/ b = DiskSize
    BY <1>5, <2>1, Sizes
  <2>4. Address(chs)' = Address(Seek(b))
    BY Zenon, <1>1, <2>1 DEF Address
  <2> QED BY Zenon, <2>1, <2>2, <2>3, <2>4, Sizes
<1>7. dev'.io = dev.io
  BY ONLY Zenon, <1>1, <1>2 DEF Registers
<1>8. Held(dev.io[0])'
  BY Zenon, <1>1, <1>4, <1>7 DEF Held
<1>9. Searching'
  BY Zenon, <1>1, <1>2, <1>4, <1>5, <1>6, <1>8 DEF Searching
<1> QED BY <1>3, <1>9

\* hda_init has read the sector: it enters the file system, or ends.
LEMMA DetectSearch == IInv /\ Detect /\ UNCHANGED fsize => Partitions' /\ Searching'
<1> SUFFICES ASSUME IInv, Detect, UNCHANGED fsize PROVE Partitions' /\ Searching'
  OBVIOUS
<1>1. /\ UNCHANGED <<chs, buf, op, dev, disk, fsize, ret>> /\ pc = "done" /\ ret = "detect"
  BY Zenon DEF Detect
<1>2. op # "identify" /\ ~Asking /\ ~Asking' /\ ~dev.drq
  BY Zenon, <1>1 DEF IInv, Transfer, Control, Asking
<1>3. /\ op = "read" /\ disk = Image /\ pi < NVFSMNTS /\ part[pi].begin <= DiskSize
      /\ Address(chs) = IF part[pi].begin = DiskSize THEN -1 ELSE part[pi].begin - 1
      /\ Found(dev.io[0]) /\ (i > 0 => Found(buf[0]))
  BY Zenon, <1>1, <1>2 DEF IInv, Searching
<1>4. i > 0
  BY Zenon, <1>1, <1>2, <1>3 DEF IInv, Transfer, Reading
<1>5. CASE SizeIn(buf) = 0
  <2>1. UNCHANGED <<part, pi>> /\ pc' = "idle"
    BY SMTT(30), <1>5 DEF Detect
  <2>2. Partitions'
    BY <1>1, <1>2, <2>1 DEF IInv, Partitions
  <2> QED BY Zenon, <1>2, <2>1, <2>2 DEF Searching
<1>6. CASE SizeIn(buf) # 0
  <2>1. /\ pi \in 0 .. NVFSMNTS - 1
        /\ part \in [0 .. NVFSMNTS -> [begin : Nat, end : Nat]]
        /\ part[pi].begin >= 2 /\ part[pi].begin \in Nat
        /\ \A j \in 0 .. NVFSMNTS : j > pi => part[j].begin = 0 /\ part[j].end = 0
    BY SMTT(30), <1>2, <1>3, Sizes DEF IInv, Partitions
  <2>2. fsize \in [Sector -> Nat]
    BY Zenon DEF IInv, Transfer, Types
  <2>3. PICK x \in Nat \ {0} : x = SizeIn(buf)
    BY Zenon, <1>6, <2>2 DEF SizeIn
  <2>4. /\ part' = [part EXCEPT ![pi].end = x, ![pi + 1].begin = x + 1]
        /\ pi' = pi + 1 /\ pc' = "scan"
    BY <2>3 DEF Detect
  <2>a. PICK p \in Nat, y \in Nat : p = pi /\ y = x + 1
    BY <2>1
  <2>b. /\ p \in 0 .. NVFSMNTS /\ p + 1 \in 0 .. NVFSMNTS /\ p # p + 1 /\ p < p + 1
    BY <2>1, <2>a, Sizes
  <2>5. /\ part' \in [0 .. NVFSMNTS -> [begin : Nat, end : Nat]]
        /\ part'[p].begin = part[p].begin /\ part'[p].end = x
        /\ part'[p + 1].begin = y /\ part'[p + 1].end = 0
        /\ \A j \in 0 .. NVFSMNTS : j # p /\ j # p + 1 => part'[j] = part[j]
    <3> DEFINE Entry == [begin : Nat, end : Nat]
               mid == [part EXCEPT ![p].end = x]
    <3>1. part \in [0 .. NVFSMNTS -> Entry] /\ part[p + 1].end = 0
      BY Zenon, <2>1, <2>a, <2>b
    <3>2. /\ mid \in [0 .. NVFSMNTS -> Entry]
          /\ mid[p].begin = part[p].begin /\ mid[p].end = x
          /\ \A j \in 0 .. NVFSMNTS : j # p => mid[j] = part[j]
      BY ONLY Zenon, <3>1, <2>b, x \in Nat
    <3>3. part' = [mid EXCEPT ![p + 1].begin = y]
      BY Zenon, <2>4, <2>a
    <3> HIDE DEF mid
    <3>4. /\ part' \in [0 .. NVFSMNTS -> Entry]
          /\ part'[p + 1].begin = y /\ part'[p + 1].end = mid[p + 1].end
          /\ \A j \in 0 .. NVFSMNTS : j # p + 1 => part'[j] = mid[j]
      BY ONLY SMTT(30), <3>2, <3>3, <2>b, y \in Nat
    <3> QED BY ONLY Zenon, <3>1, <3>2, <3>4, <2>b
  <2>6. /\ dev.io[0][1] \in Sector /\ fsize[dev.io[0][1]] = x
        /\ \/ part[pi].begin < DiskSize /\ fsize[part[pi].begin - 1] = x
           \/ part[pi].begin = DiskSize /\ x < DiskSize
    <3>1. CASE Address(chs) \in Sector
      <4>1. buf[0][1] = Address(chs) /\ dev.io[0][1] = Address(chs)
        BY Zenon, <1>3, <1>4, <3>1 DEF Found
      <4>2. x = fsize[Address(chs)]
        BY Zenon, <2>3, <3>1, <4>1 DEF SizeIn
      <4>3. part[pi].begin # DiskSize
        BY SMTT(30), <1>3, <3>1, Sizes
      <4>4. part[pi].begin < DiskSize /\ Address(chs) = part[pi].begin - 1
        BY SMTT(30), <1>3, <2>1, <4>3, Sizes
      <4> QED BY Zenon, <3>1, <4>1, <4>2, <4>4
    <3>2. CASE Address(chs) \notin Sector
      <4>1. Held(buf[0]) /\ Held(dev.io[0])
        BY Zenon, <1>3, <1>4, <3>2 DEF Found
      <4>2. buf[0][1] \in Sector /\ x = fsize[buf[0][1]]
        BY Zenon, <1>6, <2>3 DEF SizeIn
      <4>3. pi # 0 /\ x = part[pi - 1].end
        BY Zenon, <4>1, <4>2 DEF Held
      <4>4. dev.io[0][1] \in Sector /\ fsize[dev.io[0][1]] = x
        BY Zenon, <4>1, <4>3 DEF Held
      <4>5. part[pi].begin = x + 1
        BY SMTT(30), <2>1, <4>3 DEF IInv, Partitions
      <4>6. part[pi].begin = DiskSize
        <5>1. part[pi].begin < DiskSize => part[pi].begin - 1 \in Sector
          BY SMTT(30), <2>1, Sizes DEF Sector
        <5> QED BY SMTT(30), <1>3, <2>1, <3>2, <5>1, Sizes
      <4> QED BY <2>3, <4>4, <4>5, <4>6
    <3> QED BY Zenon, <3>1, <3>2
  <2>7. Partitions'
    <3>1. /\ pi' = p + 1 /\ pi' \in 0 .. NVFSMNTS /\ pi' > 0 /\ pi' - 1 = p
          /\ y = x + 1 /\ y >= 2
      BY <2>3, <2>4, <2>a, <2>b
    <3>2. ASSUME NEW j \in 0 .. NVFSMNTS, j > pi'
          PROVE  part'[j].begin = 0 /\ part'[j].end = 0
      <4>1. j > p /\ j # p /\ j # p + 1
        BY <3>1, <3>2
      <4> QED BY Zenon, <2>1, <2>5, <2>a, <4>1
    <3>3. ASSUME NEW j \in 0 .. NVFSMNTS, j < pi'
          PROVE  /\ part'[j].begin >= 2
                 /\ \/ part'[j].begin < DiskSize /\ fsize'[part'[j].begin - 1] = part'[j].end
                    \/ part'[j].begin = DiskSize /\ part'[j].end < DiskSize
      <4>1. CASE j = pi
        <5>1. part'[j].begin = part[pi].begin /\ part'[j].end = x
          BY Zenon, <2>5, <2>a, <4>1
        <5> QED BY Zenon, <1>1, <2>1, <2>6, <5>1
      <4>2. CASE j # pi
        <5>1. j < pi /\ part'[j] = part[j]
          BY <2>5, <2>a, <3>1, <3>3, <4>2
        <5> QED BY SMTT(30), <1>1, <5>1 DEF IInv, Partitions
      <4> QED BY Zenon, <4>1, <4>2
    <3> QED BY Zenon, <1>2, <2>5, <3>1, <3>2, <3>3 DEF Partitions
  <2>8. Held(dev.io[0])'
    <3>1. pi' # 0 /\ part'[pi' - 1].end = x
      BY SMTT(30), <2>4, <2>5, <2>a, Sizes
    <3> QED BY Zenon, <1>1, <2>6, <3>1 DEF Held
  <2>9. Searching'
    BY Zenon, <1>1, <1>2, <1>3, <2>4, <2>8 DEF Searching
  <2> QED BY Zenon, <2>7, <2>9
<1> QED BY Zenon, <1>5, <1>6
-----------------------------------------------------------------------------
(* The theorems.                                                           *)

\* Every step of the driver, the handler and a caller keeps the invariant.
LEMMA Inductive == IInv /\ [Next]_vars => IInv'
<1> SUFFICES ASSUME IInv, [Next]_vars PROVE IInv'
  BY Zenon
<1>1. Transfer /\ part \in [0 .. NVFSMNTS -> [begin : Nat, end : Nat]]
  BY Zenon DEF IInv, Partitions
<1>2. CASE Driver
  <2>1. UNCHANGED fsize
    BY Zenon, <1>2 DEF Driver
  <2>2. CASE Arm \/ SetCmd
    BY Zenon, <1>1, <2>1, <2>2, ArmTransfer, QuietSearch DEF IInv
  <2>3. CASE Send
    BY Zenon, <1>1, <2>1, <2>3, SendTransfer, SendSearch DEF IInv
  <2>4. CASE Wait
    BY Zenon, <1>1, <2>1, <2>4, QuietTransfer, QuietSearch, IdentifiedSearch DEF IInv
  <2>5. CASE Status \/ Return \/ ScanEnd
    BY Zenon, <1>1, <2>1, <2>5, QuietTransfer, QuietSearch DEF IInv
  <2>6. CASE Data
    <3>1. op \in {"read", "write"}
      BY Zenon, <2>6 DEF IInv, Transfer, Types, Control, Data
    <3> QED BY SMTT(30), <1>1, <2>1, <2>6, <3>1, ReadTransfer, WriteTransfer, DataSearch DEF IInv
  <2>7. CASE Scan
    <3>1. part[pi].begin \in Nat /\ pc = "scan"
      BY Zenon, <2>7 DEF IInv, Partitions, Scan
    <3>2. Begin("read", 0, part[pi].begin, 1, "detect")
      BY Zenon, <2>7 DEF Scan
    <3>3. PICK b \in Nat : b = part[pi].begin
      BY Zenon, <3>1
    <3>4. Transfer'
      BY SMTT(30), <1>1, <2>1, <3>1, <3>2, <3>3, BeginTransfer
    <3> QED BY Zenon, <2>1, <2>7, <3>4, ScanSearch DEF IInv
  <2>8. CASE Detect
    BY Zenon, <1>1, <2>1, <2>8, QuietTransfer, DetectSearch DEF IInv
  <2> QED BY Zenon, <1>2, <2>2, <2>3, <2>4, <2>5, <2>6, <2>7, <2>8 DEF Driver
<1>3. CASE Interrupt
  <2>1. UNCHANGED fsize
    BY Zenon, <1>3 DEF Interrupt
  <2> QED BY Zenon, <1>1, <1>3, <2>1, InterruptTransfer, QuietSearch DEF IInv
<1>4. ASSUME NEW r \in Requests, Request(r) PROVE IInv'
  <2>1. /\ r.kind \in {"read", "write"} /\ r.minor \in Nat /\ r.offset \in Nat
        /\ r.n \in Nat \ {0}
    BY HdaAssumption
  <2>2. pc = "idle" /\ UNCHANGED fsize /\ Begin(r.kind, r.minor, r.offset, r.n, "idle")
    BY Zenon, <1>4 DEF Request
  <2>3. Transfer'
    BY Zenon, <1>1, <2>1, <2>2, BeginTransfer
  <2> QED BY Zenon, <1>4, <2>3, RequestSearch DEF IInv
<1>5. CASE UNCHANGED vars
  <2>1. UNCHANGED <<geom, chs, rready, cmd, cnt, buf, part, pc, op, i, ret, pi,
                    dev, disk, old, fsize>>
    BY Zenon, <1>5 DEF vars
  <2>2. Address(chs)' = Address(chs) /\ (Asking' <=> Asking)
    BY Zenon, <2>1 DEF Address, Asking
  <2>3. Types' /\ Control' /\ Ready'
    BY Zenon, <1>1, <2>1, <2>2 DEF Transfer, Types, Control, Ready
  <2>4. Reading'
    BY ZenonT(30), <1>1, <2>1, <2>2 DEF Transfer, Reading, Filled
  <2>5. Writing'
    BY Zenon, <1>1, <2>1, <2>2 DEF Transfer, Writing, Stored
  <2>6. Partitions'
    BY Zenon, <2>1, <2>2 DEF IInv, Partitions
  <2>7. Searching'
    BY Zenon, <2>1, <2>2 DEF IInv, Searching, Held, Found
  <2> QED BY Zenon, <2>3, <2>4, <2>5, <2>6, <2>7 DEF IInv, Transfer
<1> QED BY Zenon, <1>2, <1>3, <1>4, <1>5 DEF Next

\* The invariant of the driver and its device holds in every reachable state.
THEOREM Invariant == Spec => []IInv
<1>1. Init => IInv
  BY Zenon, InitTransfer, InitSearch DEF IInv
<1> QED BY <1>1, Inductive, PTL DEF Spec

\* hda_read returns the sectors of the disk, every word in its place, for every
\* geometry, length and order of the interrupts, and leaves the disk alone.
THEOREM ReadsReturnSectors == Spec => []ReadReturnsSectors
<1>1. IInv => ReadReturnsSectors
  <2> SUFFICES ASSUME IInv, pc = "done", op = "read"
               PROVE  /\ disk = old
                      /\ \A j \in 0 .. cnt - 1, w \in Word :
                           Target[j] \in Sector => buf[j * Words + w] = disk[Target[j]][w]
    BY Zenon DEF ReadReturnsSectors
  <2>1. disk = old /\ Filled(cnt, 0)
    BY Zenon DEF IInv, Transfer, Control, Reading
  <2> QED BY Zenon, <2>1 DEF Filled, Target
<1> QED BY <1>1, Invariant, PTL

\* hda_write has stored its words in their sectors when it returns, and no other
\* sector has changed.
THEOREM WritesStoreSectors == Spec => []WriteStoresSectors
<1>1. IInv => WriteStoresSectors
  <2> SUFFICES ASSUME IInv, pc = "done", op = "write"
               PROVE  disk = [n \in Sector |->
                                IF \E j \in 0 .. cnt - 1 : Target[j] = n
                                  THEN [w \in Word |-> buf[(n - Address(chs)) * Words + w]]
                                  ELSE old[n]]
    BY Zenon DEF WriteStoresSectors
  <2>1. Stored(cnt)
    BY Zenon DEF IInv, Transfer, Control, Writing
  <2>2. disk \in [Sector -> Block] /\ Address(chs) \in Int /\ cnt \in Nat
    BY Zenon DEF IInv, Transfer, Types
  <2>3. ASSUME NEW n \in Sector
        PROVE  (\E j \in 0 .. cnt - 1 : Target[j] = n) <=> n - Address(chs) \in 0 .. cnt - 1
    <3>1. PICK a \in Int : a = Address(chs)
      BY Zenon, <2>2
    <3>2. n \in Int /\ \A j \in 0 .. cnt - 1 : Target[j] = a + j
      BY <3>1, Sizes DEF Target
    <3>3. \A j \in 0 .. cnt - 1 : a + j = n <=> j = n - a
      BY ONLY <2>2, <3>1, <3>2
    <3> QED BY ONLY Zenon, <3>1, <3>2, <3>3
  <2> QED BY <2>1, <2>2, <2>3 DEF Stored
<1> QED BY <1>1, Invariant, PTL

\* A call whose seek was accepted stays inside the file system hda_init has
\* found at its minor number, for every layout of the disk; also when the last
\* superblock was taken for another one at the very end of the disk.
THEOREM CallsStayInPartition == Spec => StaysInPartition
<1>1. ASSUME IInv, NEW r \in Requests, Request(r), SeekOK(r.minor, r.offset),
             Offset(r.minor, r.offset) # DiskSize
      PROVE  /\ dev'.sector = Offset(r.minor, r.offset) - 1
             /\ r.minor \in 1 .. pi =>
                  LET first == part[r.minor - 1].begin - 1 IN
                  /\ first <= dev'.sector
                  /\ r.n <= 2 => dev'.sector + r.n <= first + fsize[first]
             /\ r.minor > pi => part[r.minor - 1].begin = 0 /\ r.offset = 0
  <2>1. PICK m \in Nat, o \in Nat, n \in Nat \ {0}, off \in Nat :
          m = r.minor /\ o = r.offset /\ n = r.n /\ off = Offset(m, o)
    <3>1. r.minor \in Nat /\ r.offset \in Nat /\ r.n \in Nat \ {0}
      BY SMTT(30), HdaAssumption
    <3>2. part \in [0 .. NVFSMNTS -> [begin : Nat, end : Nat]]
      BY Zenon, <1>1 DEF IInv, Partitions
    <3>3. Offset(r.minor, r.offset) \in Nat
      <4>1. PICK m \in Nat, o \in Nat : m = r.minor /\ o = r.offset
        BY Zenon, <3>1
      <4>2. m > 0 => m - 1 \in 0 .. NVFSMNTS
        BY <1>1, <4>1, Sizes DEF SeekOK
      <4> QED BY ONLY SMTT(30), <3>2, <4>1, <4>2 DEF Offset
    <3> QED BY Zenon, <3>1, <3>3
  <2>2. /\ part \in [0 .. NVFSMNTS -> [begin : Nat, end : Nat]] /\ pi \in 0 .. NVFSMNTS
        /\ pc = "idle" /\ ~Asking /\ Transfer
    BY Zenon, <1>1 DEF IInv, Partitions, Request, Asking
  <2>3. geom = Geometry /\ dev'.sector = Address(Seek(off))
    <3>1. /\ r.kind \in {"read", "write"} /\ UNCHANGED fsize
          /\ Begin(r.kind, m, o, n, "idle") /\ SeekOK(m, o)
      BY Zenon, <1>1, <2>1, HdaAssumption DEF Request
    <3> QED BY SMTT(30), <2>1, <2>2, <3>1, BeginTransfer
  <2>4. /\ off <= DiskSize /\ off # DiskSize
        /\ m > 0 => m <= NVFSMNTS /\ off <= part[m - 1].end /\ off = o + part[m - 1].begin
    BY Zenon, <1>1, <2>1, <2>3 DEF SeekOK, Offset, Geometry, DiskSize
  <2>5. dev'.sector = off - 1
    <3>1. off < DiskSize
      BY <2>4, Sizes
    <3> QED BY Zenon, <2>3, <3>1, AddressOfSeek
  <2>6. ASSUME m \in 1 .. pi
        PROVE  /\ part[m - 1].begin - 1 <= off - 1
               /\ n <= 2 => (off - 1) + n <= (part[m - 1].begin - 1) + fsize[part[m - 1].begin - 1]
    <3>1. PICK b \in Nat, e \in Nat : b = part[m - 1].begin /\ e = part[m - 1].end
      BY SMTT(30), <2>2, <2>6, Sizes
    <3>2. b >= 2 /\ \/ b < DiskSize /\ fsize[b - 1] = e
                    \/ b = DiskSize /\ e < DiskSize
      <4>1. m - 1 \in 0 .. NVFSMNTS /\ m - 1 < pi
        BY SMTT(30), <2>2, <2>6, Sizes
      <4> QED BY Zenon, <1>1, <3>1, <4>1 DEF IInv, Partitions
    <3>3. off <= e /\ off = o + b
      BY SMTT(30), <2>4, <2>6, <3>1
    <3>4. fsize[b - 1] = e
      BY ONLY SMTT(30), <2>1, <3>1, <3>2, <3>3, Sizes
    <3>5. b - 1 <= off - 1 /\ (n <= 2 => (off - 1) + n <= (b - 1) + e)
      BY ONLY <2>1, <3>1, <3>2, <3>3
    <3> QED BY ONLY Zenon, <3>1, <3>4, <3>5
  <2>7. ASSUME m > pi PROVE part[m - 1].begin = 0 /\ o = 0
    <3>1. PICK j \in 0 .. NVFSMNTS : j = m - 1 /\ j >= pi
      BY <2>2, <2>4, <2>7, Sizes
    <3>2. PICK b \in Nat, e \in Nat : b = part[j].begin /\ e = part[j].end
      BY Zenon, <2>2
    <3>3. IF j = pi THEN b >= 2 /\ e = 0 ELSE b = 0 /\ e = 0
      <4>1. /\ part[pi].begin >= 2 /\ part[pi].end = 0
            /\ j > pi => part[j].begin = 0 /\ part[j].end = 0
        BY Zenon, <1>1, <2>2 DEF IInv, Partitions
      <4>2. j = pi \/ j > pi
        BY <2>2, <3>1
      <4> QED BY Zenon, <3>2, <4>1, <4>2
    <3>4. off <= e /\ off = o + b
      BY SMTT(30), <2>2, <2>4, <2>7, <3>1, <3>2
    <3>5. b = 0 /\ o = 0
      BY ONLY SMTT(30), <2>1, <3>2, <3>3, <3>4
    <3> QED BY Zenon, <3>1, <3>2, <3>5
  <2> QED BY Zenon, <2>1, <2>5, <2>6, <2>7
<1> DEFINE Inside ==
      \A r \in Requests :
          Request(r) /\ SeekOK(r.minor, r.offset) /\ Offset(r.minor, r.offset) # DiskSize =>
          /\ dev'.sector = Offset(r.minor, r.offset) - 1
          /\ r.minor \in 1 .. pi =>
               LET first == part[r.minor - 1].begin - 1 IN
               /\ first <= dev'.sector
               /\ r.n <= 2 => dev'.sector + r.n <= first + fsize[first]
          /\ r.minor > pi => part[r.minor - 1].begin = 0 /\ r.offset = 0
<1>2. IInv => Inside
  BY Zenon, <1>1
<1> HIDE DEF Inside
<1>3. Spec => [][Inside]_vars
  BY <1>2, Invariant, PTL
<1> QED BY SMTT(30), <1>3 DEF StaysInPartition, Inside
=============================================================================
