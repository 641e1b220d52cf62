-------------------------------- MODULE Hda --------------------------------
(***************************************************************************)
(* The hard disk driver, kernel/driver/blkdev/hda.c, composed with the     *)
(* device it drives (hw/ide.c of the virtual machine in sysvm, on which    *)
(* the kernel is run) and the interrupt between them.                      *)
(*                                                                         *)
(* The driver arms rready, issues a command, spins until the interrupt     *)
(* handler sets rready and moves the data through a port, asking the       *)
(* status register before every word.  The handler hda_intr may run        *)
(* between any two of these steps.  The device raises its line at the      *)
(* beginning of every sector it has read and at the end of every sector it *)
(* has written; reading the status register lowers the line; the interrupt *)
(* controller latches a rising edge.                                       *)
(*                                                                         *)
(* hda_init asks the device for its geometry and looks for file systems.   *)
(* A file system is known by the sector its superblock is in and by its    *)
(* size in sectors.                                                        *)
(***************************************************************************)
EXTENDS Integers, Sequences

CONSTANTS
    Cyls, Heads, Sectors,   \* geometry of the disk
    Words,                  \* words of a sector
    NVFSMNTS,               \* size of hda_partition
    Layouts,                \* disks to start with: the size of the file
                            \* system that begins at a sector, or 0
    Requests                \* what is asked of the driver: kind, minor,
                            \* offset and number of sectors

DiskSize == Cyls * Heads * Sectors
Sector == 0 .. DiskSize - 1
Word == 0 .. Words - 1

ASSUME HdaAssumption ==
    /\ {Cyls, Heads, Sectors, Words, NVFSMNTS} \subseteq Nat \ {0}
    /\ Layouts \subseteq [Sector -> Nat]
    /\ Requests \subseteq [kind : {"read", "write"}, minor : Nat, offset : Nat, n : 1 .. 255]

VARIABLES
    geom, chs,           \* C, H, S and c, h, s of hda_stat
    rready, cmd, cnt,    \* the rest of hda_stat
    buf,                 \* the caller's buffer
    part,                \* hda_partition and the memory behind it
    pc, op, i, ret,      \* of the driver: next step, the command of the
                         \* call, index, return address
    pi,                  \* i of hda_init
    dev,                 \* the device: registers and transfer in progress
    line, irr,           \* its interrupt line, and the latched request
    disk, old,           \* the sectors; history: as they were at the call
    fsize                \* the layout of the disk; it never changes

vars == <<geom, chs, rready, cmd, cnt, buf, part, pc, op, i, ret, pi,
          dev, line, irr, disk, old, fsize>>

\* A word of data is known by where it comes from: a sector of the original
\* image, or a call of hda_write (-1); -2 is a buffer not filled yet, -3 the
\* device's buffer before its first use.
Blank == [w \in Word |-> <<-3, w>>]
Buffer(kind, n) ==
    [k \in 0 .. n * Words - 1 |-> <<IF kind = "write" THEN -1 ELSE -2, k>>]
NoCmd == "none"

\* hda_init has installed its handler and is about to send the first command.
Init ==
    /\ geom = <<0, 0, 0>> /\ chs = <<0, 0, 0>>
    /\ rready = FALSE /\ cmd = NoCmd /\ cnt = 0 /\ buf = Buffer("read", 1)
    /\ part = [j \in 0 .. NVFSMNTS |-> [begin |-> 0, end |-> 0]]
    /\ pc = "arm" /\ op = "identify" /\ i = 0 /\ ret = "scan" /\ pi = 0
    /\ dev = [drq |-> FALSE, nsector |-> 0, sector |-> 0, ptr |-> 0,
              io |-> Blank, what |-> "stop"]
    /\ line = FALSE /\ irr = FALSE
    /\ disk = [n \in Sector |-> [w \in Word |-> <<n, w>>]]
    /\ old = disk
    /\ fsize \in Layouts
-----------------------------------------------------------------------------
(* The device.                                                             *)

\* The line goes up; an edge is latched.
ide_set_irq == irr' = (irr \/ ~line) /\ line' = TRUE

\* Sector number n of the image; outside of it the read fails and the buffer
\* stays as it was.
Content(n) == IF n \in Sector THEN disk[n] ELSE dev.io

\* The device with the next sector in its buffer, or done.
ide_sector_read(d) ==
    IF d.nsector = 0
      THEN [d EXCEPT !.drq = FALSE, !.what = "stop", !.ptr = 0]
      ELSE [d EXCEPT !.drq = TRUE, !.what = "read", !.ptr = 0,
                     !.io = Content(d.sector),
                     !.sector = @ + 1, !.nsector = @ - 1]

\* A command is written to the command register.
ide_command(c) ==
    CASE c = "identify" ->
           /\ dev' = [dev EXCEPT !.drq = TRUE, !.what = "identify", !.ptr = 0]
           /\ ide_set_irq
      [] c = "read" ->
           /\ dev' = ide_sector_read(dev)
           /\ ide_set_irq
      [] c = "write" ->
           /\ dev' = [dev EXCEPT !.drq = TRUE, !.what = "write", !.ptr = 0]
           /\ UNCHANGED <<line, irr>>

\* A word is read from the data register; after the last one of a sector the
\* device goes on to the next sector.
ide_data_read ==
    /\ dev' = IF dev.ptr + 1 < Words THEN [dev EXCEPT !.ptr = @ + 1]
              ELSE ide_sector_read(dev)
    /\ IF dev.ptr + 1 = Words /\ dev.nsector > 0
         THEN ide_set_irq ELSE UNCHANGED <<line, irr>>
    /\ UNCHANGED disk

\* A word is written to the data register; the last one of a sector makes the
\* device store the sector (ide_sector_write).
ide_data_write(x) ==
    LET io == [dev.io EXCEPT ![dev.ptr] = x]
        more == dev.nsector > 1
    IN IF dev.ptr + 1 < Words
         THEN /\ dev' = [dev EXCEPT !.io = io, !.ptr = @ + 1]
              /\ UNCHANGED <<line, irr, disk>>
         ELSE /\ dev' = [dev EXCEPT !.io = io, !.ptr = 0, !.drq = more,
                            !.what = IF more THEN "write" ELSE "stop",
                            !.sector = @ + 1, !.nsector = @ - 1]
              /\ disk' = [n \in Sector |-> IF n = dev.sector THEN io ELSE disk[n]]
              /\ ide_set_irq

\* The status register is read: DRQ is the answer, and the line goes down.
ide_status == line' = FALSE
-----------------------------------------------------------------------------
(* hda_lseek.                                                              *)

Offset(m, o) == IF m > 0 THEN o + part[m - 1].begin ELSE o

\* Mutant: the end of the partition is not checked.
SeekOK_NoLimit(m, o) == Offset(m, o) <= geom[1] * geom[2] * geom[3]

SeekOK(m, o) ==
    /\ m > 0 => m <= NVFSMNTS /\ Offset(m, o) <= part[m - 1].end
    /\ Offset(m, o) <= geom[1] * geom[2] * geom[3]

Seek(off) == <<((off \div geom[3]) \div geom[2]) % geom[1],
               (off \div geom[3]) % geom[2],
               off % geom[3]>>

hda_lseek(m, o) == chs' = IF SeekOK(m, o) THEN Seek(Offset(m, o)) ELSE chs

\* What the device makes of the address the driver writes (ide_get_sector):
\* it counts sectors from 1, the driver from 0.
Address(a) == (a[1] * Heads + a[2]) * Sectors + a[3] - 1
-----------------------------------------------------------------------------
(* hda_read and hda_write.                                                 *)

\* Mutant: the count register is written with 1 always.
Begin_OneSector(kind, m, o, n, to) ==
    /\ hda_lseek(m, o)
    /\ op' = kind /\ cnt' = n /\ i' = 0 /\ ret' = to
    /\ buf' = Buffer(kind, n)
    /\ dev' = [dev EXCEPT !.nsector = 1, !.sector = Address(chs')]
    /\ pc' = IF kind = "read" THEN "arm" ELSE "command"
    /\ old' = disk
    /\ UNCHANGED <<geom, rready, cmd, line, irr, disk>>

\* Mutant: the count register is written with one sector too many.
Begin_OneMore(kind, m, o, n, to) ==
    /\ hda_lseek(m, o)
    /\ op' = kind /\ cnt' = n /\ i' = 0 /\ ret' = to
    /\ buf' = Buffer(kind, n)
    /\ dev' = [dev EXCEPT !.nsector = n + 1, !.sector = Address(chs')]
    /\ pc' = IF kind = "read" THEN "arm" ELSE "command"
    /\ old' = disk
    /\ UNCHANGED <<geom, rready, cmd, line, irr, disk>>

\* The caller seeks and calls; the address and count registers are written.
Begin(kind, m, o, n, to) ==
    /\ hda_lseek(m, o)
    /\ op' = kind /\ cnt' = n /\ i' = 0 /\ ret' = to
    /\ buf' = Buffer(kind, n)
    /\ dev' = [dev EXCEPT !.nsector = n, !.sector = Address(chs')]
    /\ pc' = IF kind = "read" THEN "arm" ELSE "command"
    /\ old' = disk
    /\ UNCHANGED <<geom, rready, cmd, line, irr, disk>>

\* The callers ignore the answer of the seek: after a refused one the transfer
\* takes place where the last one was.
Request(r) ==
    /\ pc = "idle"
    /\ Begin(r.kind, r.minor, r.offset, r.n, "idle")
    /\ UNCHANGED <<part, pi, fsize>>

\* rready = 0, before the command is sent.
Arm ==
    /\ pc = "arm"
    /\ rready' = FALSE
    /\ pc' = "command"
    /\ UNCHANGED <<geom, chs, cmd, cnt, buf, part, op, i, ret, pi, dev, line, irr, disk, old>>

\* hda_command, first half: hda_stat.cmd = cmd.
SetCmd ==
    /\ pc = "command"
    /\ cmd' = op
    /\ pc' = "send"
    /\ UNCHANGED <<geom, chs, rready, cnt, buf, part, op, i, ret, pi, dev, line, irr, disk, old>>

\* hda_command, second half: outportb.
Send ==
    /\ pc = "send"
    /\ ide_command(op)
    /\ pc' = IF op = "write" THEN "status" ELSE "wait"
    /\ UNCHANGED <<geom, chs, rready, cmd, cnt, buf, part, op, i, ret, pi, disk, old>>

\* while(!hda_stat.rready);
Wait ==
    /\ pc = "wait"
    /\ rready
    /\ IF op = "identify"
         THEN pc' = "scan" /\ part' = [part EXCEPT ![0].begin = 2]
         ELSE pc' = "status" /\ UNCHANGED part
    /\ UNCHANGED <<geom, chs, rready, cmd, cnt, buf, op, i, ret, pi, dev, line, irr, disk, old>>

\* while(hda_status() & 0x08); words beyond cnt are left in the device.
Status ==
    /\ pc = "status"
    /\ ide_status
    /\ pc' = IF ~dev.drq THEN "done"
             ELSE IF i < cnt * Words THEN "data" ELSE "status"
    /\ UNCHANGED <<geom, chs, rready, cmd, cnt, buf, part, op, i, ret, pi, dev, irr, disk, old>>

\* One word through the data port.
Data ==
    /\ pc = "data"
    /\ IF op = "read"
         THEN /\ buf' = [buf EXCEPT ![i] = dev.io[dev.ptr]]
              /\ ide_data_read
         ELSE /\ ide_data_write(buf[i])
              /\ UNCHANGED buf
    /\ i' = i + 1
    /\ pc' = "status"
    /\ UNCHANGED <<geom, chs, rready, cmd, cnt, part, op, ret, pi, old>>

Return ==
    /\ pc = "done"
    /\ ret = "idle"
    /\ pc' = "idle"
    /\ UNCHANGED <<geom, chs, rready, cmd, cnt, buf, part, op, i, ret, pi, dev, line, irr, disk, old>>
-----------------------------------------------------------------------------
(* hda_intr: it reads the status register; the data of an identify command *)
(* is taken from the device here.                                          *)

\* Mutant: the case of a read falls into the one of identify.
Interrupt_FallsThrough ==
    /\ irr
    /\ irr' = FALSE
    /\ ide_status
    /\ dev' = IF cmd \in {"identify", "read"}
                THEN [dev EXCEPT !.drq = FALSE, !.what = "stop", !.ptr = 0] ELSE dev
    /\ geom' = IF cmd = "identify" THEN <<Cyls, Heads, Sectors>> ELSE geom
    /\ rready' = IF cmd # NoCmd THEN TRUE ELSE rready
    /\ cmd' = NoCmd
    /\ UNCHANGED <<chs, cnt, buf, part, pc, op, i, ret, pi, disk, old, fsize>>

Interrupt ==
    /\ irr
    /\ irr' = FALSE
    /\ ide_status
    /\ IF cmd = "identify"
         THEN /\ geom' = <<Cyls, Heads, Sectors>>
              /\ dev' = [dev EXCEPT !.drq = FALSE, !.what = "stop", !.ptr = 0]
         ELSE UNCHANGED <<geom, dev>>
    /\ rready' = IF cmd # NoCmd THEN TRUE ELSE rready
    /\ cmd' = NoCmd
    /\ UNCHANGED <<chs, cnt, buf, part, pc, op, i, ret, pi, disk, old, fsize>>
-----------------------------------------------------------------------------
(* hda_init, after the device has identified itself.                       *)

\* The next round of the loop: seek to where a partition should begin and read
\* one sector, or stop.
Scan ==
    /\ pc = "scan"
    /\ pi < NVFSMNTS
    /\ SeekOK(0, part[pi].begin)
    /\ Begin("read", 0, part[pi].begin, 1, "detect")
    /\ UNCHANGED <<part, pi>>

ScanEnd ==
    /\ pc = "scan"
    /\ pi < NVFSMNTS => ~SeekOK(0, part[pi].begin)
    /\ pc' = "idle"
    /\ UNCHANGED <<geom, chs, rready, cmd, cnt, buf, part, op, i, ret, pi, dev, line, irr, disk, old>>

\* The size of the file system whose superblock is in the buffer, or 0.
SizeIn(b) == IF b[0][1] \in Sector THEN fsize[b[0][1]] ELSE 0

Detect ==
    /\ pc = "done"
    /\ ret = "detect"
    /\ IF SizeIn(buf) > 0
         THEN /\ part' = [part EXCEPT ![pi].end = SizeIn(buf),
                                      ![pi + 1].begin = SizeIn(buf) + 1]
              /\ pi' = pi + 1
              /\ pc' = "scan"
         ELSE /\ pc' = "idle"
              /\ UNCHANGED <<part, pi>>
    /\ UNCHANGED <<geom, chs, rready, cmd, cnt, buf, op, i, ret, dev, line, irr, disk, old>>
-----------------------------------------------------------------------------
Driver ==
    /\ \/ Arm \/ SetCmd \/ Send \/ Wait \/ Status \/ Data \/ Return
       \/ Scan \/ ScanEnd \/ Detect
    /\ UNCHANGED fsize

Next == Driver \/ Interrupt \/ \E r \in Requests : Request(r)

\* The processor keeps running the driver and takes a latched interrupt some
\* time (interrupts are on while the driver runs); nobody has to call it.
Spec == Init /\ [][Next]_vars /\ WF_vars(Driver) /\ WF_vars(Interrupt)
-----------------------------------------------------------------------------
(* Properties.                                                             *)

\* The sectors a call is about: the device's sector of the address the driver
\* computed, and the ones that follow.
Target == [j \in 0 .. cnt - 1 |-> Address(chs) + j]

\* hda_read returns with the wanted sectors in the caller's buffer, every word
\* in its place, and has changed nothing on the disk; whenever the interrupts
\* of this and of earlier commands arrive.
ReadReturnsSectors ==
    pc = "done" /\ op = "read" =>
        /\ disk = old
        /\ \A j \in 0 .. cnt - 1, w \in Word :
              Target[j] \in Sector => buf[j * Words + w] = disk[Target[j]][w]

\* hda_write returns only when all its words are in their sectors, although it
\* does not wait for an interrupt; all the other sectors are as they were.
WriteStoresSectors ==
    pc = "done" /\ op = "write" =>
        disk = [n \in Sector |->
                  IF \E j \in 0 .. cnt - 1 : Target[j] = n
                    THEN [w \in Word |-> buf[(n - Address(chs)) * Words + w]]
                    ELSE old[n]]

\* A call whose seek was accepted begins at the sector before its offset (the
\* driver counts cylinders, heads and sectors from 0, the device counts sectors
\* from 1), also behind the end of a track or a cylinder, unless the offset is
\* the size of the disk.  On a partition a block of one or two sectors, as mkmfs
\* makes them, is inside of the file system that was found there; where none was
\* found every seek is refused, except to offset 0 of an entry hda_init did not
\* reach.
StaysInPartition ==
    [][\A r \in Requests :
          Request(r) /\ SeekOK(r.minor, r.offset) /\ Offset(r.minor, r.offset) # DiskSize =>
          /\ dev'.sector = Offset(r.minor, r.offset) - 1
          /\ r.minor \in 1 .. pi =>
               LET first == part[r.minor - 1].begin - 1 IN
               /\ first <= dev'.sector
               /\ r.n <= 2 => dev'.sector + r.n <= first + fsize[first]
          /\ r.minor > pi => part[r.minor - 1].begin = 0 /\ r.offset = 0]_vars

\* Every call returns and hda_init ends: no interrupt the driver waits for is
\* lost between arming rready and waiting for it, and the status loops end.
CallsReturn == pc # "idle" ~> pc = "idle"
=============================================================================
