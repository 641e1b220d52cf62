# A verification of Micron System V3

Micron System V3 (`src/sysv3`) is a small i386 kernel: one address space, one
thread of control, interrupts, a disk driver, a block cache, a file system with
an image builder. This directory holds TLA+ models of its parts, the TLC runs
that check them on small instances, and TLAPS proofs for all instances.

`PROJECT.json` lists the parts, the runs, the lines of code each definition
stands for, the hazards and the theorems. This file
explains them.

## 1. The system

| Part | Code (`src/sysv3/...`) | State | Operations | Module |
|---|---|---|---|---|
| exception filters | `kernel/arch/i386/except`, `include/arch-i386/except.h` | chain of registrations in stack frames | `_try`/`_catch`, push, pop, fill_regs, get_esp | `XcptFilter` |
| sector cache | `kernel/filesys/scache.c` | buffers, allocation list, a sorted list per device | get, sync, commit, alloc, promo, insert, seek | `SCache`, `BlockStore` |
| timers | `kernel/kernel/systimer.c`, `arch/i386/cpu/clock.c` | array of timers | register, unregister, rolling (interrupt) | `SysTimer` |
| disk driver | `kernel/driver/blkdev/hda.c`, `src/sysvm/hw/ide.c` | `hda_stat`, partitions, device registers | init, lseek, read, write, intr | `Hda` |
| mount table | `kernel/filesys/mount.c`, `fs.c` | `mountab` | mount, umount, get, probe | `Mount` |
| image builder | `mkmfs` | bitmaps, inodes, data of an image | new, mkdir, write, iget, end | `Mkmfs` |
| file calls | `kernel/filesys/vfs.c`, `ofile.c` | open files, positions | open, close, lseek, read, write | `Files` |
| name space and file system | `kernel/filesys/vfs.c`, `vcache.c`, `fs/mfs.c` | tree of vnodes; inodes and their bitmap on disk | vget, mkdir, rmdir, lnode, snode, ialloc, ifree | `Names`, `NameTree` |
| screen | `kernel/arch/i386/cpu/tty.c` | position on a page | write, ioctl, from the program and from interrupts | `Tty` |
| interrupts and keyboard | `kernel/arch/i386/cpu/irq.c`, `tty.c`, `src/sysvm/hw/i8259.c`, `ps2.c`, `pckbd.c` | masks, requests, requests in service, scan codes | init, install, mask, entry, eoi, key, push, pop | `Irq` |
| clock and calendar | `kernel/arch/i386/cpu/clock.c`, `lib/time.c`, `src/sysvm/hw/mc146818rtc.c` | registers of the clock chip, system time | rtc_init, rtc_intr, mktime, gettime | `Clock` |

How they interact: a file call finds its node through the name space and its
device through the mount table, and reaches data through the sector cache. The
cache calls the disk driver through the device switch. The driver waits for the
disk interrupt, the timers run inside the clock interrupt, every interrupt comes
through the two controllers and `isr_entry`, its handlers and the main program
print on the same screen, and an exception in any of this code goes through the
filters. `mkmfs` runs on the host and makes the
image the kernel mounts.

What makes the system hard to test:

- interrupt handlers run between any two instructions of code that does not
  switch them off (disk, timers, filters, screen, masks);
- pointers into lists, frames and tables outlive what they point to (cache
  buffers that are recycled, frames that are left by an exception, mount
  entries that are reused);
- long sequences of calls after a limit is reached (full cache, full timer list,
  full image);
- boundaries: sectors counted from 0 and from 1, the end of a partition, empty
  files, periods shorter than a tick, the ends of blocks and files, leap years;
- values that mean two things: a child that is an inode number or an address, a
  date read while the chip changes it.

## 2. Modules

A definition has the name of the function it models where there is one. A
definition that is commented as a *mutant* is a changed copy of the one that
follows; it is not used by the specifications and shows that a property notices
the change. Data is abstract: a block is known by where its contents come from
and how often it was changed, a word of a sector by its sector and place.

**XcptFilter.** A frame is its depth in the stack. `Call`, `Interrupt` and
`PlainReturn` are the code around the filters; `Try`, `TryReturn`, `Exception`
and `Land` are the macro, label 1, `filter_fill_regs` and label 3. Between the
jump to label 3 and the restoring of the stack pointer an interrupt may come, so
these are two steps.

**SCache.** The pointers of `struct scache` are functions on buffer numbers, with
0 for null, and are assigned in the order of the code, so that a list that is
damaged behaves as it does in the program. The loops over lists are one step per
iteration, because whether they end is a question. The callers are the patterns
of calls in `vfs.c` and `mfs.c`: get, get and change, get and change and sync,
commit. **BlockStore** is what callers rely on: blocks that change only when a
caller changes them. `SCache!Transparent` is the refinement, with the cached copy
of a block, or else the disk's, as the abstract content.

**SysTimer.** The main program and the clock interrupt. `register_timer` is one
step, as it runs with interrupts off; the scan of `unregister_timer` is one step
per iteration, its removal one more; `timer_rolling` is one step per timer, and a
handler in it may register and unregister. No code of the repository uses timers,
so the clients are constants.

**Hda.** The driver, word by word, the device's registers and transfer, the
interrupt line, and the controller's latch. The handler may run between any two
steps. `hda_init` with its search for file systems is part of it: the seek limits
that later calls meet are those it computed.

**Mount.** The table with everything free entries keep, as the code compares
devices without looking whether an entry is used.

**Files.** The five calls on files that are runs of blocks. `read` and `write` are
one step per iteration of their loop, with counters of `Width` bits. A byte is
known by the place it was at when the call began, so that a property can say
where every byte must have gone. `oldblk`, which the code does not initialise,
holds what an earlier call left there or some other value.

**Names.** Vnodes in memory and inodes on the disk. `child` is one number, inode
or address, as in the program, and `Read` tells the two apart as the code does.
`Restart` switches the system off and on: the memory is empty, the disk is as it
was. **NameTree** is what callers rely on: a tree of names in which `mkdir` and
`rmdir` do what they say. `Names!TreeKept` is the refinement, with the tree below
the root as `vget` would find it, in memory or on disk, as the abstract tree.

**Tty.** `tty_write` in the main program and in a handler, down to each load and
store of `pos_x` and `pos_y`: the kernel is compiled without optimisation. A
handler runs to its end and prints lines; it may come anywhere in the main
program.

**Irq.** The registers of both controllers as sets of lines, the keyboard's queue
and line, the processor's interrupt flag, `pic_init`, `irq_install`, `irq_mask` as
a read and a write of the mask, `isr_entry` with the handlers of the clock and
the keyboard, and `irq_eoi`. Other devices raise and lower their lines at any
time. Spurious interrupts (7 and 15) come out of the controllers' own rules.

**Clock.** The chip advances its time and copies it to its registers in two
steps; `rtc_init` reads six registers, each twice, in between. `mktime` and
`gettime` are operators. A time is a pair of days and seconds of the day, since
TLC's integers are too small for the seconds since 1970.

**Mkmfs.** The builder for any tree of host files, in any order. The loop that
takes blocks one by one is one step per block. `owner` and `top` are history: for
which file each block was taken, and how many were.

The MC modules define the instances for TLC.

## 3. Runs

All runs but `xcpt_filters`, `mkmfs_image`, `clock_boot` and `names_tree` check for
deadlock: the kernel stops after `PANIC`, the builder ends, and the other two have
bounds on the chip's seconds and on free inodes and vnodes.

| Run | Instance | Shows |
|---|---|---|
| `xcpt_filters` | 5 frames | after any mix of calls, interrupts, exceptions and returns the processor continues the innermost live function, the chain is exactly the live `_try` functions, and label 3 restores its own stack |
| `scache_fits` | 3 buffers, 2 devices with 2 and 1 blocks, one change each | lists sorted, every call returns, the cache refines `BlockStore`, a commit leaves all changes on the device |
| `scache_recycle` | 2 buffers, 3 blocks of a device and a device without a driver | with recycling, on one device, buffers hold what they stand for, a get returns its block and `scache_sync` finds it |
| `systimer_lastfirst` | 2 slots, 3 handlers, periods around the tick of 10 ms | list right at all times, no call early or late, also not by re-entering `timer_rolling`, loops end, every timer is called |
| `hda_disk` | 2 cylinders, 2 heads, 2 sectors, 2 words | reads return and writes store exactly their sectors wherever interrupts fall, every accepted request addresses its own sector and keeps inside the file system of its partition, no wake-up is lost |
| `mount_table` | 2 entries, 4 devices, one without a file system | a mounted device is found, its entry is loaded and lasts until it is unmounted |
| `mkmfs_image` | 5 inodes, a bitmap of 5 blocks, sizes of 0 to 3 bytes in blocks of 2 | files are contiguous and keep their contents, and every path leads to its inode |
| `files_calls` | 2 descriptors, 3 files on 2 devices, blocks of 3 bytes, counters of 4 bits | transfers over several blocks move exactly their bytes; none leaves the file or runs for ever, even when its counter wraps; a position leaves its file only by an lseek that reports it |
| `names_tree` | 4 inodes, 5 vnodes, 3 paths, an empty image and one with a file and a directory | vnodes and inodes implement the abstract tree through restarts, marked inodes are the linked ones, a directory is read once |
| `tty_screen` | a page of 3 x 3 | no interleaving of the main program and handlers stores a character outside of the page |
| `irq_keyboard` | clock, keyboard, a line of each controller, one line whose mask timer handlers change; 3 key codes, queue and ring of 2 | controllers and kernel agree on masks and service, codes are printed once and in order, every code and every request is served |
| `clock_boot` | the last second of months, Februaries and Decembers from 1970 to 2069; ticks of 1/3 s, a counter of 4 bits | the time set at boot is one the chip showed, `gettime` undoes `mktime`, seconds are counted through overflows |

Where the code departs from what its comments or callers expect, the properties
say what still holds, and name the case they leave out:

- `systimer_lastfirst` unregisters in reverse order. In any other order
  `unregister_timer` copies the slot behind the last timer (`systimer.c:63`), and
  `timer_num`, the "number of timers we used." (`systimer.c:27`), counts an unused
  slot; with `LastFirst = FALSE`, TLC shows it for `UsedTimersListed`.
- `scache_fits` has as many buffers as blocks, `scache_recycle` one driven device.
  A changed buffer that is recycled is never written (`scache.c:47`), and the head
  of a list may still point at a buffer recycled for another device
  (`scache.c:63`), which a get then returns.
- `filter_fill_regs` drops one used filter only (`filter.c:63`), so an exception
  in a catch block below another catch block fires the outer filter again.
- `mkmfs_image` keeps to as many data blocks as the image has; the bound of the
  search (`mkmfs/mfs.c:348`) is larger than the image.
- A transfer that begins inside a block and crosses its end counts a whole block
  (`vfs.c:388`, `vfs.c:442`); `Regular` in `Files` leaves it out where bytes are
  compared. Only files whose last block is not full are protected from a write
  that goes on (`vfs.c:454`). `LeftoverHarmless` leaves out that an earlier call
  on another device left the same block number in `oldblk` (`vfs.c:376`).
- A removed directory that was not the first of its parent stays on the disk
  (`vfs.c:206`): `unsaved` marks it, and restarts and `MarkedLinked` are claimed
  until then.
- `TimeRight` leaves out a carry beyond the last digit of the seconds during the
  twelve reads (`clock.c:51`): the time set is then one the chip never showed.
- `hda_lseek` compares an offset with the size of the disk by `>` (`hda.c:166`): the
  size itself passes and wraps to the beginning, which a caller can meet on a file
  system longer than the geometry, and `hda_init` on one that ends there. It then
  finds the last superblock again and enters a partition that refuses every seek.
  The size of a partition lacks its beginning (`hda.c:273`), so that blocks of more
  than two sectors may reach over its end; the super block is read in one of eight
  (`fs/mfs.c:161`). An entry `hda_init` did not reach accepts offset 0.
  `StaysInPartition` names these cases.
- A code whose edge came before `pic_init` reset the controllers is printed with
  the next key; `EveryCodePrinted` is about the others.

**Why the bounds are enough.** Three buffers for the blocks of two devices that
share a block number give lists that grow at either end and can be confused (the
middle of longer lists is left to the proof of `ListsSorted`). Two
buffers for three blocks recycle at the third get and again after that, through
every state of the two links. Five frames hold a function, its handler, a call
from the catch block, and an interrupt on top of each. Two timers and three
handlers fill the list and refuse one. A disk of 2 x 2 x 2 has a carry at each
place of the address; two words per sector have a first and a last word; its file
system is missing, ends early, ends with the disk, or is longer. The
trees of five inodes have directories in directories and siblings on both sides;
the sizes are nothing, a part of a block, a whole block, and more than one; the
bitmap of `mkmfs_image` is small enough to fill. Files of two blocks,
of one full block and on another device at the same numbers give transfers that
start, end and cross at block boundaries, and counters of 4 bits wrap within one
file. Three paths over two names give siblings, a child and a name used twice; a
page of 3 x 3 has a tab beyond the line, a wrap and a scroll after a few
characters, and the proof covers the other sizes. Three codes fill the queue and
are read by one, two or three interrupts. The dates have every kind of carry.
`MaxVersion`, `MaxTicks`, `MaxNest`, `MaxKeys`, `MaxSeconds` and `MaxPos` bound
counters of the models, not of the code.

**Fairness.** `FairSpec` of `SCache`: the processor continues a call. `Hda`: it
executes the driver, and takes a latched interrupt, as interrupts are on in the
driver; nobody has to make requests. `SysTimer`: the clock goes on, the interrupt
is executed (weak fairness), and the main program, which every interrupt
disables, is executed between interrupts (strong fairness). The latter says that
a handler takes less than a tick on average. `Files`: a call continues. `Irq`: the
main program and handlers continue, and the processor does not for ever ignore an
interrupt while interrupts are on again and again (strong fairness); the clock
does not tick again before what it interrupted is done, and no other device is
required to do anything.

## 4. Proofs

The theorems hold for every value of the constants that the named assumptions
admit. Each `_proof` module extends its component; `Vfs_proof` extends `Files` and
`Mount`, and `SysTimer_proof` extends `SysTimer` and `Clock`, whose names are apart
(`MountSpec`, `ClockSpec`). A step that names `Zenon` or
`SMTT(30)` is one for which the prover's default order or time limit is not good.

- **XcptFilter_proof**: types, `RunsInnermostLive`, `ChainIsLiveTries` and
  `LandsOnOwnStack` for a stack of any depth. None is inductive: that a return
  reaches the right function depends on the saved address. `IInv` adds that every
  return address, and each copy in a registration, leads to the innermost live
  frame below its own, that handlers of interrupts have no filter, and that only
  functions with a filter are at label 3. One lemma per action.
- **SCache_proof**: `TypeOK` without any condition, so that no pointer ever leaves
  the buffers in use, by `PInv` (a non-empty cache has a begin and an end; the
  call's variables match its place). Then, as long as the blocks fit (`[]Fits`),
  `ClistsSorted`, `GetReturnsItsBlock` and `SyncFinds` by `LInv`, which adds what
  each loop knows about the part of the list it has passed. With all blocks within
  their devices as well, `BuffersHoldTheirBlock` and the refinement of `BlockStore`,
  by `DataInv`: what callers see of a block is the number of changes made to it.
  `CommitSavesChanges` needs `SaveInv`: a buffer that differs from the disk is marked
  or is the one `scache_sync` is about to write, and the buffers that
  `scache_commit` has passed do not differ.
  `[]Fits` is a hypothesis because without it the head of a list may be another
  device's buffer (section 3).
- **Tty_proof**: `StoresInPage` and `RowsBounded`, for every size of page. The position
  alone is not inductive: the main program may hold an old value of it. `Placed` is:
  it says for each place in `tty_write` how far the position, and the value loaded
  from it, can be from the page, first for the main program (`MainPlace`), then for
  the handler before and after the end of its first line (`HandlerPlace`), and what
  a handler leaves behind between two steps of the main program (`Between`). A line
  of at least three characters and a newline is what brings a row that is one
  too low back. Lemmas for the steps of each program (`MainWrites`,
  `HandlerWrites`, `Others`), and two on the remainder of a sum.
- **Vfs_proof**, the file calls: `ReadReturnsFile`, `WriteStoresFile` and `PosInFile`, for
  every set of files, block size and width of the counters. The properties speak
  of finished transfers; `IInv` says for every iteration how far one is. `Counted`
  ties the count, the index and the position together: a regular transfer has moved
  whole blocks, or nothing, when it goes on. `Reading` and `Writing` say which bytes
  have been moved so far, and `OthersKept` which blocks any write can have changed.
  `Running` holds of irregular transfers too, whose count may wrap: the buffer in
  use is of the file's device once a block has been loaded, and the position stays
  in the file. The lemmas are about positions: two
  of them are in one block when their quotients agree (`SameBlock`), and have
  different places on the device (`PlacesApart`); `Window` and one lemma per part of the
  invariant are about an iteration, `AllocFree` about the search for a free
  descriptor. The assumptions are that the blocks of a
  file are on its device and that a request and a block together do not exceed the
  counter: of the counts of 32 bits, those within a block of 2^32 are left out.
- **Vfs_proof**, the mount table: types, `GetFinds`, `MountedLoaded` and `UsedEntriesKept`.
  The strengthening is `UsedApart`: a used entry shares its device with no other
  entry, free ones included, which is why the missing test for free entries in
  `mountab_get` does no harm to mounted devices.
- **Mkmfs_proof**: `FilesContiguous` and `FilesIntact`, for any tree of host files
  and any size of image. `Contiguity` says that marked blocks are a range from 0
  and that the file being written has its upper end; `FirstFit` gives the step.
  This answers the comment "Add continuity check here, discuss: really needed??"
  (`mkmfs/mfs.c:346`): not as long as nothing is freed.
  `PathsFound`: inodes are numbered in the order they are made and put in front of
  their directory's list, so the numbers along a list fall, and no child can be
  left out (`Linked`); and the tree of inodes is that of the host files (`Hosted`), so
  that names in a directory differ. `SiblingStep` and `IgetAppend` show that the two
  walks of `mfs_iget` are defined by their next step, the first because numbers fall.
  Then a child is found because the walk passes only other names and never jumps
  over it (`ChildFound`), and a path because the shortest one that is not found would
  be one step below one that is (`TreeFound`). Both are least counterexamples
  (`LeastNat`) instead of inductions. `mfs_mkdir` itself looks up the directory with
  `mfs_iget`, so this is also why new inodes go where they belong.
- **Irq_proof**: `ControllersAgree` and `CodesInOrder`, for every assignment of lines
  and every size of queue and ring. `Exclusion` says who may run while interrupts
  are off, `Masks` what `irq_mask` holds between its read and its write, and
  `Keyboard` how the keyboard's line, its edge in the controller and its queue go
  together: a pending request means a code that is still to be read, which is why
  the handler is never called in vain. `Counting` turns the order of the codes
  into the sequence `1 .. typed`.
- **Hda_proof**: `ReadReturnsSectors`, `WriteStoresSectors` and `StaysInPartition`, for
  every geometry, size of sector, layout of file systems and set of requests.
  `Control` says that an interrupt touches the device for IDENTIFY only, and that
  `cmd` holds that command during the first call of `hda_init` only; then the
  number of sectors the device has left tells how far a transfer is (`Reading`,
  `Writing`). `Partitions` and `Searching` describe the table and what the device's
  buffer holds while `hda_init` searches: the sector asked for or, at the very end
  of the disk, still the last superblock. `AddressOfSeek` is the arithmetic:
  the cylinder, head and sector that the driver computes from an offset are, to
  the device, the sector before it. The assumption on requests is that they ask for 1
  to 255 sectors, which is what the 8 bits of the count register can say; no caller
  asks for more than eight.
- **SysTimer_proof**: `UsedTimersListed`, `NeverLate` and `NeverEarly`, for every
  number of slots and handlers, every set of periods and every length of a tick. They are
  stated for clients that unregister the last timer first (`LastFirst`): otherwise
  `systimer.c:63` copies the slot behind the last timer and they are false (section
  3). `Listed` says that the slots behind the last timer are unused,
  `Scanning` that the scan of the main program, which a handler may overtake, ends at
  the last timer or finds its own gone, and `Counters` that a counter is what the
  ticks have left of the period, less one tick for the timers that the running call
  of `timer_rolling` has not reached. That there is one such call at most follows
  from `local_irq_restore` (`Interrupts`). `TicksOfPeriod` is the arithmetic of
  periods that are not a multiple of a tick.
- **SysTimer_proof**, the clock: `SecondsByTicks`, for every date at boot, frequency and
  width of the tick counter. `Reads` says that what `rtc_init` reads are natural numbers
  whatever the chip does between two reads; `Counting` that the seconds counted, the
  ticks, the overflows of `rtc_time` and its remainder are in balance (`Balance`):
  every tick adds to one side and, at the end of a second or at an overflow, to
  the other (`CountTick`). The bounds on the number of seconds follow (`CountBounds`).

Only model-checked:

- `CallsReturn`, `EveryTimerCalled`, `EveryCodePrinted`, `EveryRequestServed`: liveness is
  beyond the prover.
- `TimeRight` and `RoundTrip`: the days of a date are a sum over months and years, and
  `gettime` finds the year by repeated division (`FindYear`); relating the two for every
  date needs induction over years, which the prover does not do.
- `TreeKept`, `MarkedLinked`, `VnodesStay`: the tree of `Names` is a recursive operator
  over lists in memory and on disk, and the prover cannot be used on a module that
  declares one. The least-counterexample argument of `PathsFound` needs numbers that
  fall along a list, which vnodes and inodes that are reused do not have.

## 5. What the models leave out

- The block size is not part of the key of the cache, and buffers have no size.
- `Hda` has a device that raises DRQ at once and never fails inside the disk; a
  slower device, for which `hda_write` does not wait, is not modelled.
- `Mkmfs` does not look at the memory behind the bitmap, over which the code's
  bound lets the search run.
- `SysTimer` takes `rtc_time` and `rtc_second` as not part of the timers; they are
  in `Clock`.
- `Names` has no mount points below the root, as the kernel mounts only the root,
  no expansion nodes, as nothing creates them, and stops before the cache of vnodes
  is full: the code then recycles nodes that are in use (`vcache.c:39`).
- Restarts of `Names` come between calls. A power failure between two writes of
  `mkdir` or `rmdir` leaves what was written; nothing repairs it.
- `Files` does not open a missing path other than with `O_CREAT` and `O_EXCL`: the
  code would use the vnode it did not find.
- An exception inside an interrupt handler that is caught by the interrupted
  function leaves interrupts off. `XcptFilter` has this behaviour, but nothing in
  the repository says what should happen, so no property is about it.
- In `fs/mfs.c`, bitmaps of more than one block (line 134) and the end of a full
  bitmap (line 102) are left out: the image has one block of each.
- The code before `hda_init` and after `hda_exit`; `hda_exit` has no caller.

Hazards without a property are in `PROJECT.json` with the reason.

## 6. Not modelled

- **Device switch** (`driver/device.c`): dispatch through tables of functions.
- **Module start-up** (`lib/module.c`, `init/main.c`): one pass over a table fixed by
  the linker, then one mount.
- **Processor set-up** (`init/`, `gdt.c`, `idt.c`, `mmu.c`, `tss.c`): tables that are
  filled once and do not change.
- **DMA** (`dma.c`): port writes that no driver uses.
- **Boot loader** (`boot.s`): calls of a BIOS that is not in the repository.
- **C library**: string functions and formatting; what `kprintf` does to the position
  on the screen is in `Tty`.
- **Virtual machine** (`src/sysvm`): a copy of QEMU, nearly all of the lines of the
  source. Its disk, interrupt controllers, keyboard and clock chip are modelled as
  far as the kernel uses them. Its translation of instructions, its other machines,
  devices and user modes are a program of their own, which the kernel does not
  depend on in any way a model of the kernel could tell.
