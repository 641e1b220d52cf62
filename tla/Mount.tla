------------------------------- MODULE Mount -------------------------------
(***************************************************************************)
(* The mount table, kernel/filesys/mount.c, with the probing of file       *)
(* systems in fs.c.                                                        *)
(*                                                                         *)
(* An entry is free when its stat is 0; the rest of it stays as it was, so *)
(* the table also holds what unmounted devices and failed mounts left.     *)
(* What is on a device does not change: Mfs has those that fs_probe knows. *)
(* A super block is known by the device it was loaded from.                *)
(***************************************************************************)
EXTENDS Integers

CONSTANTS
    NVFSMNTS,    \* size of mountab
    Device,      \* devices; 0 is one of them
    Ino,         \* inodes a file system can be mounted on; not the root's, 0
    Mfs          \* the devices fs_probe recognises

Slot == 0 .. NVFSMNTS - 1
Host == Device \X (Ino \cup {0})

ASSUME MountAssumption ==
    /\ NVFSMNTS \in Nat \ {0}
    /\ 0 \in Device /\ Device \subseteq Nat /\ Ino \subseteq Nat \ {0} /\ Mfs \subseteq Device

NoEntry == -1
NotLoaded == -1

VARIABLES
    mountab,   \* per entry: stat, root.dev, host, fs and sblk
    answer     \* history: the last call, its device and its result

mount_vars == <<mountab, answer>>

MountInit ==
    /\ mountab = [i \in Slot |-> [stat |-> 0, dev |-> 0, host |-> <<0, 0>>,
                                  fs |-> 0, sblk |-> NotLoaded]]
    /\ answer = [call |-> "none", dev |-> 0, result |-> 0]
-----------------------------------------------------------------------------
\* Free entries are not told from used ones.
mountab_get(dev) ==
    IF \E i \in Slot : mountab[i].dev = dev
      THEN CHOOSE i \in Slot : /\ mountab[i].dev = dev
                               /\ \A j \in Slot : j < i => mountab[j].dev # dev
      ELSE NoEntry

\* The result of fs_probe: the only file system, or unknown.
fs_probe(dev) == IF dev \in Mfs THEN 0 ELSE -1

Answer(call, dev, result) ==
    answer' = [call |-> call, dev |-> dev, result |-> result]

AlreadyThere(dev) == \E i \in Slot : mountab[i].dev = dev

\* Mutant: the entry is marked as used first.
SetUp_StatFirst(i, host, dev) ==
    mountab' = [mountab EXCEPT ![i] =
        IF fs_probe(dev) = -1
          THEN [@ EXCEPT !.stat = 1, !.dev = dev, !.host = host, !.fs = -1]
          ELSE [stat |-> 1, dev |-> dev, host |-> host, fs |-> fs_probe(dev),
                sblk |-> dev]]

\* Entry i set up for dev; it becomes used when the file system is known.
SetUp(i, host, dev) ==
    mountab' = [mountab EXCEPT ![i] =
        IF fs_probe(dev) = -1
          THEN [@ EXCEPT !.dev = dev, !.host = host, !.fs = -1]
          ELSE [stat |-> 1, dev |-> dev, host |-> host, fs |-> fs_probe(dev),
                sblk |-> dev]]

\* Mutant: the last entry is taken when none is free.
FirstFree_OrLast(i) ==
    /\ mountab[i].stat = 0 \/ i = NVFSMNTS - 1
    /\ \A j \in Slot : j < i => mountab[j].stat # 0

FirstFree(i) == mountab[i].stat = 0 /\ \A j \in Slot : j < i => mountab[j].stat # 0

\* Mutant: the same device may be mounted again.
mountab_mount_Again(host, dev) ==
    \/ /\ \A i \in Slot : mountab[i].stat # 0
       /\ Answer("mount", dev, -1)
       /\ UNCHANGED mountab
    \/ /\ \E i \in Slot : FirstFree(i) /\ SetUp(i, host, dev)
       /\ Answer("mount", dev, fs_probe(dev))

mountab_mount(host, dev) ==
    \/ /\ AlreadyThere(dev) \/ \A i \in Slot : mountab[i].stat # 0
       /\ Answer("mount", dev, -1)
       /\ UNCHANGED mountab
    \/ /\ ~AlreadyThere(dev)
       /\ \E i \in Slot : FirstFree(i) /\ SetUp(i, host, dev)
       /\ Answer("mount", dev, fs_probe(dev))

Mounted(i, dev) == mountab[i].stat # 0 /\ mountab[i].dev = dev

mountab_umount(dev) ==
    \/ /\ \A i \in Slot : ~Mounted(i, dev)
       /\ Answer("umount", dev, -1)
       /\ UNCHANGED mountab
    \/ \E i \in Slot :
         /\ Mounted(i, dev) /\ \A j \in Slot : j < i => ~Mounted(j, dev)
         /\ mountab' = [mountab EXCEPT ![i].stat = 0]
         /\ Answer("umount", dev, 0)

MountNext ==
    \/ \E host \in Host, dev \in Device : mountab_mount(host, dev)
    \/ \E dev \in Device : mountab_umount(dev)

MountSpec == MountInit /\ [][MountNext]_mount_vars
-----------------------------------------------------------------------------
(* Properties.                                                             *)

\* Every variable has its type.
TypeOK ==
    /\ mountab \in [Slot -> [stat : {0, 1}, dev : Device, host : Host, fs : {-1, 0},
                             sblk : Device \cup {NotLoaded}]]
    /\ answer \in [call : {"none", "mount", "umount"},
                   dev : Device, result : {-1, 0}]

\* No entry, used or left over, hides a used one: mountab_get finds the entry
\* of every mounted device, so a device is mounted only once.
GetFinds == \A i \in Slot : mountab[i].stat = 1 => mountab_get(mountab[i].dev) = i

\* A used entry belongs to a device that fs_probe knows and has the super block
\* of that device and no other, also when the entry was used before or a mount
\* failed in it.
MountedLoaded ==
    \A i \in Slot : mountab[i].stat = 1 =>
        mountab[i].dev \in Mfs /\ mountab[i].fs = 0 /\ mountab[i].sblk = mountab[i].dev

UsedKept ==
    \A i \in Slot : mountab[i].stat = 1 /\ mountab'[i] # mountab[i] =>
        /\ answer'.call = "umount" /\ answer'.dev = mountab[i].dev
        /\ mountab'[i] = [mountab[i] EXCEPT !.stat = 0]

\* Only unmounting its device changes a used entry; a mount that fails half-way
\* never does.
UsedEntriesKept == [][UsedKept]_mount_vars
=============================================================================
