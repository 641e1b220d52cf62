------------------------------- MODULE Names -------------------------------
(***************************************************************************)
(* The name space: vget, mkdir and rmdir of kernel/filesys/vfs.c, the      *)
(* nodes of vcache.c, and the inodes of the Micron file system,            *)
(* fs/mfs.c, on the root device.                                           *)
(*                                                                         *)
(* Directories are read when a path leads through them, and stay in        *)
(* memory.  child of a vnode is the address of a vnode once the directory  *)
(* has been read, before that the number of an inode: vget and mfs_snode   *)
(* tell them apart by whether child->parent is the vnode itself.  As in    *)
(* the program both are numbers, addresses beyond those of inodes, and 0   *)
(* is none.                                                                *)
(*                                                                         *)
(* mfs_get and mfs_put go through the sector cache, which every change is  *)
(* written through (SCache), so an inode here is the one on the device.    *)
(* Nothing creates expansion nodes, and no file system is mounted on a     *)
(* directory: the root is the only one the kernel mounts.  The parent      *)
(* field of an inode is written and never read; it is left out.            *)
(***************************************************************************)
EXTENDS Integers, Sequences, FiniteSets

CONSTANTS
    Path,        \* the paths used, without the leading /: sequences of names
    Images,      \* file systems at the beginning: inodes and bitmap
    NInode,      \* number of inodes; bound: mkdir is called while one is free
    NVCHCNTS     \* number of vnodes; bound: calls are made while there are some

Ino == 0 .. NInode - 1
Root == NInode                      \* address of mountab[0].root
Vnode == Root + 1 .. Root + NVCHCNTS

VARIABLES
    inode, ibmp,   \* the inodes and, as a set, their bitmap
    vnode, cnt,    \* mountab[0].root and the vcache, and how many of it are used
    unsaved,       \* a directory has been removed without saving its parent
    removed        \* history: the vnodes of removed directories

vars == <<inode, ibmp, vnode, cnt, unsaved, removed>>

NoNode == [ino |-> 0, name |-> "", dir |-> FALSE, parent |-> 0, child |-> 0, next |-> 0]

\* The memory after booting.
Fresh == [a \in {Root} \union Vnode |-> NoNode]

Init ==
    /\ \E image \in Images : inode = image.inode /\ ibmp = image.ibmp
    /\ vnode = Fresh /\ cnt = 0 /\ removed = {}
    /\ unsaved = FALSE

\* The system is switched off and on between two calls.
Restart ==
    /\ ~unsaved
    /\ vnode' = Fresh /\ cnt' = 0 /\ removed' = {}
    /\ UNCHANGED <<inode, ibmp, unsaved>>
-----------------------------------------------------------------------------
(* Reading directories.  mem is the vnodes and their count: calls read     *)
(* several directories one after the other.                                *)

\* The inodes of a list that begins with ino.
RECURSIVE Chain(_)
Chain(ino) == IF ino = 0 THEN <<>> ELSE <<ino>> \o Chain(inode[ino].next)

\* The vnodes of a list that begins with address a.
RECURSIVE List(_, _)
List(v, a) == IF a = 0 THEN <<>> ELSE <<a>> \o List(v, v[a].next)

\* mfs_lnode: new vnodes for all children.
mfs_lnode(mem, a) ==
    LET kids == Chain(inode[mem.vnode[a].ino].child)
        n == Len(kids)
        first == Root + mem.cnt + 1
        node(k) == [ino |-> kids[k], name |-> inode[kids[k]].name,
                    dir |-> inode[kids[k]].dir, parent |-> a,
                    child |-> inode[kids[k]].child,
                    next |-> IF k = n THEN 0 ELSE first + k]
    IN [vnode |-> [b \in DOMAIN mem.vnode |->
                     CASE b \in first .. first + n - 1 -> node(b - first + 1)
                       [] b = a -> [mem.vnode[a] EXCEPT !.child = IF n = 0 THEN 0 ELSE first]
                       [] OTHER -> mem.vnode[b]],
        cnt |-> mem.cnt + n]

\* child->parent == vp; what is at the address of an inode number is no vnode's.
Read(v, a) == v[a].child \in Vnode /\ v[v[a].child].parent = a

\* Mutant: a directory is read every time.
Prepare_Always(mem, a) == mfs_lnode(mem, a)

Prepare(mem, a) == IF Read(mem.vnode, a) THEN mem ELSE mfs_lnode(mem, a)

\* The first child of a with the name; 0 if there is none.
Child(v, a, name) ==
    LET named == SelectSeq(List(v, v[a].child), LAMBDA b : v[b].name = name)
    IN IF named = <<>> THEN 0 ELSE Head(named)

\* The vcache has room.
Enough(mem) == mem.cnt <= NVCHCNTS

\* vget from vnode a: the memory afterwards and the vnode found, or 0.
RECURSIVE vget(_, _, _, _)
vget(mem, a, path, parent) ==
    LET m == Prepare(mem, a)
    IN IF ~Enough(m) THEN [mem |-> m, vp |-> 0]
       ELSE IF path = <<>> \/ (parent /\ Len(path) = 1)
         THEN [mem |-> m, vp |-> a]
         ELSE LET b == Child(m.vnode, a, Head(path))
              IN IF b = 0 THEN [mem |-> m, vp |-> 0]
                 ELSE vget(m, b, Tail(path), parent)

Memory == [vnode |-> vnode, cnt |-> cnt]
-----------------------------------------------------------------------------
(* Saving.                                                                 *)

\* Mutant: the mode is not saved.
InodeOf_NoMode(v, a) ==
    [name |-> v[a].name, dir |-> FALSE,
     next |-> IF v[a].next = 0 THEN 0 ELSE v[v[a].next].ino,
     child |-> IF Read(v, a) THEN v[v[a].child].ino ELSE v[a].child]

\* An inode with the fields of vnode a.
InodeOf(v, a) ==
    [name |-> v[a].name, dir |-> v[a].dir,
     next |-> IF v[a].next = 0 THEN 0 ELSE v[v[a].next].ino,
     child |-> IF Read(v, a) THEN v[v[a].child].ino ELSE v[a].child]

\* mfs_snode: the node and its children.
mfs_snode(v, a) ==
    LET nodes == <<a>> \o List(v, v[a].child)
        Saved(ino) == {k \in DOMAIN nodes : v[nodes[k]].ino = ino}
    IN [ino \in Ino |->
          IF Saved(ino) = {} THEN inode[ino]
          ELSE InodeOf(v, nodes[CHOOSE k \in Saved(ino) : \A j \in Saved(ino) : j <= k])]
-----------------------------------------------------------------------------
(* The calls.                                                              *)

\* Other calls that look up a path.
Lookup(path) ==
    LET got == vget(Memory, Root, path, FALSE)
    IN /\ Enough(got.mem)
       /\ vnode' = got.mem.vnode /\ cnt' = got.mem.cnt
       /\ UNCHANGED <<inode, ibmp, unsaved, removed>>

\* mfs_ialloc takes the first free inode.
FirstFree == CHOOSE ino \in Ino \ ibmp : \A other \in Ino \ ibmp : ino <= other

\* A name that is there already is made again, before the other.
mkdir(path) ==
    LET got == vget(Memory, Root, path, TRUE)
        a == got.vp
        np == Root + got.mem.cnt + 1
        v == [got.mem.vnode EXCEPT
                ![np] = [ino |-> FirstFree, name |-> path[Len(path)], dir |-> TRUE,
                         parent |-> a, child |-> 0, next |-> got.mem.vnode[a].child],
                ![a].child = np]
    IN \/ /\ Enough(got.mem) /\ a = 0
          /\ vnode' = got.mem.vnode /\ cnt' = got.mem.cnt
          /\ UNCHANGED <<inode, ibmp, unsaved, removed>>
       \/ /\ got.mem.cnt < NVCHCNTS /\ a # 0 /\ ibmp # Ino
          /\ ibmp' = ibmp \union {FirstFree}
          /\ vnode' = v /\ cnt' = got.mem.cnt + 1
          /\ inode' = mfs_snode(v, a)
          /\ UNCHANGED <<unsaved, removed>>

\* Mutant: the inode is not released.
mfs_ifree_Not(ino) == ibmp' = ibmp

mfs_ifree(ino) == ibmp' = ibmp \ {ino}

\* The vnodes with b taken out of the children of its parent.
Unlink(v, b) ==
    LET up == v[b].parent
        kids == List(v, v[up].child)
    IN IF v[up].child = b THEN [v EXCEPT ![up].child = v[b].next]
       ELSE [a \in DOMAIN v |-> IF v[a].next = b /\ \E k \in DOMAIN kids : kids[k] = a
                                  THEN [v[a] EXCEPT !.next = v[b].next] ELSE v[a]]

\* Called for a path that exists.  Unless the directory is the first of its
\* parent, the loop that unlinks it leaves a null pointer as the node to save,
\* and the parent is not saved.
rmdir(path) ==
    LET got == vget(Memory, Root, path, FALSE)
        b == got.vp
        v == got.mem.vnode
        up == v[b].parent
    IN /\ Enough(got.mem) /\ b # 0
       /\ cnt' = got.mem.cnt
       /\ \/ /\ ~v[b].dir \/ v[b].child # 0
             /\ vnode' = v
             /\ UNCHANGED <<inode, ibmp, unsaved, removed>>
          \/ /\ v[b].dir /\ v[b].child = 0
             /\ vnode' = Unlink(v, b)
             /\ mfs_ifree(v[b].ino)
             /\ IF v[up].child = b
                  THEN inode' = mfs_snode(vnode', up) /\ UNCHANGED unsaved
                  ELSE unsaved' = TRUE /\ UNCHANGED inode
             /\ removed' = removed \union {b}

Next ==
    \/ \E path \in Path : Lookup(path) \/ mkdir(path) \/ rmdir(path)
    \/ Restart

Spec == Init /\ [][Next]_vars
-----------------------------------------------------------------------------
(* Properties.                                                             *)

\* The tree below an inode, and below a vnode as vget finds it.
RECURSIVE OnDisk(_)
OnDisk(ino) ==
    LET kids == Chain(inode[ino].child)
    IN [k \in DOMAIN kids |-> [name |-> inode[kids[k]].name, dir |-> inode[kids[k]].dir,
                               kids |-> OnDisk(kids[k])]]

RECURSIVE InMemory(_)
InMemory(a) ==
    IF ~Read(vnode, a) THEN OnDisk(vnode[a].ino)
    ELSE LET kids == List(vnode, vnode[a].child)
         IN [k \in DOMAIN kids |-> [name |-> vnode[kids[k]].name, dir |-> vnode[kids[k]].dir,
                                    kids |-> InMemory(kids[k])]]

Tree == INSTANCE NameTree WITH tree <- InMemory(Root)

\* The tree changes by what mkdir and rmdir are asked for and by nothing else:
\* not by reading directories into memory, and not by a restart, after which
\* everything is read from the device again.
TreeKept == Tree!Spec

\* The inodes linked below an inode; a list, with repetitions.
RECURSIVE Below(_)
Below(ino) ==
    LET kids == Chain(inode[ino].child)
        RECURSIVE All(_)
        All(s) == IF s = <<>> THEN <<>> ELSE <<Head(s)>> \o Below(Head(s)) \o All(Tail(s))
    IN All(kids)

\* On the device, the inodes marked in the bitmap are the root and those that
\* are linked to it, each of them once: none is lost and none can be given to
\* two directories.
MarkedLinked ==
    ~unsaved => LET all == <<0>> \o Below(0)
                IN /\ {all[k] : k \in DOMAIN all} = ibmp
                   /\ Len(all) = Cardinality(ibmp)

\* The vnodes of the tree in memory.
RECURSIVE Reached(_)
Reached(a) ==
    {a} \union IF ~Read(vnode, a) THEN {}
               ELSE LET kids == List(vnode, vnode[a].child)
                    IN UNION {Reached(kids[k]) : k \in DOMAIN kids}

\* A vnode stays the one of its file until it is removed: descriptors keep its
\* address.  No directory is read a second time into other vnodes.
VnodesStay == Reached(Root) = ({Root} \union {a \in Vnode : a <= Root + cnt}) \ removed
=============================================================================
