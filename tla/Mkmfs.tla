------------------------------- MODULE Mkmfs -------------------------------
(***************************************************************************)
(* The builder of file system images, mkmfs/mfs.c: the image is made in    *)
(* memory, one directory or file of the host after the other (packdir in   *)
(* mkmfs/main.c), and written when all are in.                             *)
(*                                                                         *)
(* Inodes and data blocks are taken from two bitmaps, first fit; nothing   *)
(* is ever freed.  A file has the blocks from i_blkentry on, i_blocks of   *)
(* them: the inode cannot say anything else, and nothing checks that the   *)
(* blocks the loop of mfs_write takes one by one are such a range.         *)
(*                                                                         *)
(* Names are model values; a path is a sequence of names.  A block of data *)
(* is known by the inode it was written for and its place in the file.     *)
(***************************************************************************)
EXTENDS Integers, Sequences

CONSTANTS
    NameSet,       \* names of host files
    Root,          \* the name of the root inode; a host file may have it too
    Sizes,         \* sizes of host files
    MFS_BLKSIZE,
    NInode,        \* bits of the inode bitmap, and inodes
    NDBit,         \* bits of the data bitmap
    NDBLK          \* data blocks of the image

Ino == 0 .. NInode - 1
Bit == 0 .. NDBit - 1

ASSUME MkmfsAssumption ==
    /\ Sizes \subseteq Nat
    /\ MFS_BLKSIZE \in Nat \ {0} /\ NInode \in Nat \ {0}
    /\ NDBit \in Nat /\ NDBLK \in Nat

NoOne == -1

VARIABLES
    ibmp, dbmp,     \* the bitmaps: the bits that are set
    inode,          \* the inode blocks: what makes the tree,
    blkentry, blocks,       \* and i_blkentry and i_blocks of the inodes
    data,           \* the data blocks
    pc,             \* "idle" between two host files, "alloc" in the loop of
                    \* mfs_write, "exit" after an error, "end" after mfs_end
    indexi, dblkr, dblki,   \* of mfs_write
    made,           \* history: the host files so far, their path and inode
    owner, top      \* history: the inode each block was taken for, and how
                    \* many blocks have been taken

vars == <<ibmp, dbmp, inode, blkentry, blocks, data, pc, indexi, dblkr, dblki, made,
          owner, top>>

Empty == [name |-> "", dir |-> FALSE, next |-> 0, parent |-> 0, child |-> 0]

\* mfs_new.
Init ==
    /\ ibmp = {0} /\ dbmp = {}
    /\ inode = [n \in Ino |-> IF n = 0 THEN [Empty EXCEPT !.name = Root, !.dir = TRUE]
                              ELSE Empty]
    /\ blkentry = [n \in Ino |-> 0] /\ blocks = [n \in Ino |-> 0]
    /\ data = [b \in 0 .. NDBLK - 1 |-> <<NoOne, 0>>]
    /\ pc = "idle" /\ indexi = 0 /\ dblkr = 0 /\ dblki = 0
    /\ made = {[path |-> <<>>, ino |-> 0, dir |-> TRUE]}
    /\ owner = [b \in Bit |-> NoOne] /\ top = 0
-----------------------------------------------------------------------------
\* mfs_seekbmp answers i: the first bit that is clear, -1 if there is none.
\* For the data bitmap the caller's limit is far beyond the end of the bitmap;
\* the memory that follows it is not looked at here.
mfs_seekbmp(bmp, nbits, i) ==
    \/ /\ i \in 0 .. nbits - 1 /\ i \notin bmp
       /\ \A j \in 0 .. i - 1 : j \in bmp
    \/ /\ i = -1
       /\ 0 .. nbits - 1 \subseteq bmp

\* Along the list of siblings from i to the one with the name; 0 is the end.
Sibling(name, i) ==
    LET Find[k \in Ino] ==
          IF k = 0 \/ inode[k].name = name THEN k ELSE Find[inode[k].next]
    IN Find[i]

\* One name of the path: the inode, or -1.
Down(i, name) ==
    LET k == Sibling(name, inode[i].child)
    IN IF inode[k].name = name THEN k ELSE -1

\* Down the path from the root.
mfs_iget(path) ==
    LET At[n \in 0 .. Len(path)] == IF n = 0 THEN 0 ELSE Down(At[n - 1], path[n])
    IN At[Len(path)]

\* Mutant: the new inode forgets the children that were there.
Enter_NoNext(i, pathi, name, dir, n) ==
    /\ ibmp' = ibmp \cup {i}
    /\ inode' = [inode EXCEPT
          ![i] = [name |-> name, dir |-> dir, next |-> 0,
                  parent |-> pathi, child |-> 0],
          ![pathi].child = i]
    /\ blocks' = [blocks EXCEPT ![i] = n]

\* The inode i is filled in and put in front of the children of pathi.
Enter(i, pathi, name, dir, n) ==
    /\ ibmp' = ibmp \cup {i}
    /\ inode' = [inode EXCEPT
          ![i] = [name |-> name, dir |-> dir, next |-> inode[pathi].child,
                  parent |-> pathi, child |-> 0],
          ![pathi].child = i]
    /\ blocks' = [blocks EXCEPT ![i] = n]

\* "Out of inode" or "Out of data block".
Exit ==
    /\ pc' = "exit"
    /\ UNCHANGED <<ibmp, dbmp, inode, blkentry, blocks, data, indexi, dblkr, dblki, made,
                   owner, top>>

\* packdir comes to a name in a host directory whose path is parent.path; it
\* goes depth first, here the host files come in any order.
New(parent, name) ==
    /\ pc = "idle"
    /\ parent \in made /\ parent.dir
    /\ \A r \in made : r.path # Append(parent.path, name)

Made(parent, name, i, dir) ==
    made' = made \cup {[path |-> Append(parent.path, name), ino |-> i, dir |-> dir]}

mfs_mkdir(parent, name) ==
    /\ New(parent, name)
    /\ \E i \in Ino \cup {-1} :
         LET pathi == mfs_iget(parent.path) IN
         /\ mfs_seekbmp(ibmp, NInode, i)
         /\ IF pathi = -1 \/ i = -1 THEN Exit
            ELSE /\ Enter(i, pathi, name, TRUE, 0)
                 /\ blkentry' = [blkentry EXCEPT ![i] = 0]
                 /\ Made(parent, name, i, TRUE)
                 /\ UNCHANGED <<dbmp, data, pc, indexi, dblkr, dblki, owner, top>>

Blocks(size) == (size \div MFS_BLKSIZE) + (IF size % MFS_BLKSIZE # 0 THEN 1 ELSE 0)

\* mfs_write, up to the allocation of blocks.
mfs_write(parent, name, size) ==
    /\ New(parent, name)
    /\ \E i \in Ino \cup {-1} :
         LET pathi == mfs_iget(parent.path) IN
         /\ mfs_seekbmp(ibmp, NInode, i)
         /\ IF pathi = -1 \/ i = -1 \/ ~inode[pathi].dir THEN Exit
            ELSE /\ Enter(i, pathi, name, FALSE, Blocks(size))
                 /\ Made(parent, name, i, FALSE)
                 /\ pc' = "alloc"
                 /\ indexi' = i /\ dblkr' = Blocks(size) /\ dblki' = 0
                 /\ UNCHANGED <<dbmp, blkentry, data, owner, top>>

\* Mutant: the search starts at a later bit than the first free one, so that
\* the blocks of a file are not a range.
Allocate_Any ==
    /\ pc = "alloc" /\ dblkr > 0
    /\ \E b \in Bit \ dbmp :
         /\ dbmp' = dbmp \cup {b}
         /\ dblki' = b /\ dblkr' = dblkr - 1
         /\ owner' = [owner EXCEPT ![b] = indexi] /\ top' = top + 1
         /\ UNCHANGED <<ibmp, inode, blkentry, blocks, data, pc, indexi, made>>

\* Mutant: the block is not marked.
Allocate_NotMarked ==
    /\ pc = "alloc" /\ dblkr > 0
    /\ \E b \in Bit :
         /\ mfs_seekbmp(dbmp, NDBit, b)
         /\ dblki' = b /\ dblkr' = dblkr - 1
         /\ owner' = [owner EXCEPT ![b] = indexi] /\ top' = top + 1
         /\ UNCHANGED <<ibmp, dbmp, inode, blkentry, blocks, data, pc, indexi, made>>

\* while(dblkr--): one block.
Allocate ==
    /\ pc = "alloc" /\ dblkr > 0
    /\ \E b \in Bit \cup {-1} :
         /\ mfs_seekbmp(dbmp, NDBit, b)
         /\ IF b = -1 THEN Exit
            ELSE /\ dbmp' = dbmp \cup {b}
                 /\ dblki' = b /\ dblkr' = dblkr - 1
                 /\ owner' = [owner EXCEPT ![b] = indexi] /\ top' = top + 1
                 /\ UNCHANGED <<ibmp, inode, blkentry, blocks, data, pc, indexi, made>>

\* The first block is computed from the last one taken; the data is copied to
\* the blocks of the image.
Finish ==
    /\ pc = "alloc" /\ dblkr = 0
    /\ LET n == blocks[indexi]
           entry == dblki - n + 1
       IN /\ blkentry' = [blkentry EXCEPT ![indexi] = entry]
          /\ data' = [b \in DOMAIN data |-> IF b \in entry .. entry + n - 1
                                              THEN <<indexi, b - entry>> ELSE data[b]]
    /\ pc' = "idle"
    /\ UNCHANGED <<ibmp, dbmp, inode, blocks, indexi, dblkr, dblki, made, owner, top>>

mfs_end ==
    /\ pc = "idle"
    /\ pc' = "end"
    /\ UNCHANGED <<ibmp, dbmp, inode, blkentry, blocks, data, indexi, dblkr, dblki, made,
                   owner, top>>

Next ==
    \/ \E parent \in made, name \in NameSet :
         mfs_mkdir(parent, name) \/ \E size \in Sizes : mfs_write(parent, name, size)
    \/ Allocate \/ Finish \/ mfs_end

Spec == Init /\ [][Next]_vars
-----------------------------------------------------------------------------
(* Properties.                                                             *)

\* The files that are complete.
Complete == {f \in ibmp : ~(pc \in {"alloc", "exit"} /\ f = indexi)}
FileBlocks(f) == blkentry[f] .. blkentry[f] + blocks[f] - 1

\* "Add continuity check here, discuss: really needed??" (mkmfs/mfs.c:346): it is not.
\* The blocks that were taken one by one for a file are exactly those its inode
\* says, from i_blkentry on, and so no two files share one.
FilesContiguous == \A f \in Complete : {b \in Bit : owner[b] = f} = FileBlocks(f)

\* The image has the contents of every file, as far as it has the blocks; no
\* later file has overwritten them.
FilesIntact ==
    \A f \in Complete : \A b \in FileBlocks(f) \cap DOMAIN data :
        data[b] = <<f, b - blkentry[f]>>

\* mfs_iget finds every directory and file that was made under its path, and
\* nothing else: the list of siblings survives what is put in front of it.
PathsFound == \A r \in made : mfs_iget(r.path) = r.ino

\* Why FilesContiguous holds, inductively: first fit without freeing keeps
\* the marked blocks a range from 0, and the file being written has its end.
Contiguity ==
    /\ ibmp \subseteq Ino
    /\ blkentry \in [Ino -> Int] /\ blocks \in [Ino -> Nat]
    /\ owner \in [Bit -> ibmp \cup {NoOne}]
    /\ DOMAIN data = 0 .. NDBLK - 1
    /\ indexi \in Ino /\ dblkr \in Nat /\ dblki \in Int
    /\ top \in 0 .. NDBit /\ dbmp = 0 .. top - 1
    /\ \A b \in Bit : owner[b] # NoOne <=> b < top
    /\ pc = "alloc" =>
         LET n == blocks[indexi] - dblkr
         IN /\ indexi \in ibmp /\ n \in 0 .. top
            /\ \A b \in Bit : owner[b] = indexi <=> (top - n <= b /\ b < top)
            /\ n > 0 => dblki = top - 1
    /\ \A f \in Complete :
         /\ FileBlocks(f) \subseteq Bit
         /\ \A b \in Bit : owner[b] = f <=> b \in FileBlocks(f)
    /\ FilesIntact

\* An inode as far as it makes the tree.
Node == [name : NameSet \cup {Root, ""}, dir : BOOLEAN, next : Ino, parent : Ino, child : Ino]

\* Why PathsFound holds, inductively.  The tree of inodes: they are taken in the
\* order of their numbers, so that the children of a directory are linked from
\* the highest to the lowest, none left out.
Linked ==
    /\ \E n \in 1 .. NInode : ibmp = 0 .. n - 1
    /\ inode \in [Ino -> Node]
    /\ \A k \in Ino \ {0} : inode[k].next < k
    /\ \A k \in ibmp \ {0} :
         /\ inode[k].parent \in ibmp /\ k <= inode[inode[k].parent].child
         /\ inode[k].next # 0 => inode[inode[k].next].parent = inode[k].parent
    /\ \A k \in ibmp : inode[k].child # 0 =>
         inode[k].child \in ibmp /\ inode[inode[k].child].parent = k
    /\ \A j, k \in ibmp \ {0} :
         inode[j].parent = inode[k].parent /\ j < k => j <= inode[k].next

\* Every inode is that of one host file, under the path of its parent.
Hosted ==
    /\ \A k \in ibmp : \E r \in made : r.ino = k
    /\ \A r \in made : r.ino \in ibmp /\ r.path \in Seq(NameSet)
    /\ \A q, r \in made : q.path = r.path \/ q.ino = r.ino => q = r
    /\ \A r \in made :
         IF r.ino = 0 THEN r.path = <<>>
         ELSE \E q \in made : /\ q.ino = inode[r.ino].parent
                              /\ r.path = Append(q.path, inode[r.ino].name)
=============================================================================
