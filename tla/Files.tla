------------------------------- MODULE Files -------------------------------
(***************************************************************************)
(* The file calls open, close, lseek, read and write of                    *)
(* kernel/filesys/vfs.c and the table of open files, ofile.c.              *)
(*                                                                         *)
(* A file is one run of blocks.  read and write move one block per         *)
(* iteration of their loop, which is one step here.  The blocks are those  *)
(* of the sector cache, which behaves like the disk as long as what is     *)
(* used fits into it (SCache).  The name space finds the file of a path;   *)
(* here a path is the file it leads to, or Missing.                        *)
(*                                                                         *)
(* The calls never look at the bytes they move.  A byte is known by where  *)
(* it was when the current call began: <<dev, blk, k>> for byte k of a     *)
(* block, or <<j>> for byte j of the buffer.                               *)
(***************************************************************************)
EXTENDS Integers, Sequences

CONSTANTS
    File, Missing,      \* the paths: files that exist, and one that does not
    dev, blkentry,      \* per file: its device, its first data block,
    size, mode,         \* its size and what its owner may do
    daddr,              \* per device: the block its data blocks begin at
    Blk,                \* the blocks of a device
    blksize,
    NMXOFILE,           \* size of ofile
    Oflag,              \* the flags files are opened with
    Offset,             \* the offsets lseek is called with
    MaxPos,             \* bound: lseek does not go further
    Nbyte,              \* the lengths read and write are called with
    Width               \* size_t has Width bits

Dev == {dev[f] : f \in File}
Modulus == 2^Width

\* Every block of a file is one of its device, and no transfer is so long that
\* its count overflows when the displacement is added.
ASSUME FilesAssumption ==
    /\ Missing \notin File
    /\ blksize \in Nat \ {0} /\ NMXOFILE \in Nat \ {0}
    /\ size \in [File -> Nat] /\ Offset \subseteq Int
    /\ Modulus \in Nat /\ blksize < Modulus
    /\ Nbyte \subseteq Nat /\ \A n \in Nbyte : n + blksize <= Modulus
    /\ blkentry \in [File -> Nat] /\ daddr \in [Dev -> Nat]
    /\ \A f \in File : \A p \in 0 .. size[f] - 1 :
         daddr[dev[f]] + blkentry[f] + p \div blksize \in Blk
    /\ mode \in [File -> SUBSET {"RD", "WR"}]
    /\ Oflag \subseteq SUBSET {"RD", "WR", "CREAT", "EXCL", "APPEND", "TRUNC"}

VARIABLES
    ofile,     \* per descriptor: node (NULL when free) and pos
    ret,       \* whether the last call failed (-1) or not (0)
    pc, fildes, nbyte,
    xfer, i,   \* of read and write
    oldblk,    \* the block last used by a loop, with the device of its
               \* buffer; read and write do not initialise oldblk and scp and
               \* find what an earlier call left in the same place
    block,     \* the bytes of every block
    buf,       \* the caller's buffer and what follows it in memory
    pos0, old0 \* history: pos and oldblk at the beginning of the call

vars == <<ofile, ret, pc, fildes, nbyte, xfer, i, oldblk, block, buf, pos0, old0>>
transfer == <<pc, fildes, nbyte, xfer, i, block, buf, pos0, old0>>

NULL == Missing
Fd == 1 .. NMXOFILE
Byte == 0 .. blksize - 1
Index == 0 .. Modulus - 1
Word(n) == n % Modulus

NoBlock == <<-1, -1>>   \* a value that is no block's number
AsFound == [d \in Dev |-> [b \in Blk |-> [k \in Byte |-> <<d, b, k>>]]]
Caller == [j \in Index |-> <<j>>]

Init ==
    /\ ofile = [fd \in Fd |-> [node |-> NULL, pos |-> 0]]
    /\ ret = 0
    /\ pc = "idle" /\ fildes = 1 /\ nbyte = 0 /\ xfer = 0 /\ i = 0
    /\ oldblk = NoBlock /\ old0 = NoBlock
    /\ block = AsFound /\ buf = Caller
    /\ pos0 = 0
-----------------------------------------------------------------------------
Idle == pc = "idle"
IsOpen(fd) == ofile[fd].node # NULL

\* Calls other than read and write may use the place of oldblk for something
\* else.
StackUsed == oldblk' \in {oldblk, NoBlock}

ofile_alloc ==
    IF \E fd \in Fd : ~IsOpen(fd)
      THEN CHOOSE fd \in Fd : ~IsOpen(fd) /\ \A g \in Fd : g < fd => IsOpen(g)
      ELSE 0

\* The boundary check of lseek; a negative pos is compared as unsigned.
InFile(f, pos) == pos >= 0 /\ pos <= size[f]

Permitted(f, oflag) == oflag \cap {"RD", "WR"} \subseteq mode[f]

\* The tests for O_APPEND and O_TRUNC compare a truth value with the flag and
\* never succeed: pos is 0.  A path that leads nowhere is opened with O_CREAT and
\* O_EXCL only; any other flags make the code use the vnode it did not find.
open(f, oflag) ==
    /\ Idle
    /\ LET excl == {"CREAT", "EXCL"} \subseteq oflag
           fd == ofile_alloc
       IN \/ /\ f = Missing /\ excl
             /\ ret' = 0
             /\ UNCHANGED ofile
          \/ /\ f # Missing
             /\ excl \/ ~Permitted(f, oflag) \/ fd = 0
             /\ ret' = -1
             /\ UNCHANGED ofile
          \/ /\ f # Missing
             /\ ~excl /\ Permitted(f, oflag) /\ fd # 0
             /\ ofile' = [ofile EXCEPT ![fd] = [node |-> f, pos |-> 0]]
             /\ ret' = 0
    /\ StackUsed
    /\ UNCHANGED transfer

\* The pos of a free descriptor is never looked at.
close(fd) ==
    /\ Idle /\ IsOpen(fd)
    /\ ofile' = [ofile EXCEPT ![fd] = [node |-> NULL, pos |-> 0]]
    /\ ret' = 0
    /\ StackUsed
    /\ UNCHANGED transfer

Target(fd, offset, whence) ==
    CASE whence = "SET" -> offset
      [] whence = "CUR" -> ofile[fd].pos + offset
      [] whence = "END" -> size[ofile[fd].node] + offset

\* The new position is stored before it is checked.
lseek(fd, offset, whence) ==
    /\ Idle /\ IsOpen(fd)
    /\ LET pos == Target(fd, offset, whence)
       IN /\ pos \in -1 .. MaxPos
          /\ ofile' = [ofile EXCEPT ![fd].pos = pos]
          /\ ret' = IF InFile(ofile[fd].node, pos) THEN 0 ELSE -1
    /\ StackUsed
    /\ UNCHANGED transfer
-----------------------------------------------------------------------------
(* read and write.                                                         *)

\* Callers do not move data where a refused lseek has left a negative pos.
Begin(op, fd, n) ==
    /\ Idle /\ IsOpen(fd) /\ ofile[fd].pos >= 0
    /\ pc' = op /\ fildes' = fd /\ nbyte' = n /\ xfer' = n /\ i' = 0
    /\ block' = AsFound /\ buf' = Caller
    /\ pos0' = ofile[fd].pos /\ old0' = oldblk
    /\ ret' = 0
    /\ UNCHANGED <<ofile, oldblk>>

read(fd, n) == Begin("read", fd, n)
write(fd, n) == Begin("write", fd, n)

Node == ofile[fildes].node
Pos == ofile[fildes].pos

\* Mutant: data blocks are counted from the first block of the device.
BlockOf_NoBase(f, pos) == pos \div blksize + blkentry[f]

BlockOf(f, pos) == pos \div blksize + blkentry[f] + daddr[dev[f]]

\* Block number blk of the file's device, unless oldblk is that number already.
Loaded(blk) == IF oldblk[2] = blk THEN oldblk ELSE <<dev[Node], blk>>

\* Mutant: a block that ends the transfer is not recognised.
Crosses_Full(disp) == Word(xfer + disp) >= blksize

\* The transfer reaches over the end of the block.
Crosses(disp) == Word(xfer + disp) > blksize

Chunk(disp) == IF Crosses(disp) THEN blksize - disp ELSE xfer

Copied(at, disp) ==
    IF pc = "read"
      THEN /\ buf' = [j \in Index |->
                IF j >= i /\ j < i + Chunk(disp)
                  THEN block[at[1]][at[2]][disp + (j - i)] ELSE buf[j]]
           /\ UNCHANGED block
      ELSE /\ block' = [block EXCEPT ![at[1]][at[2]] =
                [k \in Byte |-> IF k >= disp /\ k < disp + Chunk(disp)
                                  THEN buf[i + (k - disp)] ELSE @[k]]]
           /\ UNCHANGED buf

\* Mutant: the end of the file is noticed a byte too late.
Beyond_Late(pos) == pos > size[Node] + 1

Beyond(pos) == pos > size[Node]

\* Mutant: at the end of the file a last byte is left to transfer.
Left_LastByte(pos, step) == IF Beyond(pos) THEN 1 ELSE Word(xfer - step)

\* xfer after an iteration; 0 also stands for the break at the end of the file.
Left(pos, step) == IF Beyond(pos) THEN 0 ELSE Word(xfer - step)

\* disp is 0 by the time it is subtracted from what is left, and xfer by the
\* time it is added to i.
Iterate ==
    /\ pc \in {"read", "write"} /\ xfer # 0
    /\ LET at == Loaded(BlockOf(Node, Pos))
           disp == Pos % blksize
           pos == Pos + Chunk(disp)
           step == IF Crosses(disp) THEN blksize ELSE xfer
       IN /\ oldblk' = at
          /\ Copied(at, disp)
          /\ ofile' = [ofile EXCEPT ![fildes].pos = IF Beyond(pos) THEN size[Node] ELSE pos]
          /\ xfer' = Left(pos, step)
          /\ i' = IF Crosses(disp) THEN Word(i + step) ELSE i
    /\ UNCHANGED <<ret, pc, fildes, nbyte, pos0, old0>>

\* The call is over; nbyte is returned.
Return ==
    /\ pc \in {"read", "write"} /\ xfer = 0
    /\ pc' = "idle" /\ nbyte' = 0 /\ i' = 0 /\ fildes' = 1
    /\ block' = AsFound /\ buf' = Caller /\ pos0' = 0 /\ old0' = NoBlock
    /\ UNCHANGED <<ofile, ret, xfer, oldblk>>

Next ==
    \/ \E f \in File \cup {Missing}, oflag \in Oflag : open(f, oflag)
    \/ \E fd \in Fd :
         \/ close(fd)
         \/ \E offset \in Offset, whence \in {"SET", "CUR", "END"} : lseek(fd, offset, whence)
         \/ \E n \in Nbyte : read(fd, n) \/ write(fd, n)
    \/ Iterate
    \/ Return

\* A call that has begun goes on.
Spec == Init /\ [][Next]_vars /\ WF_vars(Iterate) /\ WF_vars(Return)
-----------------------------------------------------------------------------
(* Properties.                                                             *)

\* Where byte p of file f is.
Place(f, p) == <<dev[f], daddr[dev[f]] + blkentry[f] + p \div blksize, p % blksize>>

\* What an earlier call left is not taken for the first block of this one on
\* another device.
LeftoverHarmless == old0[2] = Place(Node, pos0)[2] => old0[1] = dev[Node]

\* The call stays within the file, and begins with a block or ends in it.
Regular ==
    /\ pos0 + nbyte <= size[Node]
    /\ pos0 % blksize = 0 \/ (pos0 % blksize) + nbyte <= blksize

\* read fills the caller's buffer with exactly the bytes of the file from pos
\* on, touches nothing behind them and moves pos past them, over any number of
\* blocks.
ReadReturnsFile ==
    pc = "read" /\ xfer = 0 /\ Regular /\ LeftoverHarmless =>
        /\ Pos = pos0 + nbyte
        /\ \A j \in Index : buf[j] = IF j < nbyte THEN Place(Node, pos0 + j) ELSE <<j>>

Stored(d, b, k) ==
    LET from == {j \in 0 .. nbyte - 1 : Place(Node, pos0 + j) = <<d, b, k>>}
    IN  IF from = {} THEN <<d, b, k>> ELSE <<CHOOSE j \in from : TRUE>>

\* write puts the caller's bytes into the file from pos on and changes no other
\* byte of any file.  A write of any length, even one whose count wraps around
\* in the middle of a block, stays in the blocks of its file when the last of
\* them is not full: the check of pos against the size stops it.
WriteStoresFile ==
    pc = "write" /\ LeftoverHarmless =>
        /\ xfer = 0 /\ Regular =>
              \A d \in Dev, b \in Blk, k \in Byte : block[d][b][k] = Stored(d, b, k)
        /\ InFile(Node, pos0) /\ size[Node] % blksize # 0 =>
              \A d \in Dev, b \in Blk :
                  block[d][b] # AsFound[d][b] =>
                      /\ d = dev[Node]
                      /\ \E p \in 0 .. size[Node] - 1 : b = Place(Node, p)[2]

\* Once in the file, the position of an open file only leaves it by an lseek
\* that says so.
PosInFile ==
    [][\A fd \in Fd :
         /\ IsOpen(fd) /\ InFile(ofile[fd].node, ofile[fd].pos)
         /\ ofile'[fd].node = ofile[fd].node
         /\ ~InFile(ofile[fd].node, ofile'[fd].pos)
         => ret' = -1]_vars

\* read and write return, also when their count wraps around.
CallsReturn == pc # "idle" ~> pc = "idle"
=============================================================================
