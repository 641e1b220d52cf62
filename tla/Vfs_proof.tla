------------------------------ MODULE Vfs_proof ------------------------------
(***************************************************************************)
(* The file calls, for files, blocks and transfers of every size: regular  *)
(* transfers move exactly the bytes of the file, and none leaves it.  And  *)
(* the mount table, for any number of entries and devices.                 *)
(***************************************************************************)
EXTENDS Files, Mount, TLAPS, NaturalsInduction, WellFoundedInduction

Buffers == (Dev \cup {-1}) \X Int

Types ==
    /\ ofile \in [Fd -> [node : File \cup {NULL}, pos : Int]]
    /\ pc \in {"idle", "read", "write"} /\ fildes \in Fd
    /\ nbyte \in Index /\ xfer \in Index /\ i \in Index /\ pos0 \in Int
    /\ oldblk \in Buffers /\ old0 \in Buffers
    /\ block = [d \in Dev |-> [b \in Blk |-> block[d][b]]]

\* Of any transfer: the buffer used last is of the file's device once a block has
\* been moved, the count does not overflow inside a block, and the position stays
\* in the file.
Running ==
    pc # "idle" =>
        /\ Node \in File /\ pos0 \in Nat /\ Pos \in Nat
        /\ LeftoverHarmless => oldblk[1] = dev[Node] \/ (oldblk = old0 /\ Pos = pos0)
        /\ xfer # 0 => Pos % blksize = 0 \/ xfer + blksize <= Modulus
        /\ InFile(Node, pos0) => InFile(Node, Pos)

\* The number of bytes a transfer has moved.
Moved == Pos - pos0

\* Where a regular transfer is, and what it has moved.
Exact == pc # "idle" /\ Regular /\ LeftoverHarmless

Counted ==
    Exact => /\ Moved \in 0 .. nbyte
             /\ xfer = nbyte - Moved
             /\ xfer # 0 => i = Moved /\ (Moved = 0 \/ Pos % blksize = 0)

Reading ==
    Exact /\ pc = "read" =>
        /\ block = AsFound
        /\ \A j \in Index : buf[j] = IF j < Moved THEN Place(Node, pos0 + j) ELSE <<j>>

Writing ==
    Exact /\ pc = "write" =>
        /\ buf = Caller
        /\ \A d \in Dev, b \in Blk, k \in Byte :
             /\ \A j \in 0 .. Moved - 1 :
                  Place(Node, pos0 + j) = <<d, b, k>> => block[d][b][k] = <<j>>
             /\ (\A j \in 0 .. Moved - 1 : Place(Node, pos0 + j) # <<d, b, k>>)
                  => block[d][b][k] = <<d, b, k>>

\* What a transfer of any length changes.
Bounded == pc = "write" /\ LeftoverHarmless /\ InFile(Node, pos0) /\ size[Node] % blksize # 0

OthersKept ==
    Bounded => \A d \in Dev, b \in Blk :
        block[d][b] # AsFound[d][b] =>
            d = dev[Node] /\ \E p \in 0 .. size[Node] - 1 : b = Place(Node, p)[2]

IInv == Types /\ Running /\ Counted /\ Reading /\ Writing /\ OthersKept
-----------------------------------------------------------------------------
(* Arithmetic.                                                             *)

\* What is assumed of the sizes.
LEMMA Sizes ==
    /\ blksize \in Nat \ {0} /\ Modulus \in Nat \ {0} /\ blksize < Modulus
    /\ \A f \in File : /\ size[f] \in Nat /\ blkentry[f] \in Nat
                       /\ dev[f] \in Dev /\ daddr[dev[f]] \in Nat
    /\ \A n \in Nbyte : n \in Nat /\ n + blksize <= Modulus
    /\ NULL \notin File
<1>1. /\ blksize \in Nat \ {0} /\ Modulus \in Nat /\ blksize < Modulus
      /\ Nbyte \subseteq Nat /\ \A n \in Nbyte : n + blksize <= Modulus
  BY Zenon, FilesAssumption
<1>2. /\ size \in [File -> Nat] /\ blkentry \in [File -> Nat] /\ daddr \in [Dev -> Nat]
      /\ NULL \notin File
  BY Zenon, FilesAssumption DEF NULL
<1>3. \A f \in File : dev[f] \in Dev
  BY Zenon DEF Dev
<1>4. Modulus # 0
  BY <1>1
<1> QED BY Zenon, <1>1, <1>2, <1>3, <1>4

\* Division with remainder.
LEMMA DivMod ==
    ASSUME NEW b \in Nat \ {0}, NEW a \in Nat
    PROVE  a \div b \in Nat /\ a % b \in 0 .. b - 1 /\ a = b * (a \div b) + (a % b)
OBVIOUS

\* The quotient and the remainder are the only ones.
LEMMA DivModUnique ==
    ASSUME NEW b \in Nat \ {0}, NEW a \in Nat, NEW q \in Nat, NEW r \in 0 .. b - 1,
           a = b * q + r
    PROVE  a \div b = q /\ a % b = r
OBVIOUS

\* The bytes of a block are numbered from its first byte on.
LEMMA SameBlock ==
    ASSUME NEW b \in Nat \ {0}, NEW a \in Nat, NEW r \in Nat, (a % b) + r < b
    PROVE  (a + r) \div b = a \div b /\ (a + r) % b = (a % b) + r
<1> DEFINE q == a \div b
           s == a % b
<1>1. q \in Nat /\ s \in 0 .. b - 1 /\ a = b * q + s
  BY Zenon, DivMod
<1> HIDE DEF q, s
<1>2. a + r \in Nat /\ s + r \in 0 .. b - 1 /\ a + r = b * q + (s + r)
  BY <1>1 DEF s
<1>3. (a + r) \div b = q /\ (a + r) % b = s + r
  BY SMTT(30), <1>1, <1>2, DivModUnique
<1> QED BY <1>3 DEF q, s

\* Behind the last byte of a block the next one begins.
LEMMA NextBlock ==
    ASSUME NEW b \in Nat \ {0}, NEW a \in Nat
    PROVE  (a + (b - (a % b))) % b = 0
<1> DEFINE q == a \div b
           s == a % b
<1>1. q \in Nat /\ s \in 0 .. b - 1 /\ a = b * q + s
  BY Zenon, DivMod
<1> HIDE DEF q, s
<1>2. a + (b - s) = b * q + b /\ b * q \in Nat
  BY <1>1
<1>3. b * (q + 1) = b * q + b
  BY <1>1
<1>4. a + (b - s) \in Nat /\ q + 1 \in Nat /\ 0 \in 0 .. b - 1 /\ a + (b - s) = b * (q + 1) + 0
  BY <1>1, <1>2, <1>3
<1>5. (a + (b - s)) % b = 0
  BY <1>4, DivModUnique
<1> QED BY <1>5 DEF s

\* The byte before one that does not begin a block is in the same block.
LEMMA LastBlock ==
    ASSUME NEW b \in Nat \ {0}, NEW a \in Nat, a % b # 0
    PROVE  a - 1 \in Nat /\ (a - 1) \div b = a \div b
<1> DEFINE q == a \div b
           s == a % b
<1>1. q \in Nat /\ s \in 0 .. b - 1 /\ a = b * q + s /\ s # 0
  BY Zenon, DivMod
<1> HIDE DEF q, s
<1>2. b * q \in Nat
  BY <1>1
<1>3. a - 1 \in Nat /\ s - 1 \in 0 .. b - 1 /\ a - 1 = b * q + (s - 1)
  BY <1>1, <1>2
<1>4. (a - 1) \div b = q
  BY <1>1, <1>3, DivModUnique
<1> QED BY <1>3, <1>4 DEF q

\* Counters of size_t.
LEMMA Words ==
    /\ \A n \in Int : Word(n) \in Index /\ (0 <= n /\ n < Modulus => Word(n) = n)
    /\ \A n \in Index : n \in Nat /\ n < Modulus
    /\ 0 \in Index
BY Sizes DEF Word, Index
-----------------------------------------------------------------------------
(* Places of bytes.                                                        *)

\* Byte p of a file is byte p % blksize of the block read and write use for it.
LEMMA PlaceOf ==
    ASSUME NEW f \in File, NEW p \in Nat
    PROVE  /\ BlockOf(f, p) \in Nat /\ p % blksize \in Byte
           /\ Place(f, p) = <<dev[f], BlockOf(f, p), p % blksize>>
           /\ Place(f, p)[1] = dev[f] /\ Place(f, p)[2] = BlockOf(f, p)
           /\ p < size[f] => BlockOf(f, p) \in Blk
<1>1. /\ p \div blksize \in Nat /\ p % blksize \in 0 .. blksize - 1
      /\ blkentry[f] \in Nat /\ daddr[dev[f]] \in Nat /\ size[f] \in Nat
  BY Zenon, Sizes, DivMod
<1>2. /\ BlockOf(f, p) = daddr[dev[f]] + blkentry[f] + p \div blksize
      /\ BlockOf(f, p) \in Nat
  BY <1>1 DEF BlockOf
<1>3. Place(f, p) = <<dev[f], BlockOf(f, p), p % blksize>>
  BY Zenon, <1>2 DEF Place
<1>4. ASSUME p < size[f] PROVE BlockOf(f, p) \in Blk
  <2>1. p \in 0 .. size[f] - 1
    BY <1>1, <1>4
  <2>2. \A x \in 0 .. size[f] - 1 : daddr[dev[f]] + blkentry[f] + x \div blksize \in Blk
    BY Zenon, FilesAssumption
  <2> QED BY <1>2, <2>1, <2>2
<1>5. Place(f, p)[1] = dev[f] /\ Place(f, p)[2] = BlockOf(f, p)
  BY <1>3
<1> QED BY Zenon, <1>1, <1>2, <1>3, <1>4, <1>5 DEF Byte

\* No two bytes of a file are in one place.
LEMMA PlacesApart ==
    ASSUME NEW f \in File, NEW p \in Nat, NEW q \in Nat, Place(f, p) = Place(f, q)
    PROVE  p = q
<1>1. p \div blksize \in Nat /\ q \div blksize \in Nat /\ blkentry[f] \in Nat /\ daddr[dev[f]] \in Nat
  BY Zenon, Sizes, DivMod
<1>2. BlockOf(f, p) = BlockOf(f, q) /\ p % blksize = q % blksize
  BY PlaceOf
<1>3. p \div blksize = q \div blksize
  BY <1>1, <1>2 DEF BlockOf
<1>4. /\ p = blksize * (p \div blksize) + (p % blksize)
      /\ q = blksize * (q \div blksize) + (q % blksize)
  BY Zenon, Sizes, DivMod
<1> QED BY ONLY Zenon, <1>2, <1>3, <1>4

\* The bytes that follow byte p in its block.
LEMMA PlaceNear ==
    ASSUME NEW f \in File, NEW p \in Nat, NEW r \in Nat, (p % blksize) + r < blksize
    PROVE  Place(f, p + r) = <<dev[f], BlockOf(f, p), (p % blksize) + r>>
<1>1. p + r \in Nat
  OBVIOUS
<1>2. (p + r) \div blksize = p \div blksize /\ (p + r) % blksize = (p % blksize) + r
  BY Zenon, Sizes, SameBlock
<1>3. BlockOf(f, p + r) = BlockOf(f, p)
  BY Zenon, <1>2 DEF BlockOf
<1> QED BY Zenon, <1>1, <1>2, <1>3, PlaceOf
-----------------------------------------------------------------------------
(* One iteration.                                                          *)

\* The displacement in the block, and the bytes copied from it.
Disp == Pos % blksize
Amount == Chunk(Disp)

\* The bytes copied are in the block, also when the count has wrapped around.
LEMMA Amounts ==
    ASSUME Types, Running, pc # "idle", xfer # 0
    PROVE  /\ Node \in File /\ Pos \in Nat /\ xfer \in Nat /\ xfer < Modulus
           /\ Disp \in Nat /\ Disp < blksize
           /\ Amount \in Nat \ {0} /\ Disp + Amount <= blksize /\ Amount <= xfer
           /\ Crosses(Disp) <=> xfer + Disp > blksize
           /\ Crosses(Disp) => Amount = blksize - Disp
           /\ ~Crosses(Disp) => Amount = xfer
<1>1. Node \in File /\ Pos \in Nat /\ (Disp = 0 \/ xfer + blksize <= Modulus)
  BY Zenon DEF Running, Disp
<1>2. xfer \in Nat /\ xfer < Modulus /\ Disp \in 0 .. blksize - 1
  BY Zenon, <1>1, Words, Sizes, DivMod DEF Types, Disp
<1> HIDE DEF Disp
<1>3. Word(xfer + Disp) = xfer + Disp
  <2>1. xfer + Disp \in Int /\ 0 <= xfer + Disp /\ xfer + Disp < Modulus
    BY <1>1, <1>2, Sizes
  <2> QED BY Zenon, <2>1, Words
<1>4. Crosses(Disp) <=> xfer + Disp > blksize
  BY Zenon, <1>3 DEF Crosses
<1>5. (Crosses(Disp) => Amount = blksize - Disp) /\ (~Crosses(Disp) => Amount = xfer)
  BY Zenon DEF Amount, Chunk
<1> HIDE DEF Amount
<1>6. CASE Crosses(Disp)
  BY SMTT(30), <1>1, <1>2, <1>4, <1>5, <1>6, Sizes
<1>7. CASE ~Crosses(Disp)
  BY SMTT(30), <1>1, <1>2, <1>4, <1>5, <1>7, Sizes
<1> QED BY Zenon, <1>6, <1>7

\* What an iteration does to the variables.
LEMMA Iteration ==
    ASSUME Types, Running, Iterate
    PROVE  /\ pc # "idle" /\ xfer # 0 /\ UNCHANGED <<ret, pc, fildes, nbyte, pos0, old0>>
           /\ ofile' \in [Fd -> [node : File \cup {NULL}, pos : Int]]
           /\ \A fd \in Fd : /\ ofile'[fd].node = ofile[fd].node
                             /\ fd # fildes => ofile'[fd].pos = ofile[fd].pos
           /\ Node' = Node
           /\ Pos' = IF Pos + Amount > size[Node] THEN size[Node] ELSE Pos + Amount
           /\ xfer' = IF Pos + Amount > size[Node] \/ ~Crosses(Disp)
                        THEN 0 ELSE Word(xfer - blksize)
           /\ i' = IF Crosses(Disp) THEN Word(i + blksize) ELSE i
           /\ oldblk' = Loaded(BlockOf(Node, Pos)) /\ Copied(oldblk', Disp)
<1>1. /\ pc # "idle" /\ xfer # 0 /\ UNCHANGED <<ret, pc, fildes, nbyte, pos0, old0>>
      /\ oldblk' = Loaded(BlockOf(Node, Pos)) /\ Copied(oldblk', Disp)
  BY DEF Iterate, Disp
<1>2. /\ ofile' = [ofile EXCEPT ![fildes].pos = IF Pos + Amount > size[Node]
                                                 THEN size[Node] ELSE Pos + Amount]
      /\ xfer' = Left(Pos + Amount, IF Crosses(Disp) THEN blksize ELSE xfer)
      /\ i' = IF Crosses(Disp) THEN Word(i + (IF Crosses(Disp) THEN blksize ELSE xfer)) ELSE i
  BY Zenon DEF Iterate, Disp, Amount, Beyond
<1>3. i' = IF Crosses(Disp) THEN Word(i + blksize) ELSE i
  BY Zenon, <1>2
<1>4. xfer \in Nat /\ Pos \in Nat /\ Amount \in Nat /\ Node \in File /\ size[Node] \in Nat
  BY Zenon, <1>1, Amounts, Sizes
<1>5. xfer' = IF Pos + Amount > size[Node] \/ ~Crosses(Disp) THEN 0 ELSE Word(xfer - blksize)
  <2>1. xfer - xfer = 0 /\ 0 \in Int /\ 0 <= 0 /\ 0 < Modulus
    BY <1>4, Sizes
  <2>2. Word(xfer - xfer) = 0
    BY Zenon, <2>1, Words
  <2> QED BY Zenon, <1>2, <2>2 DEF Left, Beyond
<1>6. PICK p \in Int : p = IF Pos + Amount > size[Node] THEN size[Node] ELSE Pos + Amount
  BY <1>4
<1>7. ofile' = [ofile EXCEPT ![fildes].pos = p] /\ fildes \in Fd
  BY Zenon, <1>2, <1>6 DEF Types
<1>8. /\ ofile' \in [Fd -> [node : File \cup {NULL}, pos : Int]]
      /\ \A fd \in Fd : /\ ofile'[fd].node = ofile[fd].node
                        /\ fd # fildes => ofile'[fd].pos = ofile[fd].pos
      /\ ofile'[fildes].pos = p
  BY <1>7 DEF Types
<1>9. Node' = Node /\ Pos' = p
  BY Zenon, <1>1, <1>7, <1>8 DEF Node, Pos
<1> QED BY Zenon, <1>1, <1>3, <1>5, <1>6, <1>8, <1>9

\* The call a transfer belongs to does not change.
LEMMA SameCall ==
    ASSUME Node' = Node, UNCHANGED <<nbyte, pos0, old0>>
    PROVE  /\ Regular' <=> Regular
           /\ LeftoverHarmless' <=> LeftoverHarmless
           /\ InFile(Node, pos0)' <=> InFile(Node, pos0)
           /\ \A p : Place(Node, pos0 + p)' = Place(Node, pos0 + p)
BY Zenon DEF Regular, LeftoverHarmless, InFile, Place

\* Unless a number was left over from another device, the block used is the
\* one of the position.
LEMMA RightBlock ==
    ASSUME Types, Running, pc # "idle", LeftoverHarmless
    PROVE  Loaded(BlockOf(Node, Pos)) = <<dev[Node], BlockOf(Node, Pos)>>
<1>1. Node \in File /\ pos0 \in Nat /\ (oldblk[1] = dev[Node] \/ (oldblk = old0 /\ Pos = pos0))
  BY Zenon DEF Running
<1>2. oldblk = <<oldblk[1], oldblk[2]>>
  BY DEF Types, Buffers
<1>3. ASSUME oldblk[2] = BlockOf(Node, Pos) PROVE oldblk[1] = dev[Node]
  <2>1. ASSUME oldblk = old0, Pos = pos0 PROVE oldblk[1] = dev[Node]
    <3>1. Place(Node, pos0)[2] = BlockOf(Node, pos0)
      BY Zenon, <1>1, PlaceOf
    <3> QED BY Zenon, <1>3, <2>1, <3>1 DEF LeftoverHarmless
  <2> QED BY Zenon, <1>1, <2>1
<1> QED BY Zenon, <1>2, <1>3 DEF Loaded

\* A function stays one on its domain when one value changes.
LEMMA Row ==
    ASSUME NEW T, NEW e, e = [b \in T |-> e[b]], NEW v, NEW x
    PROVE  LET h == [e EXCEPT ![v] = x] IN h = [b \in T |-> h[b]]
<1> DEFINE h == [e EXCEPT ![v] = x]
           new(b) == IF b = v THEN x ELSE e[b]
<1>1. DOMAIN e = T
  BY Zenon
<1>2. h = [b \in T |-> new(b)]
  BY Zenon, <1>1
<1> HIDE DEF h, new
<1>3. h = [b \in T |-> h[b]]
  BY Zenon, <1>2
<1> QED BY Zenon, <1>3 DEF h

\* A function of two arguments.
Table(f, S, T) == f = [d \in S |-> [b \in T |-> f[d][b]]]

\* It stays one when one value changes.
LEMMA Grid ==
    ASSUME NEW S, NEW T, NEW f, Table(f, S, T), NEW u, NEW v, NEW x,
           NEW g, g = [f EXCEPT ![u][v] = x]
    PROVE  Table(g, S, T)
<1> DEFINE row(d) == [b \in T |-> f[d][b]]
           new(d) == IF d = u THEN [f[u] EXCEPT ![v] = x] ELSE f[d]
<1>1. DOMAIN f = S /\ \A d \in S : f[d] = row(d)
  BY Zenon DEF Table
<1>2. g = [d \in S |-> new(d)]
  <2> HIDE DEF row
  <2> QED BY Zenon, <1>1
<1>3. g = [d \in S |-> g[d]] /\ \A d \in S : g[d] = new(d)
  <2> HIDE DEF new
  <2> QED BY Zenon, <1>2
<1>4. ASSUME NEW d \in S PROVE g[d] = [b \in T |-> g[d][b]]
  <2>1. f[d] = [b \in T |-> f[d][b]]
    BY Zenon, <1>1
  <2>2. CASE d = u
    BY Zenon, <1>3, <2>1, <2>2, Row
  <2>3. CASE d # u
    BY Zenon, <1>3, <2>1, <2>3
  <2> QED BY Zenon, <2>2, <2>3
<1> QED BY Zenon, <1>3, <1>4 DEF Table

\* An iteration of any transfer keeps the types,
LEMMA IterateTypes == ASSUME Types, Running, Iterate PROVE Types'
<1>1. /\ ofile' \in [Fd -> [node : File \cup {NULL}, pos : Int]]
      /\ UNCHANGED <<pc, fildes, nbyte, pos0, old0>>
      /\ oldblk' = Loaded(BlockOf(Node, Pos)) /\ Copied(oldblk', Disp)
  BY Zenon, Iteration
<1>2. xfer' \in Index /\ i' \in Index
  <2>1. xfer - blksize \in Int /\ i + blksize \in Int
    BY SMTT(30), Words, Sizes DEF Types
  <2>2. Word(xfer - blksize) \in Index /\ Word(i + blksize) \in Index /\ 0 \in Index
    BY Zenon, <2>1, Words
  <2> QED BY Zenon, <2>2, Iteration DEF Types
<1>3. oldblk' \in Buffers
  <2>1. Node \in File /\ Pos \in Nat /\ dev[Node] \in Dev
    BY Zenon, Iteration, Amounts, Sizes
  <2>2. BlockOf(Node, Pos) \in Int
    BY SMTT(30), <2>1, PlaceOf
  <2>3. <<dev[Node], BlockOf(Node, Pos)>> \in Buffers
    BY Zenon, <2>1, <2>2 DEF Buffers
  <2> QED BY Zenon, <1>1, <2>3 DEF Loaded, Types
<1>4. block' = [d \in Dev |-> [b \in Blk |-> block'[d][b]]]
  <2>1. CASE UNCHANGED block
    BY Zenon, <2>1 DEF Types
  <2>2. ASSUME NEW x, block' = [block EXCEPT ![oldblk'[1]][oldblk'[2]] = x]
        PROVE  block' = [d \in Dev |-> [b \in Blk |-> block'[d][b]]]
    <3>1. Table(block, Dev, Blk)
      BY Zenon DEF Types, Table
    <3>2. Table(block', Dev, Blk)
      BY Zenon, <2>2, <3>1, Grid
    <3> QED BY Zenon, <3>2 DEF Table
  <2> QED BY Zenon, <1>1, <2>1, <2>2 DEF Copied
<1> QED BY Zenon, <1>1, <1>2, <1>3, <1>4 DEF Types

\* and what holds of any transfer.
LEMMA IterateRunning == ASSUME Types, Running, Iterate PROVE Running'
<1>1. /\ pc # "idle" /\ xfer # 0 /\ pc' = pc /\ Node' = Node
      /\ UNCHANGED <<nbyte, pos0, old0>>
      /\ Pos' = IF Pos + Amount > size[Node] THEN size[Node] ELSE Pos + Amount
      /\ xfer' = IF Pos + Amount > size[Node] \/ ~Crosses(Disp)
                   THEN 0 ELSE Word(xfer - blksize)
      /\ oldblk' = Loaded(BlockOf(Node, Pos))
  BY Zenon, Iteration
<1>2. /\ Node \in File /\ pos0 \in Nat /\ Pos \in Nat /\ size[Node] \in Nat
      /\ Amount \in Nat
      /\ InFile(Node, pos0) => InFile(Node, Pos)
  BY Zenon, <1>1, Amounts, Sizes DEF Running
<1>3. Pos' \in Nat /\ (InFile(Node, Pos) => InFile(Node, Pos'))
  BY <1>1, <1>2 DEF InFile
<1>4. InFile(Node, pos0)' => InFile(Node, Pos)'
  BY Zenon, <1>1, <1>2, <1>3 DEF InFile
<1>5. LeftoverHarmless' => oldblk'[1] = dev[Node']
  <2>1. ASSUME LeftoverHarmless PROVE oldblk'[1] = dev[Node]
    <3>1. oldblk' = <<dev[Node], BlockOf(Node, Pos)>>
      BY Zenon, <1>1, <2>1, RightBlock
    <3> QED BY <3>1
  <2> QED BY Zenon, <1>1, <2>1, SameCall
<1>6. ASSUME xfer' # 0 PROVE Pos' % blksize = 0
  <2>1. Crosses(Disp) /\ Pos' = Pos + Amount
    BY Zenon, <1>1, <1>6
  <2>2. Pos' = Pos + (blksize - (Pos % blksize))
    BY Zenon, <1>1, <2>1, Amounts DEF Disp
  <2> QED BY Zenon, <1>2, <2>2, NextBlock, Sizes
<1> QED BY Zenon, <1>1, <1>2, <1>3, <1>4, <1>5, <1>6 DEF Running

\* A regular transfer counts what it moves.
LEMMA IterateCounted ==
    ASSUME Types, Running, Counted, Iterate, Exact
    PROVE  /\ Moved \in Nat /\ Amount \in Nat /\ Moved + Amount \in 0 .. nbyte
           /\ Moved' = Moved + Amount /\ Pos = pos0 + Moved /\ i = Moved
           /\ Counted'
<1>1. /\ pc # "idle" /\ xfer # 0 /\ pc' = pc /\ Node' = Node
      /\ UNCHANGED <<nbyte, pos0, old0>>
      /\ Pos' = IF Pos + Amount > size[Node] THEN size[Node] ELSE Pos + Amount
      /\ xfer' = IF Pos + Amount > size[Node] \/ ~Crosses(Disp)
                   THEN 0 ELSE Word(xfer - blksize)
      /\ i' = IF Crosses(Disp) THEN Word(i + blksize) ELSE i
  BY Zenon, Iteration
<1>2. /\ Moved \in 0 .. nbyte /\ xfer = nbyte - Moved
      /\ i = Moved /\ (Moved = 0 \/ Disp = 0)
  BY Zenon, <1>1 DEF Counted, Disp
<1>3. /\ Node \in File /\ pos0 \in Nat /\ Pos \in Nat /\ size[Node] \in Nat
      /\ nbyte \in Nat /\ nbyte < Modulus /\ Moved = Pos - pos0
      /\ pos0 + nbyte <= size[Node]
      /\ pos0 % blksize = 0 \/ (pos0 % blksize) + nbyte <= blksize
  BY Zenon, <1>1, Sizes, Words DEF Running, Types, Exact, Regular, Moved
<1>4. /\ Disp \in Nat /\ Amount \in Nat \ {0} /\ Amount <= xfer
      /\ Crosses(Disp) <=> xfer + Disp > blksize
      /\ Crosses(Disp) => Amount = blksize - Disp
      /\ ~Crosses(Disp) => Amount = xfer
      /\ blksize \in Nat /\ Modulus \in Nat
  BY Zenon, <1>1, Amounts, Sizes
<1>5. Crosses(Disp) => Disp = 0
  <2>1. Moved = 0 => Disp = pos0 % blksize
    <3>1. Moved = 0 => Pos = pos0
      BY SMTT(30), <1>3
    <3> QED BY Zenon, <3>1 DEF Disp
  <2> HIDE DEF Disp
  <2>2. ASSUME Moved = 0, Crosses(Disp) PROVE Disp = 0
    BY SMTT(30), <1>2, <1>3, <1>4, <2>1, <2>2
  <2> QED BY Zenon, <1>2, <2>2
<1> DEFINE c == Amount
           m == Moved
<1>6. Pos' = Pos + c /\ Pos = pos0 + m
  BY SMTT(30), <1>1, <1>2, <1>3, <1>4
<1>7. Moved' = m + c /\ m + c \in 0 .. nbyte /\ m \in Nat
  <2>1. Moved' = Pos' - pos0
    BY Zenon, <1>1 DEF Moved
  <2> QED BY SMTT(30), <1>2, <1>3, <1>4, <1>6, <2>1
<1>8. xfer' = nbyte - (m + c) /\ (xfer' # 0 => i' = m + c /\ Pos' % blksize = 0)
  <2>1. CASE ~Crosses(Disp)
    BY SMTT(30), <1>1, <1>2, <1>3, <1>4, <2>1
  <2>2. CASE Crosses(Disp)
    <3>1. c = blksize /\ xfer > blksize
      BY SMTT(30), <1>2, <1>3, <1>4, <1>5, <2>2
    <3>2. ~(Pos + Amount > size[Node])
      BY SMTT(30), <1>2, <1>3, <1>4
    <3>3. xfer' = Word(xfer - blksize) /\ i' = Word(i + blksize)
      BY Zenon, <1>1, <2>2, <3>2
    <3>4. /\ xfer - blksize \in Int /\ 0 <= xfer - blksize /\ xfer - blksize < Modulus
          /\ i + blksize \in Int /\ 0 <= i + blksize /\ i + blksize < Modulus
      BY SMTT(30), <1>2, <1>3, <1>4, <3>1
    <3>5. xfer' = xfer - blksize /\ i' = i + blksize
      BY Zenon, <3>3, <3>4, Words
    <3>6. Pos' = Pos + (blksize - (Pos % blksize))
      BY Zenon, <1>4, <1>6, <2>2 DEF Disp
    <3>7. Pos' % blksize = 0
      BY Zenon, <1>3, <3>6, NextBlock, Sizes
    <3> QED BY SMTT(30), <1>2, <1>3, <1>4, <3>1, <3>5, <3>7
  <2> QED BY Zenon, <2>1, <2>2
<1>9. Counted'
  BY Zenon, <1>1, <1>7, <1>8 DEF Counted
<1> QED BY Zenon, <1>2, <1>4, <1>6, <1>7, <1>9

\* The bytes a regular transfer moves in an iteration: byte r of them is byte
\* Moved + r of the buffer and byte Disp + r of the block of the position.
LEMMA Window ==
    ASSUME Types, Running, Counted, Iterate, Exact
    PROVE  /\ oldblk' = <<dev[Node], BlockOf(Node, Pos)>>
           /\ dev[Node] \in Dev /\ BlockOf(Node, Pos) \in Blk
           /\ \A r \in Nat : r < Amount =>
                /\ Disp + r \in Byte
                /\ Place(Node, pos0 + (Moved + r)) = <<dev[Node], BlockOf(Node, Pos), Disp + r>>
<1>1. /\ oldblk' = <<dev[Node], BlockOf(Node, Pos)>> /\ pc # "idle" /\ xfer # 0
  BY Zenon, Iteration, RightBlock DEF Exact
<1>2. /\ Node \in File /\ Pos \in Nat /\ Disp \in Nat /\ Amount \in Nat \ {0}
      /\ Disp + Amount <= blksize /\ blksize \in Nat /\ dev[Node] \in Dev /\ size[Node] \in Nat
  BY Zenon, <1>1, Amounts, Sizes
<1>3. /\ pos0 \in Nat /\ nbyte \in Nat /\ pos0 + nbyte <= size[Node]
      /\ Moved \in Nat /\ Moved + Amount <= nbyte /\ Pos = pos0 + Moved
  <2>1. pos0 \in Nat /\ nbyte \in Nat /\ pos0 + nbyte <= size[Node]
    BY Zenon, <1>1, Words DEF Running, Types, Exact, Regular
  <2>2. Moved \in Nat /\ Moved + Amount \in 0 .. nbyte /\ Pos = pos0 + Moved
    BY Zenon, IterateCounted
  <2> QED BY SMTT(30), <2>1, <2>2
<1>4. BlockOf(Node, Pos) \in Blk
  <2>1. Pos < size[Node]
    BY <1>2, <1>3
  <2> QED BY Zenon, <1>2, <2>1, PlaceOf
<1>5. ASSUME NEW r \in Nat, r < Amount
      PROVE  /\ Disp + r \in Byte
             /\ Place(Node, pos0 + (Moved + r)) = <<dev[Node], BlockOf(Node, Pos), Disp + r>>
  <2>1. Disp + r \in 0 .. blksize - 1 /\ Disp + r < blksize /\ pos0 + (Moved + r) = Pos + r
    BY SMTT(30), <1>2, <1>3, <1>5
  <2>2. Place(Node, Pos + r) = <<dev[Node], BlockOf(Node, Pos), Disp + r>>
    BY Zenon, <1>2, <2>1, PlaceNear DEF Disp
  <2> QED BY Zenon, <2>1, <2>2 DEF Byte
<1> QED BY Zenon, <1>1, <1>2, <1>4, <1>5

\* An iteration of read puts the bytes of the file where they belong.
LEMMA IterateReading ==
    ASSUME Types, Running, Counted, Reading, Iterate, Exact, pc = "read"
    PROVE  /\ block' = AsFound
           /\ \A j \in Index :
                buf'[j] = IF j < Moved' THEN Place(Node, pos0 + j) ELSE <<j>>
<1> DEFINE D == dev[Node]
           b == BlockOf(Node, Pos)
           m == Moved
           c == Amount
<1>1. /\ block = AsFound /\ \A j \in Index : buf[j] = IF j < m THEN Place(Node, pos0 + j) ELSE <<j>>
  BY Zenon DEF Reading
<1>2. m \in Nat /\ c \in Nat /\ Moved' = m + c /\ i = m
  BY Zenon, IterateCounted
<1>3. /\ D \in Dev /\ b \in Blk
      /\ \A r \in Nat : r < c => Disp + r \in Byte /\ Place(Node, pos0 + (m + r)) = <<D, b, Disp + r>>
  BY Zenon, Window
<1>4. /\ block' = block
      /\ buf' = [j \in Index |-> IF j >= i /\ j < i + Chunk(Disp)
                                   THEN block[D][b][Disp + (j - i)] ELSE buf[j]]
  <2>1. oldblk' = <<D, b>> /\ Copied(oldblk', Disp)
    BY Zenon, Window, Iteration
  <2>2. oldblk'[1] = D /\ oldblk'[2] = b
    BY <2>1
  <2> QED BY Zenon, <2>1, <2>2 DEF Copied
<1> HIDE DEF D, b, m, c
<1>5. ASSUME NEW j \in Index
      PROVE  buf'[j] = IF j < m + c THEN Place(Node, pos0 + j) ELSE <<j>>
  <2>1. j \in Nat
    BY Zenon, Words
  <2>2. buf'[j] = IF j >= m /\ j < m + c THEN block[D][b][Disp + (j - m)] ELSE buf[j]
    BY Zenon, <1>2, <1>4 DEF c, Amount
  <2>3. CASE j >= m /\ j < m + c
    <3>1. j - m \in Nat /\ j - m < c /\ m + (j - m) = j
      BY SMTT(30), <1>2, <2>1, <2>3
    <3>2. Disp + (j - m) \in Byte /\ Place(Node, pos0 + j) = <<D, b, Disp + (j - m)>>
      BY Zenon, <1>3, <3>1
    <3>3. block[D][b][Disp + (j - m)] = <<D, b, Disp + (j - m)>>
      BY Zenon, <1>1, <1>3, <3>2 DEF AsFound
    <3> QED BY Zenon, <2>2, <2>3, <3>2, <3>3
  <2>4. CASE j < m
    <3>1. j < m + c /\ ~(j >= m)
      BY SMTT(30), <1>2, <2>1, <2>4
    <3> QED BY Zenon, <1>1, <2>2, <2>4, <3>1
  <2>5. CASE j >= m + c
    <3>1. ~(j < m + c) /\ ~(j < m)
      BY SMTT(30), <1>2, <2>1, <2>5
    <3> QED BY Zenon, <1>1, <2>2, <3>1
  <2>6. j < m \/ (j >= m /\ j < m + c) \/ j >= m + c
    BY <1>2, <2>1
  <2> QED BY Zenon, <2>3, <2>4, <2>5, <2>6
<1> QED BY Zenon, <1>1, <1>2, <1>4, <1>5

\* An iteration of write puts the caller's bytes where they belong, and nothing
\* over what it has written before.
LEMMA IterateWriting ==
    ASSUME Types, Running, Counted, Writing, Iterate, Exact, pc = "write"
    PROVE  /\ buf' = Caller
           /\ \A d \in Dev, b \in Blk, k \in Byte :
                /\ \A j \in 0 .. Moved' - 1 :
                     Place(Node, pos0 + j) = <<d, b, k>> => block'[d][b][k] = <<j>>
                /\ (\A j \in 0 .. Moved' - 1 : Place(Node, pos0 + j) # <<d, b, k>>)
                     => block'[d][b][k] = <<d, b, k>>
<1> DEFINE D == dev[Node]
           B == BlockOf(Node, Pos)
           m == Moved
           c == Amount
<1>1. /\ buf = Caller
      /\ \A d \in Dev, b \in Blk, k \in Byte :
           /\ \A j \in 0 .. m - 1 : Place(Node, pos0 + j) = <<d, b, k>> => block[d][b][k] = <<j>>
           /\ (\A j \in 0 .. m - 1 : Place(Node, pos0 + j) # <<d, b, k>>)
                => block[d][b][k] = <<d, b, k>>
  BY Zenon DEF Writing
<1>2. m \in Nat /\ c \in Nat /\ Moved' = m + c /\ i = m /\ pos0 \in Nat /\ Node \in File
      /\ m + c \in 0 .. nbyte /\ nbyte \in Nat /\ nbyte < Modulus
  BY Zenon, IterateCounted, Words DEF Running, Exact, Types
<1>3. /\ D \in Dev /\ B \in Blk
      /\ \A r \in Nat : r < c => Disp + r \in Byte /\ Place(Node, pos0 + (m + r)) = <<D, B, Disp + r>>
  BY Zenon, Window
<1>4. /\ buf' = buf
      /\ block' = [block EXCEPT ![D][B] =
            [k \in Byte |-> IF k >= Disp /\ k < Disp + c
                              THEN buf[i + (k - Disp)] ELSE @[k]]]
  <2>1. oldblk' = <<D, B>> /\ Copied(oldblk', Disp)
    BY Zenon, Window, Iteration
  <2>2. oldblk'[1] = D /\ oldblk'[2] = B /\ pc # "read"
    BY <2>1
  <2> QED BY Zenon, <2>1, <2>2 DEF Copied, Amount
<1>5. Disp \in Nat
  BY Zenon, Iteration, Amounts
<1> HIDE DEF D, B, m, c, Disp
<1>6. block = [d \in Dev |-> [b \in Blk |-> block[d][b]]]
  BY Zenon DEF Types
<1>7. \A d \in Dev, b \in Blk, k \in Byte :
        block'[d][b][k] = IF d = D /\ b = B /\ k >= Disp /\ k < Disp + c
                            THEN buf[m + (k - Disp)] ELSE block[d][b][k]
  <2> DEFINE G == [k \in Byte |-> IF k >= Disp /\ k < Disp + c
                                   THEN buf[i + (k - Disp)] ELSE block[D][B][k]]
  <2>1. block' = [block EXCEPT ![D][B] = G]
    BY Zenon, <1>4
  <2> HIDE DEF G
  <2>2. \A d \in Dev, b \in Blk : block'[d][b] = IF d = D /\ b = B THEN G ELSE block[d][b]
    BY SMTT(30), <1>3, <1>6, <2>1
  <2>3. \A k \in Byte : G[k] = IF k >= Disp /\ k < Disp + c
                                 THEN buf[m + (k - Disp)] ELSE block[D][B][k]
    BY Zenon, <1>2 DEF G
  <2> TAKE d \in Dev, b \in Blk, k \in Byte
  <2>4. CASE d = D /\ b = B
    BY Zenon, <2>2, <2>3, <2>4
  <2>5. CASE ~(d = D /\ b = B)
    BY Zenon, <2>2, <2>5
  <2> QED BY Zenon, <2>4, <2>5
<1>8. \A k \in Byte : k \in Nat
  BY SMTT(30), Sizes DEF Byte
<1>9. ASSUME NEW d \in Dev, NEW b \in Blk, NEW k \in Byte, NEW j \in 0 .. (m + c) - 1,
             Place(Node, pos0 + j) = <<d, b, k>>
      PROVE  block'[d][b][k] = <<j>>
  <2>1. CASE j < m
    <3>1. j \in 0 .. m - 1 /\ pos0 + j \in Nat
      BY <1>2, <2>1
    <3>2. block[d][b][k] = <<j>>
      BY Zenon, <1>1, <1>9, <3>1
    <3>3. ASSUME d = D, b = B, k >= Disp, k < Disp + c PROVE FALSE
      <4>1. k - Disp \in Nat /\ k - Disp < c /\ Disp + (k - Disp) = k
        BY SMTT(30), <1>2, <1>5, <1>8, <3>3
      <4>2. Place(Node, pos0 + (m + (k - Disp))) = <<d, b, k>>
        BY Zenon, <1>3, <3>3, <4>1
      <4>3. pos0 + (m + (k - Disp)) \in Nat
        BY <1>2, <4>1
      <4>4. pos0 + (m + (k - Disp)) = pos0 + j
        BY Zenon, <1>2, <1>9, <3>1, <4>2, <4>3, PlacesApart
      <4> QED BY SMTT(30), <1>2, <2>1, <4>1, <4>4
    <3> QED BY Zenon, <1>7, <3>2, <3>3
  <2>2. CASE j >= m
    <3>1. j - m \in Nat /\ j - m < c /\ m + (j - m) = j
      BY SMTT(30), <1>2, <2>2
    <3>2. <<d, b, k>> = <<D, B, Disp + (j - m)>>
      BY Zenon, <1>3, <1>9, <3>1
    <3>3. d = D /\ b = B /\ k = Disp + (j - m)
      BY SMTT(30), <3>2
    <3>4. k >= Disp /\ k < Disp + c /\ m + (k - Disp) = j /\ j \in Index
      BY SMTT(30), <1>2, <1>5, <3>1, <3>3, Sizes DEF Index
    <3>5. buf[j] = <<j>>
      BY Zenon, <1>1, <3>4 DEF Caller
    <3> QED BY Zenon, <1>7, <3>3, <3>4, <3>5
  <2> QED BY SMTT(30), <1>2, <2>1, <2>2
<1>10. ASSUME NEW d \in Dev, NEW b \in Blk, NEW k \in Byte,
              \A j \in 0 .. (m + c) - 1 : Place(Node, pos0 + j) # <<d, b, k>>
       PROVE  block'[d][b][k] = <<d, b, k>>
  <2>1. \A j \in 0 .. m - 1 : j \in 0 .. (m + c) - 1
    BY <1>2
  <2>2. block[d][b][k] = <<d, b, k>>
    BY Zenon, <1>1, <1>10, <2>1
  <2>3. ASSUME d = D, b = B, k >= Disp, k < Disp + c PROVE FALSE
    <3>1. /\ k - Disp \in Nat /\ k - Disp < c /\ Disp + (k - Disp) = k
          /\ m + (k - Disp) \in 0 .. (m + c) - 1
      BY SMTT(30), <1>2, <1>5, <1>8, <2>3
    <3>2. Place(Node, pos0 + (m + (k - Disp))) = <<d, b, k>>
      BY Zenon, <1>3, <2>3, <3>1
    <3> QED BY Zenon, <1>10, <3>1, <3>2
  <2> QED BY Zenon, <1>7, <2>2, <2>3
<1> QED BY ZenonT(30), <1>1, <1>2, <1>4, <1>9, <1>10

\* The block an iteration of any write changes is one of the file.
LEMMA IterateOthers ==
    ASSUME Types, Running, OthersKept, Iterate, Bounded,
           NEW d \in Dev, NEW b \in Blk, block'[d][b] # AsFound[d][b]
    PROVE  d = dev[Node] /\ \E p \in 0 .. size[Node] - 1 : b = Place(Node, p)[2]
<1>1. pc = "write" /\ LeftoverHarmless /\ InFile(Node, pos0) /\ size[Node] % blksize # 0
  BY Zenon DEF Bounded
<1>2. oldblk' = <<dev[Node], BlockOf(Node, Pos)>> /\ Copied(oldblk', Disp)
  BY Zenon, <1>1, Iteration, RightBlock
<1>3. PICK x : block' = [block EXCEPT ![dev[Node]][BlockOf(Node, Pos)] = x]
  <2>1. oldblk'[1] = dev[Node] /\ oldblk'[2] = BlockOf(Node, Pos) /\ pc # "read"
    BY SMTT(30), <1>1, <1>2
  <2> QED BY Zenon, <1>2, <2>1 DEF Copied
<1>4. CASE d = dev[Node] /\ b = BlockOf(Node, Pos)
  <2>1. Node \in File /\ Pos \in Nat /\ size[Node] \in Nat /\ Pos <= size[Node]
    BY Zenon, <1>1, Sizes DEF Running, InFile
  <2>2. CASE Pos < size[Node]
    <3>1. Pos \in 0 .. size[Node] - 1 /\ b = Place(Node, Pos)[2]
      BY SMTT(30), <1>4, <2>1, <2>2, PlaceOf
    <3> QED BY Zenon, <1>4, <3>1
  <2>3. CASE Pos = size[Node]
    <3>1. Pos - 1 \in Nat /\ (Pos - 1) \div blksize = Pos \div blksize
      BY Zenon, <1>1, <2>1, <2>3, LastBlock, Sizes
    <3>2. b = Place(Node, Pos - 1)[2]
      <4>1. BlockOf(Node, Pos - 1) = BlockOf(Node, Pos)
        BY Zenon, <3>1 DEF BlockOf
      <4> QED BY Zenon, <1>4, <2>1, <3>1, <4>1, PlaceOf
    <3>3. Pos - 1 \in 0 .. size[Node] - 1
      BY SMTT(30), <2>1, <2>3, <3>1
    <3> QED BY Zenon, <1>4, <3>2, <3>3
  <2> QED BY <2>1, <2>2, <2>3
<1>5. CASE ~(d = dev[Node] /\ b = BlockOf(Node, Pos))
  <2>1. block = [e \in Dev |-> [f \in Blk |-> block[e][f]]]
    BY Zenon DEF Types
  <2>2. block'[d][b] = block[d][b]
    BY SMTT(30), <1>3, <1>5, <2>1
  <2> QED BY Zenon, <2>2 DEF OthersKept
<1> QED BY Zenon, <1>4, <1>5

\* Every iteration keeps the invariant.
LEMMA IterateStep == ASSUME IInv, Iterate PROVE IInv'
<1>1. Types /\ Running /\ Counted /\ Reading /\ Writing /\ OthersKept
  BY Zenon DEF IInv
<1>2. Types' /\ Running'
  BY Zenon, <1>1, IterateTypes, IterateRunning
<1>3. pc' = pc /\ Node' = Node /\ UNCHANGED <<nbyte, pos0, old0>>
  BY Zenon, <1>1, Iteration
<1>4. /\ (Exact' <=> Exact) /\ (Bounded' <=> Bounded)
      /\ \A p : Place(Node, pos0 + p)' = Place(Node, pos0 + p)
  BY Zenon, <1>3, SameCall DEF Exact, Bounded
<1>5. Counted'
  BY Zenon, <1>1, <1>4, IterateCounted DEF Counted
<1>6. Reading'
  BY Zenon, <1>1, <1>3, <1>4, IterateReading DEF Reading
<1>7. Writing'
  BY ZenonT(30), <1>1, <1>3, <1>4, IterateWriting DEF Writing
<1>8. OthersKept'
  <2>1. AsFound' = AsFound /\ \A p : Place(Node, p)' = Place(Node, p)
    BY Zenon, <1>3 DEF AsFound, Place
  <2> QED BY ZenonT(30), <1>1, <1>3, <1>4, <2>1, IterateOthers DEF OthersKept
<1> QED BY Zenon, <1>2, <1>5, <1>6, <1>7, <1>8 DEF IInv
-----------------------------------------------------------------------------
(* The invariant.                                                          *)

\* Nothing is open at the beginning.
LEMMA InitStep == Init => IInv
<1> SUFFICES ASSUME Init PROVE IInv
  BY Zenon
<1>1. pc = "idle"
  BY Zenon DEF Init
<1>2. Types
  <2>1. ofile \in [Fd -> [node : File \cup {NULL}, pos : Int]] /\ 1 \in Fd
    BY SMTT(30), FilesAssumption DEF Init, Fd
  <2>2. 0 \in Index /\ <<-1, -1>> \in Buffers
    BY Words DEF Buffers
  <2>3. block = [d \in Dev |-> [b \in Blk |-> block[d][b]]]
    BY Zenon DEF Init, AsFound
  <2> QED BY Zenon, <2>1, <2>2, <2>3 DEF Init, Types, NoBlock
<1> QED BY Zenon, <1>1, <1>2 DEF IInv, Running, Counted, Reading, Writing, OthersKept, Exact, Bounded

\* Between two calls only the types matter.
LEMMA IdleStep ==
    ASSUME Types', pc' = "idle"
    PROVE  IInv'
BY Zenon DEF IInv, Running, Counted, Reading, Writing, OthersKept, Exact, Bounded

\* open, close and lseek.
LEMMA OtherCalls ==
    ASSUME Types, UNCHANGED transfer, StackUsed, pc = "idle",
           ofile' \in [Fd -> [node : File \cup {NULL}, pos : Int]]
    PROVE  IInv'
<1>1. oldblk' \in Buffers
  <2>1. <<-1, -1>> \in Buffers
    BY DEF Buffers
  <2> QED BY Zenon, <2>1 DEF Types, StackUsed, NoBlock
<1>2. Types' /\ pc' = "idle"
  BY Zenon, <1>1 DEF Types, transfer
<1> QED BY Zenon, <1>2, IdleStep

\* A call begins: nothing has been moved yet.
LEMMA BeginStep ==
    ASSUME Types, NEW op \in {"read", "write"}, NEW fd \in Fd, NEW n \in Nbyte, Begin(op, fd, n)
    PROVE  IInv'
<1>1. /\ pc' = op /\ pc' # "idle" /\ fildes' = fd /\ nbyte' = n /\ xfer' = n /\ i' = 0
      /\ block' = AsFound /\ buf' = Caller /\ pos0' = ofile[fd].pos /\ old0' = oldblk
      /\ UNCHANGED <<ofile, oldblk>> /\ ofile[fd].node # NULL /\ ofile[fd].pos >= 0
  BY SMTT(30) DEF Begin, IsOpen
<1>2. n \in Nat /\ n + blksize <= Modulus /\ n \in Index
  BY SMTT(30), Sizes DEF Index
<1>3. ofile[fd].node \in File /\ ofile[fd].pos \in Nat
  BY <1>1 DEF Types
<1>4. Types'
  <2>1. block' = [d \in Dev |-> [b \in Blk |-> block'[d][b]]]
    BY Zenon, <1>1 DEF AsFound
  <2>2. 0 \in Index /\ pos0' \in Int
    BY SMTT(30), <1>1, <1>3, Words
  <2> QED BY Zenon, <1>1, <1>2, <2>1, <2>2 DEF Types
<1>5. Node' = ofile[fd].node /\ Pos' = ofile[fd].pos /\ pos0' = Pos'
  BY Zenon, <1>1 DEF Node, Pos
<1>6. Running'
  BY Zenon, <1>1, <1>2, <1>3, <1>5 DEF Running
<1>7. Moved' = 0
  <2>1. Pos' - pos0' = 0
    BY SMTT(30), <1>3, <1>5
  <2> QED BY Zenon, <2>1 DEF Moved
<1>8. Counted'
  <2>1. 0 \in 0 .. n /\ n = n - 0
    BY <1>2
  <2> QED BY Zenon, <1>1, <1>7, <2>1 DEF Counted
<1>9. Reading'
  <2>1. \A j \in Index : ~(j < 0)
    BY Words
  <2> QED BY Zenon, <1>1, <1>7, <2>1 DEF Reading, Caller
<1>10. Writing'
  <2>1. 0 .. 0 - 1 = {}
    OBVIOUS
  <2> QED BY Zenon, <1>1, <1>7, <2>1 DEF Writing, AsFound
<1>11. OthersKept'
  BY Zenon, <1>1 DEF OthersKept, AsFound
<1> QED BY Zenon, <1>4, <1>6, <1>8, <1>9, <1>10, <1>11 DEF IInv

\* open takes a free descriptor.
LEMMA AllocFree == ofile_alloc # 0 => ofile_alloc \in Fd /\ ~IsOpen(ofile_alloc)
<1> SUFFICES ASSUME NEW fd \in Fd, ~IsOpen(fd)
             PROVE  \E x \in Fd : ~IsOpen(x) /\ \A g \in Fd : g < x => IsOpen(g)
  BY Zenon DEF ofile_alloc
<1> DEFINE R == {ss \in Nat \X Nat : ss[1] < ss[2]}
           S == {g \in Fd : ~IsOpen(g)}
<1>1. \E x \in S : \A y \in S : ~ (<<y, x>> \in R)
  <2>1. IsWellFoundedOn(R, Nat)
    BY Zenon, NatLessThanWellFounded DEF OpToRel
  <2>2. S \subseteq Nat /\ fd \in S
    BY FilesAssumption DEF Fd
  <2> HIDE DEF R, S
  <2> QED BY Zenon, <2>1, <2>2, WFMin
<1>2. PICK x \in S : \A y \in S : ~ (<<y, x>> \in R)
  BY Zenon, <1>1
<1>3. ASSUME NEW g \in Fd, g < x PROVE IsOpen(g)
  <2>1. g \in Nat /\ x \in Nat
    BY SMTT(30), FilesAssumption DEF Fd
  <2>2. <<g, x>> \in R
    BY SMTT(30), <1>3, <2>1
  <2> QED BY Zenon, <1>2, <2>2
<1> QED BY Zenon, <1>2, <1>3

\* An open descriptor has a file.
LEMMA OpenFile == ASSUME Types, NEW fd \in Fd, IsOpen(fd) PROVE ofile[fd].node \in File
<1>1. ofile[fd].node \in File \cup {NULL}
  BY DEF Types
<1> QED BY Zenon, <1>1 DEF IsOpen

\* A descriptor given a file and a position is one of the table's.
LEMMA OfileType ==
    ASSUME Types, NEW fd \in Fd, NEW f \in File \cup {NULL}, NEW p \in Int
    PROVE  /\ [ofile EXCEPT ![fd] = [node |-> f, pos |-> p]]
                \in [Fd -> [node : File \cup {NULL}, pos : Int]]
           /\ [ofile EXCEPT ![fd].pos = p] \in [Fd -> [node : File \cup {NULL}, pos : Int]]
BY SMTT(30) DEF Types

\* Every step keeps the invariant.
LEMMA NextStep == ASSUME IInv, [Next]_vars PROVE IInv'
<1>1. Types
  BY Zenon DEF IInv
<1>2. ASSUME NEW f \in File \cup {Missing}, NEW oflag \in Oflag, open(f, oflag) PROVE IInv'
  <2>1. \/ ofile' = ofile
        \/ ofile' = [ofile EXCEPT ![ofile_alloc] = [node |-> f, pos |-> 0]] /\ ofile_alloc # 0
    BY Zenon, <1>2 DEF open
  <2>2. f \in File \cup {NULL} /\ 0 \in Int
    BY DEF NULL
  <2>3. ofile' \in [Fd -> [node : File \cup {NULL}, pos : Int]]
    <3>1. CASE ofile' = ofile
      BY Zenon, <1>1, <3>1 DEF Types
    <3>2. CASE ofile' = [ofile EXCEPT ![ofile_alloc] = [node |-> f, pos |-> 0]] /\ ofile_alloc # 0
      <4>1. ofile_alloc \in Fd
        BY Zenon, <3>2, AllocFree
      <4> QED BY Zenon, <1>1, <2>2, <3>2, <4>1, OfileType
    <3> QED BY Zenon, <2>1, <3>1, <3>2
  <2> QED BY Zenon, <1>1, <1>2, <2>3, OtherCalls DEF open, Idle
<1>3. ASSUME NEW fd \in Fd, close(fd) PROVE IInv'
  <2>1. 0 \in Int
    OBVIOUS
  <2>2. ofile' \in [Fd -> [node : File \cup {NULL}, pos : Int]]
    BY Zenon, <1>1, <1>3, <2>1, OfileType DEF close
  <2> QED BY Zenon, <1>1, <1>3, <2>2, OtherCalls DEF close, Idle
<1>4. ASSUME NEW fd \in Fd, NEW offset \in Offset, NEW whence \in {"SET", "CUR", "END"},
             lseek(fd, offset, whence)
      PROVE  IInv'
  <2>1. ofile[fd].node \in File
    BY Zenon, <1>1, <1>4, OpenFile DEF lseek
  <2>2. ofile[fd].pos \in Int /\ size[ofile[fd].node] \in Int /\ offset \in Int
    BY SMTT(30), <1>1, <2>1, FilesAssumption DEF Types
  <2>3. Target(fd, offset, whence) \in Int
    BY <2>2 DEF Target
  <2>4. ofile' \in [Fd -> [node : File \cup {NULL}, pos : Int]]
    BY Zenon, <1>1, <1>4, <2>3, OfileType DEF lseek
  <2> QED BY Zenon, <1>1, <1>4, <2>4, OtherCalls DEF lseek, Idle
<1>5. ASSUME NEW fd \in Fd, NEW n \in Nbyte, read(fd, n) \/ write(fd, n) PROVE IInv'
  BY Zenon, <1>1, <1>5, BeginStep DEF read, write
<1>6. CASE Iterate
  BY Zenon, <1>6, IterateStep
<1>7. CASE Return
  <2>1. 0 \in Index /\ 1 \in Fd /\ 0 \in Int /\ <<-1, -1>> \in Buffers
    BY Words, FilesAssumption DEF Fd, Buffers
  <2>2. block' = [d \in Dev |-> [b \in Blk |-> block'[d][b]]]
    BY Zenon, <1>7 DEF Return, AsFound
  <2>3. Types' /\ pc' = "idle"
    BY Zenon, <1>1, <1>7, <2>1, <2>2 DEF Return, Types, NoBlock
  <2> QED BY Zenon, <2>3, IdleStep
<1>8. CASE UNCHANGED vars
  <2>1. /\ ofile' = ofile /\ pc' = pc /\ fildes' = fildes /\ nbyte' = nbyte /\ xfer' = xfer /\ i' = i
        /\ oldblk' = oldblk /\ block' = block /\ buf' = buf /\ pos0' = pos0 /\ old0' = old0
    BY <1>8 DEF vars
  <2>2. Node' = Node /\ Pos' = Pos
    BY Zenon, <2>1 DEF Node, Pos
  <2>3. Moved' = Moved /\ (Exact' <=> Exact) /\ (Bounded' <=> Bounded)
    BY Zenon, <2>1, <2>2 DEF Moved, Exact, Bounded, Regular, LeftoverHarmless, Place, InFile
  <2>4. Types' /\ Running'
    BY Zenon, <2>1, <2>2 DEF IInv, Types, Running, LeftoverHarmless, Place, InFile
  <2>5. Counted'
    BY Zenon, <2>1, <2>2, <2>3 DEF IInv, Counted
  <2>6. Reading'
    BY Zenon, <2>1, <2>2, <2>3 DEF IInv, Reading, Place, AsFound
  <2>7. Writing'
    BY Zenon, <2>1, <2>2, <2>3 DEF IInv, Writing, Place, Caller
  <2>8. OthersKept'
    BY ZenonT(30), <2>1, <2>2, <2>3 DEF IInv, OthersKept, Place, AsFound
  <2> QED BY Zenon, <2>4, <2>5, <2>6, <2>7, <2>8 DEF IInv
<1> QED BY Zenon, <1>2, <1>3, <1>4, <1>5, <1>6, <1>7, <1>8 DEF Next

\* The invariant of the file calls: where a transfer is in the file, in the
\* buffer and in its count, and what it has moved so far.
THEOREM Invariant == Spec => []IInv
BY InitStep, NextStep, PTL DEF Spec

\* ReadReturnsFile, for files, blocks and transfers of every size: a read that
\* stays in the file and begins with a block or ends in it fills the buffer with
\* the bytes of the file from pos on, over any number of blocks.
THEOREM ReadsReturnFile == Spec => []ReadReturnsFile
<1>1. ASSUME IInv PROVE ReadReturnsFile
  <2> SUFFICES ASSUME pc = "read", xfer = 0, Regular, LeftoverHarmless
               PROVE  /\ Pos = pos0 + nbyte
                      /\ \A j \in Index : buf[j] = IF j < nbyte THEN Place(Node, pos0 + j) ELSE <<j>>
    BY Zenon DEF ReadReturnsFile
  <2>1. Exact /\ Counted /\ Reading
    BY Zenon, <1>1 DEF IInv, Exact
  <2>2. Moved \in 0 .. nbyte /\ 0 = nbyte - Moved
    BY Zenon, <2>1 DEF Counted
  <2>3. nbyte \in Int /\ Pos \in Int /\ pos0 \in Int
    <3>1. Pos \in Nat /\ pos0 \in Nat
      BY Zenon, <1>1, <2>1 DEF IInv, Running, Exact
    <3>2. nbyte \in Nat
      BY Zenon, <1>1, Words DEF IInv, Types
    <3> QED BY <3>1, <3>2
  <2>4. Moved = nbyte
    BY <2>2, <2>3
  <2>5. Pos = pos0 + nbyte
    BY SMTT(30), <2>3, <2>4 DEF Moved
  <2> QED BY Zenon, <2>1, <2>4, <2>5 DEF Reading
<1> QED BY Invariant, <1>1, PTL

\* WriteStoresFile, for files, blocks and transfers of every size: a regular
\* write puts the caller's bytes into the file and changes nothing else, and no
\* write leaves the blocks of a file whose last block is not full.
THEOREM WritesStoreFile == Spec => []WriteStoresFile
<1>1. ASSUME IInv PROVE WriteStoresFile
  <2> SUFFICES ASSUME pc = "write", LeftoverHarmless PROVE WriteStoresFile
    BY Zenon DEF WriteStoresFile
  <2>1. ASSUME xfer = 0, Regular, NEW d \in Dev, NEW b \in Blk, NEW k \in Byte
        PROVE  block[d][b][k] = Stored(d, b, k)
    <3>1. Exact /\ Counted /\ Writing
      BY Zenon, <1>1, <2>1 DEF IInv, Exact
    <3>2. Moved \in 0 .. nbyte /\ 0 = nbyte - Moved
      BY Zenon, <2>1, <3>1 DEF Counted
    <3>3. nbyte \in Nat
      BY Zenon, <1>1, Words DEF IInv, Types
    <3>4. Moved = nbyte
      BY <3>2, <3>3
    <3> DEFINE from == {j \in 0 .. nbyte - 1 : Place(Node, pos0 + j) = <<d, b, k>>}
    <3>5. CASE from = {}
      <4>1. block[d][b][k] = <<d, b, k>>
        <5>1. \A j \in 0 .. nbyte - 1 : Place(Node, pos0 + j) # <<d, b, k>>
          BY Zenon, <3>5
        <5>2. (\A j \in 0 .. Moved - 1 : Place(Node, pos0 + j) # <<d, b, k>>)
                => block[d][b][k] = <<d, b, k>>
          BY Zenon, <2>1, <3>1 DEF Writing
        <5> QED BY Zenon, <3>4, <5>1, <5>2
      <4> QED BY Zenon, <3>5, <4>1 DEF Stored
    <3>6. CASE from # {}
      <4>1. \A j \in from : block[d][b][k] = <<j>>
        BY Zenon, <3>1, <3>4 DEF Writing
      <4>2. (CHOOSE j \in from : TRUE) \in from
        BY Zenon, <3>6
      <4>3. Stored(d, b, k) = <<CHOOSE j \in from : TRUE>>
        BY Zenon, <3>6 DEF Stored
      <4> QED BY Zenon, <4>1, <4>2, <4>3
    <3> QED BY Zenon, <3>5, <3>6
  <2>2. ASSUME InFile(Node, pos0), size[Node] % blksize # 0,
               NEW d \in Dev, NEW b \in Blk, block[d][b] # AsFound[d][b]
        PROVE  d = dev[Node] /\ \E p \in 0 .. size[Node] - 1 : b = Place(Node, p)[2]
    BY Zenon, <1>1, <2>2 DEF IInv, OthersKept, Bounded
  <2> QED BY Zenon, <2>1, <2>2 DEF WriteStoresFile
<1> QED BY Invariant, <1>1, PTL

\* PosInFile, for tables and files of every size: only an lseek that says so
\* takes a position out of the file.
THEOREM PositionsInFile == Spec => PosInFile
<1> DEFINE Stays == \A fd \in Fd :
                      /\ IsOpen(fd) /\ InFile(ofile[fd].node, ofile[fd].pos)
                      /\ ofile'[fd].node = ofile[fd].node
                      /\ ~InFile(ofile[fd].node, ofile'[fd].pos)
                      => ret' = -1
<1>1. ASSUME IInv, Next PROVE Stays
  <2> SUFFICES ASSUME NEW fd \in Fd, IsOpen(fd), InFile(ofile[fd].node, ofile[fd].pos),
                      ofile'[fd].node = ofile[fd].node,
                      ~InFile(ofile[fd].node, ofile'[fd].pos)
               PROVE  ret' = -1
    BY Zenon
  <2>1. Types /\ DOMAIN ofile = Fd
    BY <1>1 DEF IInv, Types
  <2>2. ofile'[fd] # ofile[fd]
    BY Zenon
  <2>3. ASSUME NEW f \in File \cup {Missing}, NEW oflag \in Oflag, open(f, oflag) PROVE ret' = -1
    <3>1. \/ ofile' = ofile
          \/ ofile' = [ofile EXCEPT ![ofile_alloc] = [node |-> f, pos |-> 0]] /\ ofile_alloc # 0
      BY Zenon, <2>3 DEF open
    <3>2. ofile_alloc # 0 => fd # ofile_alloc
      BY Zenon, AllocFree
    <3> QED BY Zenon, <2>1, <2>2, <3>1, <3>2
  <2>4. ASSUME NEW g \in Fd, close(g) PROVE ret' = -1
    <3>1. ofile' = [ofile EXCEPT ![g] = [node |-> NULL, pos |-> 0]]
      BY Zenon, <2>4 DEF close
    <3>2. CASE fd = g
      <4>1. ofile'[fd].node = NULL
        BY <2>1, <3>1, <3>2
      <4> QED BY Zenon, <4>1 DEF IsOpen
    <3> QED BY Zenon, <2>1, <2>2, <3>1, <3>2
  <2>5. ASSUME NEW g \in Fd, NEW offset \in Offset, NEW whence \in {"SET", "CUR", "END"},
               lseek(g, offset, whence)
        PROVE  ret' = -1
    <3> DEFINE p == Target(g, offset, whence)
    <3>1. /\ ofile' = [ofile EXCEPT ![g].pos = p]
          /\ ret' = IF InFile(ofile[g].node, p) THEN 0 ELSE -1
      BY Zenon, <2>5 DEF lseek
    <3> HIDE DEF p
    <3>2. CASE fd = g
      <4>1. ofile'[fd].pos = p
        BY <2>1, <3>1, <3>2 DEF Types
      <4> QED BY Zenon, <3>1, <3>2, <4>1
    <3> QED BY Zenon, <2>1, <2>2, <3>1, <3>2
  <2>6. ASSUME NEW g \in Fd, NEW n \in Nbyte, read(g, n) \/ write(g, n) PROVE ret' = -1
    BY Zenon, <2>2, <2>6 DEF read, write, Begin
  <2>7. CASE Iterate
    <3> DEFINE p == Pos + Chunk(Pos % blksize)
               q == IF Beyond(p) THEN size[Node] ELSE p
    <3>1. ofile' = [ofile EXCEPT ![fildes].pos = q] /\ pc # "idle"
      BY Zenon, <2>7 DEF Iterate
    <3>2. CASE fd = fildes
      <4>1. ofile'[fd].pos = q
        <5> HIDE DEF q
        <5> QED BY SMTT(30), <2>1, <3>1, <3>2 DEF Types
      <4>2. Node \in File /\ Pos \in Nat
        BY Zenon, <1>1, <3>1 DEF IInv, Running
      <4>3. Chunk(Pos % blksize) \in Nat /\ size[Node] \in Nat
        <5>1. Pos % blksize \in 0 .. blksize - 1 /\ blksize \in Nat /\ size[Node] \in Nat
          BY Zenon, <4>2, Sizes, DivMod
        <5>2. xfer \in Nat
          BY Zenon, <2>1, Words DEF Types
        <5> QED BY <5>1, <5>2 DEF Chunk
      <4>4. q >= 0 /\ q <= size[Node]
        BY <4>2, <4>3 DEF Beyond
      <4> HIDE DEF q
      <4> QED BY Zenon, <3>2, <4>1, <4>4 DEF InFile, Node
    <3> HIDE DEF q
    <3> QED BY Zenon, <2>1, <2>2, <3>1, <3>2
  <2>8. CASE Return
    BY Zenon, <2>2, <2>8 DEF Return
  <2> QED BY Zenon, <1>1, <2>3, <2>4, <2>5, <2>6, <2>7, <2>8 DEF Next
<1>2. IInv /\ [Next]_vars => [Stays]_vars
  BY Zenon, <1>1
<1> QED BY Invariant, <1>2, PTL DEF Spec, PosInFile
-----------------------------------------------------------------------------
(* The mount table of Mount, for every size and all devices.               *)

\* The inductive strengthening of GetFinds: an entry that is used shares its
\* device with no other entry, free ones included.
UsedApart ==
    \A m, n \in Slot : mountab[m].stat = 1 /\ mountab[n].dev = mountab[m].dev => m = n

\* The table of mount.c is well typed, whatever is mounted and unmounted.
THEOREM MountTypeCorrect == MountSpec => []TypeOK
<1>1. MountInit => TypeOK
  BY MountAssumption DEF MountInit, TypeOK, Host, NotLoaded
<1>2. TypeOK /\ [MountNext]_mount_vars => TypeOK'
  <2> SUFFICES ASSUME TypeOK, [MountNext]_mount_vars PROVE TypeOK'
    OBVIOUS
  <2>1. ASSUME NEW host \in Host, NEW d \in Device, mountab_mount(host, d)
        PROVE  TypeOK'
    <3>1. answer' \in [call : {"none", "mount", "umount"}, dev : Device, result : {-1, 0}]
      BY <2>1 DEF mountab_mount, Answer, fs_probe
    <3>2. ASSUME NEW m \in Slot, SetUp(m, host, d)
          PROVE  mountab' \in [Slot -> [stat : {0, 1}, dev : Device, host : Host,
                                          fs : {-1, 0}, sblk : Device \cup {NotLoaded}]]
      <4> DEFINE Entry == [stat : {0, 1}, dev : Device, host : Host, fs : {-1, 0},
                           sblk : Device \cup {NotLoaded}]
      <4>1. [stat |-> 1, dev |-> d, host |-> host, fs |-> 0, sblk |-> d] \in Entry
        OBVIOUS
      <4>a. mountab[m] \in Entry
        BY DEF TypeOK
      <4>2. [mountab[m] EXCEPT !.dev = d, !.host = host, !.fs = -1] \in Entry
        BY ONLY Zenon, <4>a, d \in Device, host \in Host
      <4> HIDE DEF Entry
      <4>3. mountab \in [Slot -> Entry]
        BY DEF TypeOK, Entry
      <4>4. mountab' \in [Slot -> Entry]
        BY SMTT(30), <3>2, <4>1, <4>2, <4>3 DEF SetUp, fs_probe
      <4>5. QED BY <4>4 DEF Entry
    <3>3. QED BY SMTT(30), <2>1, <3>1, <3>2 DEF TypeOK, mountab_mount
  <2>2. ASSUME NEW d \in Device, mountab_umount(d)
        PROVE  TypeOK'
    BY <2>2 DEF TypeOK, mountab_umount, Answer
  <2>3. CASE UNCHANGED mount_vars
    BY SMTT(30), <2>3 DEF TypeOK, mount_vars
  <2>4. QED BY <2>1, <2>2, <2>3 DEF MountNext
<1>3. QED BY <1>1, <1>2, PTL DEF MountSpec

\* What a step of the table does to its entries: nothing, filling in a free
\* one for a device that no entry holds, or freeing one.
LEMMA MountSteps ==
    ASSUME TypeOK, [MountNext]_mount_vars
    PROVE  \/ UNCHANGED mountab
           \/ \E m \in Slot, host \in Host, d \in Device :
                ~AlreadyThere(d) /\ mountab[m].stat = 0 /\ SetUp(m, host, d)
           \/ \E m \in Slot : /\ mountab' = [mountab EXCEPT ![m].stat = 0]
                                /\ answer'.call = "umount"
                                /\ answer'.dev = mountab[m].dev
<1>1. CASE \E host \in Host, d \in Device : mountab_mount(host, d)
  BY <1>1 DEF mountab_mount, FirstFree
<1>2. CASE \E d \in Device : mountab_umount(d)
  BY <1>2 DEF mountab_umount, Mounted, Answer
<1>3. CASE UNCHANGED mount_vars
  BY <1>3 DEF mount_vars
<1>4. QED BY SMTT(30), <1>1, <1>2, <1>3 DEF MountNext

\* Mounting checks every entry for the device, so used entries never share one.
THEOREM DevicesApart == MountSpec => []UsedApart
<1>1. MountInit => UsedApart
  BY DEF MountInit, UsedApart
<1>2. TypeOK /\ UsedApart /\ [MountNext]_mount_vars => UsedApart'
  <2> SUFFICES ASSUME TypeOK, UsedApart, [MountNext]_mount_vars PROVE UsedApart'
    OBVIOUS
  <2>1. CASE UNCHANGED mountab
    BY SMTT(30), <2>1 DEF UsedApart
  <2>2. ASSUME NEW k \in Slot, NEW host \in Host, NEW d \in Device,
               ~AlreadyThere(d), mountab[k].stat = 0, SetUp(k, host, d)
        PROVE  UsedApart'
    <3>1. \A m \in Slot : m # k => mountab'[m] = mountab[m]
      BY <2>2 DEF SetUp, TypeOK
    <3>2. mountab'[k].dev = d
      BY SMTT(30), <2>2 DEF SetUp, TypeOK
    <3>3. QED BY <2>2, <3>1, <3>2 DEF UsedApart, AlreadyThere
  <2>3. ASSUME NEW k \in Slot, mountab' = [mountab EXCEPT ![k].stat = 0]
        PROVE  UsedApart'
    <3>1. \A m \in Slot : mountab'[m].dev = mountab[m].dev
      BY <2>3 DEF TypeOK
    <3>2. \A m \in Slot : mountab'[m].stat = 1 => mountab[m].stat = 1
      BY <2>3 DEF TypeOK
    <3>3. QED BY <3>1, <3>2 DEF UsedApart
  <2>4. QED BY SMTT(30), <2>1, <2>2, <2>3, MountSteps
<1>3. QED BY <1>1, <1>2, MountTypeCorrect, PTL DEF MountSpec

\* mountab_get answers with the entry of every mounted device: the first entry
\* that holds the device is the only one.
THEOREM LookupCorrect == MountSpec => []GetFinds
<1>1. UsedApart => GetFinds
  <2> SUFFICES ASSUME UsedApart, NEW m \in Slot, mountab[m].stat = 1
               PROVE  mountab_get(mountab[m].dev) = m
    BY DEF GetFinds
  <2>1. \A n \in Slot : mountab[n].dev = mountab[m].dev => n = m
    BY DEF UsedApart
  <2>2. ~(m < m)
    BY SMTT(30), MountAssumption DEF Slot
  <2>3. QED BY SMTT(30), <2>1, <2>2 DEF mountab_get
<1>2. QED BY <1>1, DevicesApart, PTL

\* An entry becomes used only when everything in it is of one device.
THEOREM EntriesCorrect == MountSpec => []MountedLoaded
<1>1. MountInit => MountedLoaded
  BY DEF MountInit, MountedLoaded
<1>2. TypeOK /\ MountedLoaded /\ [MountNext]_mount_vars => MountedLoaded'
  <2> SUFFICES ASSUME TypeOK, MountedLoaded, [MountNext]_mount_vars PROVE MountedLoaded'
    OBVIOUS
  <2>1. CASE UNCHANGED mountab
    BY SMTT(30), <2>1 DEF MountedLoaded
  <2>2. ASSUME NEW k \in Slot, NEW host \in Host, NEW d \in Device,
               mountab[k].stat = 0, SetUp(k, host, d)
        PROVE  MountedLoaded'
    BY <2>2 DEF MountedLoaded, SetUp, TypeOK, fs_probe
  <2>3. ASSUME NEW k \in Slot, mountab' = [mountab EXCEPT ![k].stat = 0]
        PROVE  MountedLoaded'
    BY <2>3 DEF MountedLoaded, TypeOK
  <2>4. QED BY SMTT(30), <2>1, <2>2, <2>3, MountSteps
<1>3. QED BY <1>1, <1>2, MountTypeCorrect, PTL DEF MountSpec

\* mountab_mount only fills in free entries, and mountab_umount only frees the
\* one of its device.
THEOREM EntriesKept == MountSpec => UsedEntriesKept
<1> DEFINE Kept(m) == mountab[m].stat = 1 /\ mountab'[m] # mountab[m] =>
              /\ answer'.call = "umount" /\ answer'.dev = mountab[m].dev
              /\ mountab'[m] = [mountab[m] EXCEPT !.stat = 0]
<1>1. TypeOK /\ [MountNext]_mount_vars => UsedKept
  <2> SUFFICES ASSUME TypeOK, [MountNext]_mount_vars, NEW m \in Slot PROVE Kept(m)
    BY DEF UsedKept
  <2>1. CASE UNCHANGED mountab
    BY <2>1
  <2>2. ASSUME NEW k \in Slot, NEW host \in Host, NEW d \in Device,
               mountab[k].stat = 0, SetUp(k, host, d)
        PROVE  Kept(m)
    BY <2>2 DEF SetUp, TypeOK
  <2>3. ASSUME NEW k \in Slot, mountab' = [mountab EXCEPT ![k].stat = 0],
               answer'.call = "umount", answer'.dev = mountab[k].dev
        PROVE  Kept(m)
    BY <2>3 DEF TypeOK
  <2>4. QED BY SMTT(30), <2>1, <2>2, <2>3, MountSteps
<1>2. QED BY <1>1, MountTypeCorrect, PTL DEF MountSpec, UsedEntriesKept
=============================================================================
