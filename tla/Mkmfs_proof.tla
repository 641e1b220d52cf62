---------------------------- MODULE Mkmfs_proof ----------------------------
(***************************************************************************)
(* The blocks of every file are a range, for images of every size and any  *)
(* tree of host files: the check mkmfs/mfs.c:346 asks for is not needed.   *)
(* And mfs_iget finds every one of the host files under its path.          *)
(***************************************************************************)
EXTENDS Mkmfs, TLAPS, NaturalsInduction, WellFoundedInduction

\* The first clear bit above a range that begins at 0 is the one that follows.
LEMMA FirstFit ==
    ASSUME NEW n \in Nat, NEW t \in 0 .. n, NEW b \in 0 .. n - 1,
           mfs_seekbmp(0 .. t - 1, n, b)
    PROVE  b = t
  BY DEF mfs_seekbmp

\* The new image: the marked blocks are those of its system area.
LEMMA InitContiguity == Init => Contiguity
  BY SMTT(30), MkmfsAssumption DEF Init, Contiguity, Complete, FileBlocks, FilesIntact, Ino, Bit, NoOne

\* After an error nothing changes but that no file is being written.
LEMMA ExitStep == Contiguity /\ Exit => Contiguity'
  <1> SUFFICES ASSUME Contiguity, Exit PROVE Contiguity'
    OBVIOUS
  <1>1. Complete' \subseteq Complete /\ \A f \in Complete' : FileBlocks(f)' = FileBlocks(f)
    BY DEF Exit, Complete, FileBlocks
  <1>2. FilesIntact'
    BY Zenon, <1>1 DEF Exit, FilesIntact, Contiguity
  <1> QED
    BY <1>1, <1>2 DEF Contiguity, Exit

\* A fresh inode has no blocks yet, and does not disturb those of the others.
LEMMA Fresh ==
    ASSUME Contiguity, NEW i \in Ino, mfs_seekbmp(ibmp, NInode, i)
    PROVE  i \notin ibmp /\ \A b \in Bit : owner[b] # i
  BY SMTT(30), MkmfsAssumption DEF Contiguity, mfs_seekbmp, Ino, Bit, NoOne

\* A file takes a whole number of blocks.
LEMMA Blocks_Nat == ASSUME NEW size \in Sizes PROVE Blocks(size) \in Nat
  BY MkmfsAssumption DEF Blocks

\* mfs_mkdir takes the next blocks behind the marked ones.
LEMMA MkdirStep ==
    ASSUME Contiguity, NEW parent \in made, NEW name \in NameSet, mfs_mkdir(parent, name)
    PROVE  Contiguity'
  <1>1. PICK i \in Ino \cup {-1} :
           /\ mfs_seekbmp(ibmp, NInode, i)
           /\ \/ Exit
              \/ /\ i # -1 /\ Enter(i, mfs_iget(parent.path), name, TRUE, 0)
                 /\ blkentry' = [blkentry EXCEPT ![i] = 0]
                 /\ UNCHANGED <<dbmp, data, pc, indexi, dblkr, dblki, owner, top>>
    BY Zenon DEF mfs_mkdir
  <1>2. CASE Exit
    BY <1>2, ExitStep
  <1>3. CASE ~Exit
    <2>1. /\ i \in Ino /\ i \notin ibmp /\ \A b \in Bit : owner[b] # i
          /\ ibmp' = ibmp \cup {i} /\ blocks' = [blocks EXCEPT ![i] = 0]
          /\ blkentry' = [blkentry EXCEPT ![i] = 0]
          /\ UNCHANGED <<dbmp, data, pc, indexi, dblkr, dblki, owner, top>>
      BY SMTT(30), <1>1, <1>3, Fresh DEF Enter
    <2>2. pc = "idle"
      BY DEF mfs_mkdir, New
    <2>3. \A f \in Complete' : f = i \/ f \in Complete
      BY SMTT(30), <2>1 DEF Complete
    <2>4. FileBlocks(i)' = {}
      BY SMTT(30), <2>1 DEF FileBlocks, Contiguity
    <2>5. \A f \in Complete : f # i /\ FileBlocks(f)' = FileBlocks(f) /\ blkentry'[f] = blkentry[f]
      BY SMTT(30), <2>1 DEF FileBlocks, Complete, Contiguity
    <2>6. FilesIntact'
      <3> SUFFICES ASSUME NEW f \in Complete', NEW b \in FileBlocks(f)', b \in DOMAIN data'
                   PROVE  data'[b] = <<f, b - blkentry'[f]>>
        BY DEF FilesIntact
      <3>1. f \in Complete /\ b \in FileBlocks(f) /\ blkentry'[f] = blkentry[f]
        BY <2>3, <2>4, <2>5
      <3> QED
        BY ZenonT(30), <2>1, <3>1 DEF FilesIntact, Contiguity
    <2>7. \A f \in Complete' : /\ FileBlocks(f)' \subseteq Bit
                               /\ \A b \in Bit : owner'[b] = f <=> b \in FileBlocks(f)'
      BY SMTT(30), <2>1, <2>3, <2>4, <2>5 DEF Contiguity
    <2>8. /\ ibmp' \subseteq Ino
          /\ blkentry' \in [Ino -> Int] /\ blocks' \in [Ino -> Nat]
          /\ owner' \in [Bit -> ibmp' \cup {NoOne}]
      BY SMTT(30), <2>1 DEF Contiguity
    <2> QED
      BY SMTT(30), <2>1, <2>2, <2>6, <2>7, <2>8 DEF Contiguity, Bit
  <1> QED
    BY <1>2, <1>3

\* Writing a file keeps its blocks at the end of the marked ones.
LEMMA WriteStep ==
    ASSUME Contiguity, NEW parent \in made, NEW name \in NameSet, NEW size \in Sizes,
           mfs_write(parent, name, size)
    PROVE  Contiguity'
  <1>1. PICK i \in Ino \cup {-1} :
           /\ mfs_seekbmp(ibmp, NInode, i)
           /\ \/ Exit
              \/ /\ i # -1 /\ Enter(i, mfs_iget(parent.path), name, FALSE, Blocks(size))
                 /\ pc' = "alloc"
                 /\ indexi' = i /\ dblkr' = Blocks(size) /\ dblki' = 0
                 /\ UNCHANGED <<dbmp, blkentry, data, owner, top>>
    BY ZenonT(30) DEF mfs_write
  <1>2. CASE Exit
    BY <1>2, ExitStep
  <1>3. CASE ~Exit
    <2> DEFINE n == Blocks(size)
    <2>0. n \in Nat
      BY Blocks_Nat
    <2> HIDE DEF n
    <2>1. /\ i \in Ino /\ i \notin ibmp /\ \A b \in Bit : owner[b] # i
          /\ ibmp' = ibmp \cup {i} /\ blocks' = [blocks EXCEPT ![i] = n]
          /\ pc' = "alloc" /\ indexi' = i /\ dblkr' = n /\ dblki' = 0
          /\ UNCHANGED <<dbmp, blkentry, data, owner, top>>
      BY SMTT(30), <1>1, <1>3, Fresh DEF Enter, n
    <2>2. pc = "idle"
      BY DEF mfs_write, New
    <2>3. \A f \in Complete' : f \in Complete /\ f # i
      BY SMTT(30), <2>1, <2>2 DEF Complete
    <2>4. \A f \in Complete : f # i /\ FileBlocks(f)' = FileBlocks(f)
      BY <2>1 DEF FileBlocks, Complete, Contiguity
    <2>5. FilesIntact'
      BY Zenon, <2>1, <2>3, <2>4 DEF FilesIntact, Contiguity
    <2>6. \A f \in Complete' : /\ FileBlocks(f)' \subseteq Bit
                               /\ \A b \in Bit : owner'[b] = f <=> b \in FileBlocks(f)'
      BY SMTT(30), <2>1, <2>3, <2>4 DEF Contiguity
    <2>7. /\ ibmp' \subseteq Ino
          /\ blkentry' \in [Ino -> Int] /\ blocks' \in [Ino -> Nat]
          /\ owner' \in [Bit -> ibmp' \cup {NoOne}]
      BY SMTT(30), <2>0, <2>1 DEF Contiguity
    <2>8. /\ blocks'[indexi'] - dblkr' = 0 /\ indexi' \in ibmp'
          /\ \A b \in Bit : owner'[b] # indexi'
      BY SMTT(30), <2>0, <2>1 DEF Contiguity
    <2> QED
      BY SMTT(30), <2>0, <2>1, <2>5, <2>6, <2>7, <2>8, MkmfsAssumption DEF Contiguity, Bit
  <1> QED
    BY <1>2, <1>3

\* The block is the one that follows the others of the file.
LEMMA AllocateStep == Contiguity /\ Allocate => Contiguity'
  <1> SUFFICES ASSUME Contiguity, Allocate PROVE Contiguity'
    OBVIOUS
  <1>1. PICK b \in Bit \cup {-1} :
           /\ mfs_seekbmp(dbmp, NDBit, b)
           /\ \/ Exit
              \/ /\ b # -1 /\ dbmp' = dbmp \cup {b}
                 /\ dblki' = b /\ dblkr' = dblkr - 1
                 /\ owner' = [owner EXCEPT ![b] = indexi] /\ top' = top + 1
                 /\ UNCHANGED <<ibmp, inode, blkentry, blocks, data, pc, indexi, made>>
    BY DEF Allocate
  <1>2. CASE Exit
    BY SMTT(30), <1>2, ExitStep
  <1>3. CASE ~Exit
    <2>1. /\ b \in Bit /\ b = top /\ pc = "alloc" /\ dblkr > 0
          /\ dbmp' = dbmp \cup {b} /\ dblki' = b /\ dblkr' = dblkr - 1
          /\ owner' = [owner EXCEPT ![b] = indexi] /\ top' = top + 1
          /\ UNCHANGED <<ibmp, blkentry, blocks, data, pc, indexi>>
      BY SMTT(30), <1>1, <1>3, FirstFit, MkmfsAssumption DEF Contiguity, Allocate, Bit
    <2>2. /\ top' \in 0 .. NDBit /\ dbmp' = 0 .. top' - 1
          /\ indexi' \in Ino /\ dblkr' \in Nat /\ dblki' \in Int
      BY SMTT(30), <2>1, MkmfsAssumption DEF Contiguity, Bit
    <2>3. /\ owner' \in [Bit -> ibmp' \cup {NoOne}]
          /\ \A c \in Bit : owner'[c] # NoOne <=> c < top'
      BY SMTT(30), <2>1, MkmfsAssumption DEF Contiguity, Bit, Ino, NoOne
    <2> DEFINE n == blocks[indexi] - dblkr
    <2>a. /\ indexi \in ibmp /\ n \in 0 .. top /\ indexi \in Ino
          /\ \A c \in Bit : owner[c] = indexi <=> (top - n <= c /\ c < top)
      BY SMTT(30), <2>1 DEF Contiguity
    <2>b. blocks'[indexi'] - dblkr' = n + 1
      BY SMTT(30), <2>1 DEF Contiguity
    <2>c. top \in Nat /\ owner \in [Bit -> ibmp \cup {NoOne}]
      BY DEF Contiguity
    <2> HIDE DEF n
    <2>d. \A c \in Bit : owner'[c] = indexi <=> (top - n <= c /\ c <= top)
      BY SMTT(30), <2>1, <2>a, <2>c, MkmfsAssumption DEF Bit
    <2>4. /\ indexi' \in ibmp' /\ n + 1 \in 0 .. top'
          /\ \A c \in Bit : owner'[c] = indexi' <=> (top' - (n + 1) <= c /\ c < top')
          /\ dblki' = top' - 1
      BY SMTT(30), <2>1, <2>a, <2>c, <2>d, MkmfsAssumption DEF Bit
    <2>5. Complete' = Complete /\ \A f \in Complete : f # indexi /\ FileBlocks(f)' = FileBlocks(f)
      BY <2>1 DEF Complete, FileBlocks
    <2>6. owner[b] = NoOne /\ NoOne \notin Complete
      BY <2>1, MkmfsAssumption DEF Contiguity, Complete, Bit, NoOne, Ino
    <2>7. \A f \in Complete' : /\ FileBlocks(f)' \subseteq Bit
                               /\ \A c \in Bit : owner'[c] = f <=> c \in FileBlocks(f)'
      BY SMTT(30), <2>1, <2>5, <2>6 DEF Contiguity
    <2>8. FilesIntact'
      BY Zenon, <2>1, <2>5 DEF FilesIntact, Contiguity
    <2> QED
      BY Zenon, <2>1, <2>2, <2>3, <2>4, <2>b, <2>7, <2>8 DEF Contiguity
  <1> QED
    BY SMTT(30), <1>2, <1>3

\* i_blkentry is the first block that was taken for the file.
LEMMA FinishStep == Contiguity /\ Finish => Contiguity'
  <1> SUFFICES ASSUME Contiguity, Finish PROVE Contiguity'
    OBVIOUS
  <1> DEFINE n == blocks[indexi]
             entry == dblki - n + 1
  <1>1. /\ pc = "alloc" /\ dblkr = 0 /\ pc' = "idle"
        /\ blkentry' = [blkentry EXCEPT ![indexi] = entry]
        /\ data' = [b \in DOMAIN data |-> IF b \in entry .. entry + n - 1
                                            THEN <<indexi, b - entry>> ELSE data[b]]
        /\ UNCHANGED <<ibmp, dbmp, blocks, indexi, dblkr, dblki, owner, top>>
    BY SMTT(30) DEF Finish
  <1>a. /\ n \in 0 .. top /\ indexi \in ibmp /\ indexi \in Ino
        /\ n > 0 => dblki = top - 1
        /\ \A b \in Bit : owner[b] = indexi <=> (top - n <= b /\ b < top)
    <2>1. blocks[indexi] \in Nat /\ blocks[indexi] - dblkr = n
      BY SMTT(30), <1>1 DEF Contiguity
    <2> HIDE DEF n
    <2> QED
      BY SMTT(30), <1>1, <2>1 DEF Contiguity
  <1>b. dblki \in Int /\ top \in 0 .. NDBit
    BY SMTT(30) DEF Contiguity
  <1> HIDE DEF n
  <1>2. /\ n \in 0 .. top /\ entry \in Int /\ indexi \in ibmp /\ indexi \in Ino
        /\ \A b \in Bit : owner[b] = indexi <=> b \in entry .. entry + n - 1
        /\ entry .. entry + n - 1 \subseteq Bit
    <2>1. CASE n = 0
      BY SMTT(30), <1>a, <1>b, <2>1, MkmfsAssumption DEF Bit
    <2>2. CASE n > 0
      BY SMTT(30), <1>a, <1>b, <2>2, MkmfsAssumption DEF Bit
    <2> QED
      BY SMTT(30), <1>a, <2>1, <2>2
  <1> HIDE DEF n, entry
  <1>3. /\ blkentry'[indexi] = entry
        /\ \A f \in {indexi} : FileBlocks(f)' = entry .. entry + n - 1
    BY SMTT(30), <1>1, <1>2 DEF FileBlocks, Contiguity, n
  <1>4. \A f \in Complete' : f = indexi \/ f \in Complete
    BY SMTT(30), <1>1 DEF Complete
  <1>5. \A f \in Complete : f # indexi /\ FileBlocks(f)' = FileBlocks(f) /\ blkentry'[f] = blkentry[f]
    BY SMTT(30), <1>1 DEF Complete, FileBlocks, Contiguity
  <1>6. \A f \in Complete' : /\ FileBlocks(f)' \subseteq Bit
                             /\ \A b \in Bit : owner'[b] = f <=> b \in FileBlocks(f)'
    <2> TAKE f \in Complete'
    <2>1. CASE f = indexi
      BY SMTT(30), <1>1, <1>2, <1>3, <2>1
    <2>2. CASE f # indexi
      BY SMTT(30), <1>1, <1>4, <1>5, <2>2 DEF Contiguity
    <2> QED
      BY <2>1, <2>2
  <1>7. FilesIntact'
    <2> SUFFICES ASSUME NEW f \in Complete', NEW b \in FileBlocks(f)', b \in DOMAIN data'
                 PROVE  data'[b] = <<f, b - blkentry'[f]>>
      BY DEF FilesIntact
    <2>1. b \in Bit /\ b \in DOMAIN data
      BY SMTT(30), <1>1, <1>6
    <2>2. CASE f = indexi
      BY SMTT(30), <1>1, <1>3, <2>1, <2>2
    <2>3. CASE f # indexi
      <3>1. f \in Complete /\ b \in FileBlocks(f) /\ blkentry'[f] = blkentry[f]
        BY SMTT(30), <1>4, <1>5, <2>3
      <3>2. b \notin entry .. entry + n - 1
        BY SMTT(30), <1>2, <2>1, <2>3, <3>1 DEF Contiguity
      <3> QED
        BY SMTT(30), <1>1, <2>1, <3>1, <3>2 DEF Contiguity, FilesIntact
    <2> QED
      BY <2>2, <2>3
  <1>8. blkentry' \in [Ino -> Int] /\ DOMAIN data' = DOMAIN data
    BY <1>1, <1>2 DEF Contiguity
  <1> QED
    BY SMTT(30), <1>1, <1>6, <1>7, <1>8 DEF Contiguity

\* Contiguity is an invariant of the builder.
THEOREM ContiguityInvariant == Spec => []Contiguity
  <1>1. ASSUME Contiguity, [Next]_vars PROVE Contiguity'
    <2>1. CASE \E parent \in made, name \in NameSet : mfs_mkdir(parent, name)
      BY <1>1, <2>1, MkdirStep
    <2>2. CASE \E parent \in made, name \in NameSet, size \in Sizes : mfs_write(parent, name, size)
      BY <1>1, <2>2, WriteStep
    <2>3. CASE Allocate
      BY <1>1, <2>3, AllocateStep
    <2>4. CASE Finish
      BY SMTT(30), <1>1, <2>4, FinishStep
    <2>5. CASE mfs_end
      BY Zenon, <1>1, <2>5 DEF mfs_end, Contiguity, Complete, FileBlocks, FilesIntact, Bit
    <2>6. CASE UNCHANGED vars
      BY ZenonT(30), <1>1, <2>6 DEF vars, Contiguity, Complete, FileBlocks, FilesIntact, Bit
    <2> QED
      BY SMTT(30), <1>1, <2>1, <2>2, <2>3, <2>4, <2>5, <2>6 DEF Next
  <1> QED
    BY <1>1, InitContiguity, PTL DEF Spec

\* The blocks taken for a file are those its inode says.
THEOREM FilesAreContiguous == Spec => []FilesContiguous
  <1>1. Contiguity => FilesContiguous
    BY DEF Contiguity, FilesContiguous
  <1> QED
    BY <1>1, ContiguityInvariant, PTL

\* Every complete file keeps its contents while others are added.
THEOREM FilesStayIntact == Spec => []FilesIntact
  <1>1. Contiguity => FilesIntact
    BY DEF Contiguity
  <1> QED
    BY <1>1, ContiguityInvariant, PTL
-----------------------------------------------------------------------------
(* Paths.                                                                  *)

\* A set of naturals that is not empty has a least element.
LEMMA LeastNat ==
    ASSUME NEW S \in SUBSET Nat, S # {}
    PROVE  \E x \in S : \A y \in S : x <= y
  <1> DEFINE R == {ss \in Nat \X Nat : ss[1] < ss[2]}
  <1>1. PICK x \in S : \A y \in S : ~ (<<y, x>> \in R)
    <2>1. IsWellFoundedOn(R, Nat)
      BY Zenon, NatLessThanWellFounded DEF OpToRel
    <2> HIDE DEF R
    <2> QED
      BY Zenon, <2>1, WFMin
  <1>2. \A y \in S : x <= y
    <2> TAKE y \in S
    <2>1. ~ (<<y, x>> \in R) /\ x \in Nat /\ y \in Nat
      BY Zenon, <1>1
    <2>2. ~ (y < x)
      BY Zenon, <2>1
    <2> QED
      BY <2>1, <2>2
  <1> QED
    BY Zenon, <1>2

\* The numbers in a linked tree.
LEMMA Numbers ==
    ASSUME Linked
    PROVE  /\ ibmp \subseteq Ino /\ Ino \subseteq Nat
           /\ \A k \in Ino : /\ inode[k].next \in Ino /\ inode[k].child \in Ino
                             /\ inode[k].parent \in Ino
                             /\ k # 0 => inode[k].next < k
  <1>1. Ino \subseteq Nat
    BY SMTT(30) DEF Ino
  <1>2. ibmp \subseteq Ino
    BY MkmfsAssumption DEF Linked, Ino
  <1>3. inode \in [Ino -> Node] /\ \A k \in Ino \ {0} : inode[k].next < k
    BY Zenon DEF Linked
  <1> QED
    BY Zenon, <1>1, <1>2, <1>3 DEF Node

\* The walk along the siblings ends, because their numbers fall: what Sibling
\* computes is given by its next step.
LEMMA SiblingStep ==
    ASSUME Linked, NEW name, NEW j \in Ino
    PROVE  Sibling(name, j) =
             IF j = 0 \/ inode[j].name = name THEN j ELSE Sibling(name, inode[j].next)
  <1> DEFINE Stop(k) == k = 0 \/ inode[k].name = name
             Walk(n) == \E f : f = [k \in 0 .. n - 1 |-> IF Stop(k) THEN k ELSE f[inode[k].next]]
             Never == {n \in 0 .. NInode : ~Walk(n)}
  <1>1. NInode \in Nat /\ \A k \in Ino : inode[k].next \in Ino /\ (k # 0 => inode[k].next < k)
    BY Zenon, MkmfsAssumption, Numbers
  <1> HIDE DEF Walk
  <1>2. Never = {}
    <2> SUFFICES ASSUME Never # {} PROVE FALSE
      OBVIOUS
    <2>0. Never \in SUBSET Nat
      BY <1>1
    <2>1. PICK n \in Never : \A m \in Never : n <= m
      <3> HIDE DEF Never
      <3> QED
        BY Zenon, <2>0, LeastNat
    <2>2. n \in 0 .. NInode /\ ~Walk(n)
      BY <2>1
    <2>3. CASE n = 0
      <3> DEFINE f == [k \in 0 .. n - 1 |-> k]
      <3>1. f = [k \in 0 .. n - 1 |-> IF Stop(k) THEN k ELSE f[inode[k].next]]
        BY <2>3
      <3> QED
        BY Zenon, <2>2, <3>1 DEF Walk
    <2>4. CASE n > 0
      <3>1. Walk(n - 1)
        BY <1>1, <2>1, <2>2, <2>4
      <3>2. PICK f : f = [k \in 0 .. (n - 1) - 1 |-> IF Stop(k) THEN k ELSE f[inode[k].next]]
        BY Zenon, <3>1 DEF Walk
      <3> DEFINE g == [k \in 0 .. n - 1 |-> IF Stop(k) THEN k ELSE f[inode[k].next]]
      <3>3. \A k \in 0 .. (n - 1) - 1 : f[k] = IF Stop(k) THEN k ELSE f[inode[k].next]
        BY Zenon, <3>2
      <3>4. \A k \in 0 .. n - 1 : g[k] = IF Stop(k) THEN k ELSE f[inode[k].next]
        BY Zenon
      <3>5. \A k \in 0 .. n - 1 : ~Stop(k) =>
              inode[k].next \in 0 .. n - 1 /\ inode[k].next \in 0 .. (n - 1) - 1
        BY <1>1, <2>2, <2>4 DEF Ino
      <3> HIDE DEF Stop, g
      <3>6. \A k \in 0 .. n - 1 : ~Stop(k) => f[inode[k].next] = g[inode[k].next]
        <4> SUFFICES ASSUME NEW k \in 0 .. n - 1, ~Stop(k), NEW m, m = inode[k].next
                     PROVE  f[m] = g[m]
          BY Zenon
        <4>1. m \in 0 .. n - 1 /\ m \in 0 .. (n - 1) - 1
          BY Zenon, <3>5
        <4> QED
          BY Zenon, <3>3, <3>4, <4>1
      <3>7. g = [k \in 0 .. n - 1 |-> IF Stop(k) THEN k ELSE g[inode[k].next]]
        BY Zenon, <3>6 DEF g
      <3> QED
        BY Zenon, <2>2, <3>7 DEF Walk
    <2> QED
      BY <2>2, <2>3, <2>4
  <1>3. Walk(NInode)
    BY <1>1, <1>2
  <1> DEFINE F == CHOOSE f : f = [k \in Ino |-> IF k = 0 \/ inode[k].name = name THEN k
                                                 ELSE f[inode[k].next]]
  <1>4. F = [k \in Ino |-> IF k = 0 \/ inode[k].name = name THEN k ELSE F[inode[k].next]]
    BY Zenon, <1>3 DEF Ino, Walk
  <1>5. \A k : Sibling(name, k) = F[k]
    BY Zenon DEF Sibling
  <1> HIDE DEF F
  <1> QED
    BY Zenon, <1>4, <1>5

\* The inode reached after n names of the path, step by step.
Reach(path, f) ==
    f = [n \in 0 .. Len(path) |-> IF n = 0 THEN 0 ELSE Down(f[n - 1], path[n])]

\* There is such a function for every path, so mfs_iget is the last of its values.
LEMMA ReachExists ==
    ASSUME NEW path \in Seq(NameSet)
    PROVE  \E f : Reach(path, f) /\ mfs_iget(path) = f[Len(path)]
  <1> DEFINE Walk(n) == \E f : f = [m \in 0 .. n |-> IF m = 0 THEN 0 ELSE Down(f[m - 1], path[m])]
             Never == {n \in 0 .. Len(path) : ~Walk(n)}
  <1>1. Len(path) \in Nat
    OBVIOUS
  <1> HIDE DEF Walk
  <1>2. Never = {}
    <2> SUFFICES ASSUME Never # {} PROVE FALSE
      OBVIOUS
    <2>0. Never \in SUBSET Nat
      BY <1>1
    <2>1. PICK n \in Never : \A m \in Never : n <= m
      <3> HIDE DEF Never
      <3> QED
        BY Zenon, <2>0, LeastNat
    <2>2. n \in 0 .. Len(path) /\ ~Walk(n)
      BY <2>1
    <2>3. CASE n = 0
      <3> DEFINE f == [m \in 0 .. n |-> 0]
      <3>1. f = [m \in 0 .. n |-> IF m = 0 THEN 0 ELSE Down(f[m - 1], path[m])]
        <4>1. \A m \in 0 .. n : m = 0
          BY <2>3
        <4> QED
          BY Zenon, <4>1
      <3> QED
        BY Zenon, <2>2, <3>1 DEF Walk
    <2>4. CASE n > 0
      <3>1. Walk(n - 1)
        BY <1>1, <2>1, <2>2, <2>4
      <3>2. PICK f : f = [m \in 0 .. n - 1 |-> IF m = 0 THEN 0 ELSE Down(f[m - 1], path[m])]
        BY Zenon, <3>1 DEF Walk
      <3> DEFINE g == [m \in 0 .. n |-> IF m = 0 THEN 0 ELSE Down(f[m - 1], path[m])]
      <3>3. \A m \in 0 .. n - 1 : f[m] = IF m = 0 THEN 0 ELSE Down(f[m - 1], path[m])
        BY Zenon, <3>2
      <3>4. \A m \in 0 .. n : g[m] = IF m = 0 THEN 0 ELSE Down(f[m - 1], path[m])
        BY Zenon
      <3> HIDE DEF g
      <3>5. \A m \in 0 .. n : m # 0 => f[m - 1] = g[m - 1]
        <4> SUFFICES ASSUME NEW m \in 0 .. n, m # 0, NEW k, k = m - 1 PROVE f[k] = g[k]
          BY Zenon
        <4>1. k \in 0 .. n - 1 /\ k \in 0 .. n
          BY <2>2, <2>4
        <4> QED
          BY Zenon, <3>3, <3>4, <4>1
      <3>6. g = [m \in 0 .. n |-> IF m = 0 THEN 0 ELSE Down(g[m - 1], path[m])]
        BY Zenon, <3>5 DEF g
      <3> QED
        BY Zenon, <2>2, <3>6 DEF Walk
    <2> QED
      BY <2>2, <2>3, <2>4
  <1>3. Walk(Len(path))
    BY <1>1, <1>2
  <1> DEFINE F == CHOOSE f : f = [n \in 0 .. Len(path) |->
                                    IF n = 0 THEN 0 ELSE Down(f[n - 1], path[n])]
  <1>4. Reach(path, F)
    BY Zenon, <1>3 DEF Walk, Reach
  <1>5. mfs_iget(path) = F[Len(path)]
    BY Zenon DEF mfs_iget
  <1> QED
    BY Zenon, <1>4, <1>5

\* mfs_iget of the root directory is the root inode.
LEMMA IgetRoot == mfs_iget(<<>>) = 0
  <1>1. <<>> \in Seq(NameSet) /\ Len(<<>>) = 0
    OBVIOUS
  <1>2. PICK f : Reach(<<>>, f) /\ mfs_iget(<<>>) = f[Len(<<>>)]
    BY Zenon, <1>1, ReachExists
  <1>3. 0 \in 0 .. Len(<<>>)
    BY <1>1
  <1> QED
    BY Zenon, <1>1, <1>2, <1>3 DEF Reach

\* One more name at the end of a path is one more step down.
LEMMA IgetAppend ==
    ASSUME NEW p \in Seq(NameSet), NEW name \in NameSet
    PROVE  mfs_iget(Append(p, name)) = Down(mfs_iget(p), name)
  <1> DEFINE q == Append(p, name)
             N == Len(p)
  <1>1. /\ q \in Seq(NameSet) /\ N \in Nat /\ Len(q) = N + 1 /\ q[N + 1] = name
        /\ \A m \in 1 .. N : q[m] = p[m]
    OBVIOUS
  <1> HIDE DEF q
  <1>2. PICK f : Reach(p, f) /\ mfs_iget(p) = f[N]
    BY Zenon, ReachExists
  <1>3. PICK g : Reach(q, g) /\ mfs_iget(q) = g[Len(q)]
    BY Zenon, <1>1, ReachExists
  <1> HIDE DEF N
  <1>4. \A m \in 0 .. N : f[m] = IF m = 0 THEN 0 ELSE Down(f[m - 1], p[m])
    BY Zenon, <1>2 DEF Reach, N
  <1>5. \A m \in 0 .. N + 1 : g[m] = IF m = 0 THEN 0 ELSE Down(g[m - 1], q[m])
    BY Zenon, <1>1, <1>3 DEF Reach
  <1> DEFINE Apart == {m \in 0 .. N : f[m] # g[m]}
  <1>6. Apart = {}
    <2> SUFFICES ASSUME Apart # {} PROVE FALSE
      OBVIOUS
    <2>1. Apart \in SUBSET Nat
      BY <1>1
    <2>2. PICK m \in Apart : \A k \in Apart : m <= k
      <3> HIDE DEF Apart
      <3> QED
        BY Zenon, <2>1, LeastNat
    <2>3. m \in 0 .. N /\ m \in 0 .. N + 1 /\ f[m] # g[m]
      BY <1>1, <2>2
    <2>4. m # 0
      BY Zenon, <1>4, <1>5, <2>3
    <2>5. f[m - 1] = g[m - 1]
      BY SMTT(30), <1>1, <2>2, <2>3, <2>4
    <2>6. p[m] = q[m]
      BY SMTT(30), <1>1, <2>3, <2>4
    <2> QED
      BY Zenon, <1>4, <1>5, <2>3, <2>4, <2>5, <2>6
  <1>7. f[N] = g[N]
    BY <1>1, <1>6
  <1>8. N + 1 \in 0 .. N + 1 /\ N + 1 # 0 /\ (N + 1) - 1 = N
    BY <1>1
  <1>9. g[N + 1] = Down(g[N], name)
    BY Zenon, <1>1, <1>5, <1>8
  <1> QED
    BY Zenon, <1>1, <1>2, <1>3, <1>7, <1>9 DEF q

\* No two children of a directory have the same name.
LEMMA NamesDiffer ==
    ASSUME Linked, Hosted, NEW j \in ibmp \ {0}, NEW k \in ibmp \ {0},
           inode[j].parent = inode[k].parent, inode[j].name = inode[k].name
    PROVE  j = k
  <1>a. PICK r \in made : r.ino = j
    BY Zenon DEF Hosted
  <1>b. PICK s \in made : s.ino = k
    BY Zenon DEF Hosted
  <1>2. PICK q \in made : q.ino = inode[j].parent /\ r.path = Append(q.path, inode[j].name)
    BY Zenon, <1>a DEF Hosted
  <1>3. PICK t \in made : t.ino = inode[k].parent /\ s.path = Append(t.path, inode[k].name)
    BY Zenon, <1>b DEF Hosted
  <1>4. q = t
    <2>1. q.ino = t.ino
      BY Zenon, <1>2, <1>3
    <2> QED
      BY Zenon, <2>1 DEF Hosted
  <1>5. r.path = s.path
    BY Zenon, <1>2, <1>3, <1>4
  <1> QED
    BY Zenon, <1>a, <1>b, <1>5 DEF Hosted

\* From its directory the walk along the siblings comes to every child: it
\* passes only children with other names, and cannot pass this one.
LEMMA ChildFound ==
    ASSUME Linked, Hosted, NEW k \in ibmp \ {0}
    PROVE  Down(inode[k].parent, inode[k].name) = k
  <1> DEFINE i == inode[k].parent
             name == inode[k].name
             Missed == {j \in ibmp : j >= k /\ inode[j].parent = i /\ Sibling(name, j) # k}
  <1>1. /\ ibmp \subseteq Ino /\ ibmp \subseteq Nat
        /\ \A j \in Ino : inode[j].next \in Ino /\ (j # 0 => inode[j].next < j)
    BY Zenon, Numbers
  <1>2. Missed = {}
    <2> SUFFICES ASSUME Missed # {} PROVE FALSE
      OBVIOUS
    <2>1. Missed \in SUBSET Nat
      BY Zenon, <1>1
    <2>2. PICK j \in Missed : \A m \in Missed : j <= m
      <3> HIDE DEF Missed
      <3> QED
        BY Zenon, <2>1, LeastNat
    <2>3. j \in ibmp /\ j \in Ino /\ j >= k /\ inode[j].parent = i /\ Sibling(name, j) # k
      BY Zenon, <1>1, <2>2
    <2>4. j # 0
      BY <1>1, <2>3
    <2>5. inode[j].name # name
      <3> SUFFICES ASSUME inode[j].name = name PROVE FALSE
        OBVIOUS
      <3>1. j = k
        BY Zenon, NamesDiffer, <2>3, <2>4
      <3> QED
        BY Zenon, SiblingStep, <2>3, <3>1
    <2>6. j # k
      BY Zenon, <2>5
    <2> DEFINE m == inode[j].next
    <2>7. Sibling(name, j) = Sibling(name, m)
      BY Zenon, SiblingStep, <2>3, <2>4, <2>5
    <2>8. m >= k /\ m < j /\ m \in Nat
      <3>0. k \in Nat /\ j \in Nat
        BY Zenon, <1>1, <2>3
      <3>1. k < j
        BY ONLY <2>3, <2>6, <3>0
      <3>2. k <= m
        BY Zenon, <2>3, <2>4, <3>1 DEF Linked
      <3> QED
        BY <1>1, <2>3, <2>4, <3>2 DEF Ino
    <2>9. m \in ibmp /\ m # 0
      BY SMTT(30), <1>1, <2>3, <2>8 DEF Linked
    <2>10. inode[m].parent = i
      BY Zenon, <2>3, <2>4, <2>9 DEF Linked
    <2>11. m \in Missed
      BY Zenon, <2>3, <2>7, <2>8, <2>9, <2>10
    <2>12. j <= m
      BY Zenon, <2>2, <2>11
    <2> QED
      BY <1>1, <2>3, <2>8, <2>12
  <1>3. /\ inode[i].child \in ibmp /\ inode[i].child >= k
        /\ inode[inode[i].child].parent = i
    <2>1. i \in ibmp /\ k <= inode[i].child
      BY Zenon DEF Linked
    <2>2. inode[i].child \in Nat
      BY Zenon, <1>1, <2>1, Numbers
    <2>3. inode[i].child # 0 /\ inode[i].child >= k
      <3> DEFINE c == inode[i].child
      <3>1. k \in Nat /\ k # 0 /\ c \in Nat /\ k <= c
        BY Zenon, <1>1, <2>1, <2>2
      <3>2. c # 0 /\ c >= k
        <4> HIDE DEF c
        <4> QED
          BY ONLY <3>1
      <3> QED
        BY Zenon, <3>2
    <2> QED
      BY Zenon, <2>1, <2>3 DEF Linked
  <1>4. Sibling(name, inode[i].child) = k
    BY Zenon, <1>2, <1>3
  <1> QED
    BY Zenon, <1>4 DEF Down

\* In a linked tree every path leads to its inode: the shortest one that did
\* not would be one step below a path that does.
LEMMA TreeFound == Linked /\ Hosted => PathsFound
  <1> SUFFICES ASSUME Linked, Hosted PROVE PathsFound
    OBVIOUS
  <1> DEFINE Lost(n) == \E r \in made : Len(r.path) = n /\ mfs_iget(r.path) # r.ino
             Bad == {n \in Nat : Lost(n)}
  <1>1. Bad = {}
    <2> SUFFICES ASSUME Bad # {} PROVE FALSE
      OBVIOUS
    <2>1. PICK n \in Bad : \A m \in Bad : n <= m
      <3>1. Bad \in SUBSET Nat
        OBVIOUS
      <3> HIDE DEF Bad
      <3> QED
        BY Zenon, <3>1, LeastNat
    <2>2. PICK r \in made : Len(r.path) = n /\ mfs_iget(r.path) # r.ino
      BY Zenon, <2>1
    <2>3. r.ino # 0
      BY Zenon, <2>2, IgetRoot DEF Hosted
    <2>4. PICK q \in made : q.ino = inode[r.ino].parent /\ r.path = Append(q.path, inode[r.ino].name)
      BY Zenon, <2>3 DEF Hosted
    <2>5. q.path \in Seq(NameSet) /\ r.path \in Seq(NameSet) /\ r.ino \in ibmp \ {0}
      BY Zenon, <2>3 DEF Hosted
    <2> DEFINE x == inode[r.ino].name
    <2> HIDE DEF x
    <2>6. x \in NameSet /\ Len(q.path) \in Nat /\ Len(q.path) + 1 = n
      <3>1. r.path = Append(q.path, x)
        BY Zenon, <2>4 DEF x
      <3>2. Len(r.path) = Len(q.path) + 1 /\ r.path[Len(q.path) + 1] = x
        BY SMTT(30), <2>5, <3>1
      <3> QED
        BY <2>2, <2>5, <3>2
    <2>7. Len(q.path) \notin Bad
      <3> HIDE DEF Bad
      <3> QED
        BY <2>1, <2>6
    <2>8. mfs_iget(q.path) = q.ino
      BY Zenon, <2>6, <2>7
    <2>9. mfs_iget(r.path) = Down(mfs_iget(q.path), x)
      BY Zenon, <2>4, <2>5, <2>6, IgetAppend DEF x
    <2> QED
      BY Zenon, <2>2, <2>4, <2>5, <2>8, <2>9, ChildFound DEF x
  <1> QED
    <2> SUFFICES ASSUME NEW r \in made PROVE mfs_iget(r.path) = r.ino
      BY Zenon DEF PathsFound
    <2>1. Len(r.path) \in Nat
      BY DEF Hosted
    <2> QED
      BY Zenon, <1>1, <2>1

\* The new image has only the root.
LEMMA InitLinked == Init => Linked /\ Hosted
  <1> SUFFICES ASSUME Init PROVE Linked /\ Hosted
    OBVIOUS
  <1>1. /\ 0 \in Ino /\ 1 \in 1 .. NInode /\ {0} = 0 .. 1 - 1
        /\ Empty \in Node /\ [Empty EXCEPT !.name = Root, !.dir = TRUE] \in Node
    <2>1. 0 \in Ino /\ 1 \in 1 .. NInode /\ {0} = 0 .. 1 - 1
      BY SMTT(30), MkmfsAssumption DEF Ino
    <2>2. Empty \in Node
      BY <2>1 DEF Node, Empty
    <2>3. [Empty EXCEPT !.name = Root, !.dir = TRUE] \in Node
      BY Zenon, <2>2 DEF Node
    <2> QED
      BY Zenon, <2>1, <2>2, <2>3
  <1>2. ibmp = {0} /\ made = {[path |-> <<>>, ino |-> 0, dir |-> TRUE]}
    BY Zenon DEF Init
  <1>3. inode \in [Ino -> Node]
    BY Zenon, <1>1 DEF Init
  <1>4. \A k \in Ino : inode[k].next = 0 /\ inode[k].child = 0
    BY Zenon DEF Init, Empty
  <1>5. \A k \in Ino \ {0} : inode[k].next < k
    BY <1>4 DEF Ino
  <1>6. Linked
    BY Zenon, <1>1, <1>2, <1>3, <1>4, <1>5 DEF Linked
  <1>7. Hosted
    BY <1>2 DEF Hosted
  <1> QED
    BY Zenon, <1>6, <1>7

\* The fields of the inodes after Enter: one is filled in, and one has a new
\* first child.
Entered(i, p, name) ==
    /\ inode' \in [Ino -> Node]
    /\ inode'[i].name = name /\ inode'[i].next = inode[p].child
    /\ inode'[i].parent = p /\ inode'[i].child = 0
    /\ inode'[p].child = i
    /\ \A k \in Ino \ {i} : /\ inode'[k].name = inode[k].name
                            /\ inode'[k].next = inode[k].next
                            /\ inode'[k].parent = inode[k].parent
    /\ \A k \in Ino \ {i, p} : inode'[k].child = inode[k].child

\* Enter leaves these fields.
LEMMA EnterFields ==
    ASSUME Linked, NEW i \in Ino, NEW p \in Ino, i # p, NEW name \in NameSet,
           NEW dir \in BOOLEAN, NEW n, Enter(i, p, name, dir, n)
    PROVE  Entered(i, p, name)
  <1> DEFINE rec == [name |-> name, dir |-> dir, next |-> inode[p].child,
                     parent |-> p, child |-> 0]
             dad == [inode[p] EXCEPT !.child = i]
  <1>1. inode \in [Ino -> Node] /\ inode[p] \in Node /\ 0 \in Ino
    BY SMTT(30), MkmfsAssumption DEF Linked, Ino
  <1>2. rec \in Node
    BY Zenon, <1>1 DEF Node
  <1>3. /\ dad \in Node /\ dad.child = i /\ dad.name = inode[p].name
        /\ dad.next = inode[p].next /\ dad.parent = inode[p].parent
    BY Zenon, <1>1 DEF Node
  <1> HIDE DEF dad
  <1>4. inode' = [inode EXCEPT ![i] = rec, ![p] = dad]
    <2>1. inode' = [inode EXCEPT ![i] = rec, ![p].child = i]
      BY Zenon DEF Enter
    <2> HIDE DEF rec
    <2> QED
      BY Zenon, <1>1, <2>1 DEF dad
  <1>5. /\ rec.name = name /\ rec.next = inode[p].child /\ rec.parent = p /\ rec.child = 0
    OBVIOUS
  <1> HIDE DEF rec
  <1>6. /\ inode' \in [Ino -> Node] /\ inode'[i] = rec /\ inode'[p] = dad
        /\ \A k \in Ino \ {i, p} : inode'[k] = inode[k]
    BY <1>1, <1>2, <1>3, <1>4
  <1> QED
    <2>1. /\ inode'[i].name = name /\ inode'[i].next = inode[p].child
          /\ inode'[i].parent = p /\ inode'[i].child = 0 /\ inode'[p].child = i
      BY Zenon, <1>3, <1>5, <1>6
    <2>2. \A k \in Ino \ {i} : /\ inode'[k].name = inode[k].name
                               /\ inode'[k].next = inode[k].next
                               /\ inode'[k].parent = inode[k].parent
      <3> TAKE k \in Ino \ {i}
      <3>1. CASE k = p
        BY Zenon, <1>3, <1>6, <3>1
      <3>2. CASE k # p
        BY Zenon, <1>6, <3>2
      <3> QED
        BY Zenon, <3>1, <3>2
    <2>3. \A k \in Ino \ {i, p} : inode'[k].child = inode[k].child
      BY Zenon, <1>6
    <2> QED
      BY Zenon, <1>6, <2>1, <2>2, <2>3 DEF Entered

\* A new inode in front of the children of a directory leaves a linked tree,
\* as its number is above all others.
LEMMA EnterStep ==
    ASSUME Linked, Hosted, NEW parent \in made, NEW name \in NameSet, NEW dir \in BOOLEAN,
           NEW i \in Ino, NEW n, mfs_seekbmp(ibmp, NInode, i),
           \A r \in made : r.path # Append(parent.path, name),
           Enter(i, parent.ino, name, dir, n), Made(parent, name, i, dir)
    PROVE  Linked' /\ Hosted'
  <1> DEFINE p == parent.ino
  <1>1. PICK t \in 1 .. NInode : ibmp = 0 .. t - 1
    BY Zenon DEF Linked
  <1>2. t = i
    BY <1>1, FirstFit, MkmfsAssumption DEF Ino
  <1>3. p \in ibmp /\ p \in Ino /\ p < i /\ i # p /\ i \in Nat /\ p \in Nat
    <2>1. p \in ibmp
      BY Zenon DEF Hosted
    <2>2. p \in 0 .. i - 1 /\ i \in Nat /\ ibmp \subseteq Ino
      BY Zenon, <1>1, <1>2, <2>1, Numbers
    <2> HIDE DEF p
    <2> QED
      BY <2>1, <2>2
  <1>4. ibmp' = ibmp \cup {i}
    BY Zenon DEF Enter
  <1>5. /\ inode' \in [Ino -> Node]
        /\ inode'[i].name = name /\ inode'[i].next = inode[p].child
        /\ inode'[i].parent = p /\ inode'[i].child = 0
        /\ inode'[p].child = i
        /\ \A k \in Ino \ {i} : /\ inode'[k].name = inode[k].name
                                /\ inode'[k].next = inode[k].next
                                /\ inode'[k].parent = inode[k].parent
        /\ \A k \in Ino \ {i, p} : inode'[k].child = inode[k].child
    <2>1. Entered(i, p, name)
      BY Zenon, <1>3, EnterFields
    <2> QED
      BY Zenon, <2>1 DEF Entered
  <1>6. /\ ibmp \subseteq Ino /\ Ino \subseteq Nat /\ i \notin ibmp
        /\ \A k \in ibmp : k < i
    BY SMTT(30), <1>1, <1>2, Numbers
  <1>7. inode[p].child < i /\ inode[p].child \in Ino /\ (inode[p].child # 0 => inode[p].child \in ibmp)
    <2>1. inode[p].child \in Ino /\ (inode[p].child # 0 => inode[p].child \in ibmp)
      BY Zenon, <1>3, Numbers DEF Linked
    <2> DEFINE c == inode[p].child
    <2>2. c \in Ino /\ (c # 0 => c < i)
      BY Zenon, <1>6, <2>1
    <2>3. c < i
      <3> HIDE DEF c, p
      <3> QED
        BY SMTT(30), <1>3, <1>6, <2>2
    <2> QED
      BY Zenon, <2>1, <2>3
  <1> HIDE DEF p
  <1>8. Linked'
    <2>1. \E m \in 1 .. NInode : ibmp' = 0 .. m - 1
      <3>1. i + 1 \in 1 .. NInode /\ ibmp' = 0 .. (i + 1) - 1
        BY SMTT(30), <1>1, <1>2, <1>4, MkmfsAssumption DEF Ino
      <3> QED
        BY Zenon, <3>1
    <2>2. \A k \in Ino \ {0} : inode'[k].next < k
      <3> TAKE k \in Ino \ {0}
      <3>1. CASE k = i
        BY Zenon, <1>5, <1>7, <3>1
      <3>2. CASE k # i
        <4>1. inode'[k].next = inode[k].next /\ inode[k].next < k
          BY Zenon, <1>5, <3>2, Numbers
        <4> QED
          BY Zenon, <4>1
      <3> QED
        BY Zenon, <3>1, <3>2
    <2>3. ASSUME NEW k \in ibmp' \ {0}
          PROVE  /\ inode'[k].parent \in ibmp' /\ k <= inode'[inode'[k].parent].child
                 /\ inode'[k].next # 0 => inode'[inode'[k].next].parent = inode'[k].parent
      <3>1. CASE k = i
        <4>1. inode'[k].parent = p /\ inode'[p].child = i /\ inode'[k].next = inode[p].child
          BY Zenon, <1>5, <3>1
        <4>2. inode[p].child # 0 => inode'[inode[p].child].parent = p
          <5> SUFFICES ASSUME inode[p].child # 0 PROVE inode'[inode[p].child].parent = p
            OBVIOUS
          <5>1. inode[p].child \in ibmp /\ inode[inode[p].child].parent = p
            BY Zenon, <1>3 DEF Linked
          <5>2. inode[p].child \in Ino \ {i}
            BY Zenon, <1>6, <5>1
          <5> QED
            BY Zenon, <1>5, <5>1, <5>2
        <4> QED
          BY <1>3, <1>4, <3>1, <4>1, <4>2
      <3>2. CASE k # i
        <4>1. k \in ibmp \ {0} /\ k \in Ino \ {i} /\ k \in Nat /\ k < i
          BY Zenon, <1>4, <1>6, <3>2
        <4>2. /\ inode[k].parent \in ibmp /\ k <= inode[inode[k].parent].child
              /\ inode[k].next # 0 => inode[inode[k].next].parent = inode[k].parent
          BY Zenon, <4>1 DEF Linked
        <4>3. inode[k].next \in Ino \ {i}
          <5>1. inode[k].next \in Ino /\ inode[k].next < k
            BY Zenon, <4>1, Numbers
          <5> QED
            BY SMTT(30), <1>6, <4>1, <5>1
        <4>4. inode'[k].parent = inode[k].parent /\ inode'[k].next = inode[k].next
          BY Zenon, <1>5, <4>1
        <4>5. inode'[inode[k].next].parent = inode[inode[k].next].parent
          BY Zenon, <1>5, <4>3
        <4>6. k <= inode'[inode[k].parent].child
          <5>1. CASE inode[k].parent = p
            <6>1. inode'[inode[k].parent].child = i
              BY Zenon, <1>5, <5>1
            <6> QED
              BY <1>3, <4>1, <6>1
          <5>2. CASE inode[k].parent # p
            <6>1. inode[k].parent \in Ino \ {i, p}
              BY Zenon, <1>6, <4>2, <5>2
            <6> QED
              BY Zenon, <1>5, <4>2, <6>1
          <5> QED
            BY Zenon, <5>1, <5>2
        <4> QED
          BY Zenon, <1>4, <4>2, <4>4, <4>5, <4>6
      <3> QED
        BY Zenon, <3>1, <3>2
    <2>4. ASSUME NEW k \in ibmp', inode'[k].child # 0
          PROVE  inode'[k].child \in ibmp' /\ inode'[inode'[k].child].parent = k
      <3>1. k # i
        BY Zenon, <1>5, <2>4
      <3>2. CASE k = p
        BY Zenon, <1>4, <1>5, <3>2
      <3>3. CASE k # p
        <4>1. k \in ibmp /\ k \in Ino \ {i, p}
          BY Zenon, <1>4, <1>6, <3>1, <3>3
        <4>2. inode'[k].child = inode[k].child
          BY Zenon, <1>5, <4>1
        <4>3. inode[k].child \in ibmp /\ inode[inode[k].child].parent = k
          BY Zenon, <2>4, <4>1, <4>2 DEF Linked
        <4>4. inode[k].child \in Ino \ {i}
          BY Zenon, <1>6, <4>3
        <4> QED
          BY Zenon, <1>4, <1>5, <4>2, <4>3, <4>4
      <3> QED
        BY Zenon, <3>2, <3>3
    <2>5. ASSUME NEW j \in ibmp' \ {0}, NEW k \in ibmp' \ {0},
                 inode'[j].parent = inode'[k].parent, j < k
          PROVE  j <= inode'[k].next
      <3>1. j \in ibmp \ {0} /\ j \in Ino \ {i} /\ j \in Nat
        <4>1. j # i
          BY SMTT(30), <1>3, <1>4, <1>6, <2>5
        <4> QED
          BY Zenon, <1>4, <1>6, <4>1
      <3>2. inode'[j].parent = inode[j].parent
        BY Zenon, <1>5, <3>1
      <3>3. CASE k = i
        <4>1. inode[j].parent = p
          BY Zenon, <1>5, <2>5, <3>2, <3>3
        <4>2. j <= inode[p].child
          BY Zenon, <3>1, <4>1 DEF Linked
        <4> QED
          BY Zenon, <1>5, <3>3, <4>2
      <3>4. CASE k # i
        <4>1. k \in ibmp \ {0} /\ k \in Ino \ {i}
          BY Zenon, <1>4, <1>6, <3>4
        <4>2. inode'[k].parent = inode[k].parent /\ inode'[k].next = inode[k].next
          BY Zenon, <1>5, <4>1
        <4>3. j <= inode[k].next
          BY Zenon, <2>5, <3>1, <3>2, <4>1, <4>2 DEF Linked
        <4> QED
          BY Zenon, <4>2, <4>3
      <3> QED
        BY Zenon, <3>3, <3>4
    <2> QED
      BY Zenon, <1>5, <2>1, <2>2, <2>3, <2>4, <2>5 DEF Linked
  <1>9. Hosted'
    <2> DEFINE new == [path |-> Append(parent.path, name), ino |-> i, dir |-> dir]
    <2>1. made' = made \cup {new} /\ new.ino = i /\ new.path = Append(parent.path, name)
      BY Zenon DEF Made
    <2> HIDE DEF new
    <2>2. new.path \in Seq(NameSet)
      <3>1. parent.path \in Seq(NameSet)
        BY Zenon DEF Hosted
      <3> QED
        BY SMTT(30), <2>1, <3>1
    <2>3. \A r \in made : r.ino \in ibmp /\ r.ino # i /\ r.path # new.path
      BY Zenon, <1>6, <2>1 DEF Hosted
    <2>4. \A k \in ibmp' : \E r \in made' : r.ino = k
      BY Zenon, <1>4, <2>1 DEF Hosted
    <2>5. \A r \in made' : r.ino \in ibmp' /\ r.path \in Seq(NameSet)
      BY Zenon, <1>4, <2>1, <2>2 DEF Hosted
    <2>6. \A q, r \in made' : q.path = r.path \/ q.ino = r.ino => q = r
      <3> TAKE q \in made', r \in made'
      <3>1. CASE q \in made /\ r \in made
        BY Zenon, <3>1 DEF Hosted
      <3>2. CASE q = new
        BY Zenon, <2>1, <2>3, <3>2
      <3>3. CASE r = new
        BY Zenon, <2>1, <2>3, <3>3
      <3> QED
        BY Zenon, <2>1, <3>1, <3>2, <3>3
    <2>7. ASSUME NEW r \in made'
          PROVE  IF r.ino = 0 THEN r.path = <<>>
                 ELSE \E q \in made' : /\ q.ino = inode'[r.ino].parent
                                       /\ r.path = Append(q.path, inode'[r.ino].name)
      <3>1. CASE r = new
        <4>1. i # 0
          BY <1>3
        <4> QED
          BY Zenon, <1>5, <2>1, <3>1, <4>1 DEF p
      <3>2. CASE r \in made
        <4>1. r.ino \in Ino \ {i}
          BY Zenon, <1>6, <2>3, <3>2
        <4>2. inode'[r.ino].parent = inode[r.ino].parent /\ inode'[r.ino].name = inode[r.ino].name
          BY Zenon, <1>5, <4>1
        <4>3. IF r.ino = 0 THEN r.path = <<>>
              ELSE \E q \in made : /\ q.ino = inode[r.ino].parent
                                   /\ r.path = Append(q.path, inode[r.ino].name)
          BY Zenon, <3>2 DEF Hosted
        <4> QED
          BY Zenon, <2>1, <4>2, <4>3
      <3> QED
        BY Zenon, <2>1, <3>1, <3>2
    <2> QED
      BY Zenon, <2>4, <2>5, <2>6, <2>7 DEF Hosted
  <1> QED
    BY Zenon, <1>8, <1>9

\* mfs_mkdir and mfs_write find the directory they were given, and enter the
\* new inode there.
LEMMA MakeStep ==
    ASSUME Linked, Hosted, NEW parent \in made, NEW name \in NameSet,
           mfs_mkdir(parent, name) \/ \E size \in Sizes : mfs_write(parent, name, size)
    PROVE  Linked' /\ Hosted'
  <1>1. mfs_iget(parent.path) = parent.ino
    BY Zenon, TreeFound DEF PathsFound
  <1>2. \A r \in made : r.path # Append(parent.path, name)
    BY Zenon DEF mfs_mkdir, mfs_write, New
  <1>3. PICK i \in Ino \cup {-1}, dir \in BOOLEAN :
           /\ mfs_seekbmp(ibmp, NInode, i)
           /\ \/ Exit
              \/ /\ i # -1 /\ Made(parent, name, i, dir)
                 /\ \E n : Enter(i, parent.ino, name, dir, n)
    <2>1. CASE mfs_mkdir(parent, name)
      BY Zenon, <1>1, <2>1 DEF mfs_mkdir
    <2>2. CASE \E size \in Sizes : mfs_write(parent, name, size)
      BY Zenon, <1>1, <2>2 DEF mfs_write
    <2> QED
      BY Zenon, <2>1, <2>2
  <1>4. CASE Exit
    BY Zenon, <1>4 DEF Exit, Linked, Hosted
  <1>5. CASE ~Exit
    <2>1. i \in Ino
      BY Zenon, <1>3, <1>5
    <2> QED
      BY Zenon, <1>2, <1>3, <1>5, <2>1, EnterStep
  <1> QED
    BY Zenon, <1>4, <1>5

\* The tree of inodes is linked, and is the tree of the host files.
THEOREM TreeInvariant == Spec => [](Linked /\ Hosted)
  <1>1. ASSUME Linked /\ Hosted, [Next]_vars PROVE (Linked /\ Hosted)'
    <2>1. CASE \E parent \in made, name \in NameSet :
                 mfs_mkdir(parent, name) \/ \E size \in Sizes : mfs_write(parent, name, size)
      BY Zenon, <1>1, <2>1, MakeStep
    <2>2. CASE UNCHANGED <<ibmp, inode, made>>
      BY Zenon, <1>1, <2>2 DEF Linked, Hosted
    <2>3. Allocate \/ Finish \/ mfs_end \/ UNCHANGED vars => UNCHANGED <<ibmp, inode, made>>
      BY Zenon DEF Allocate, Exit, Finish, mfs_end, vars
    <2> QED
      BY Zenon, <1>1, <2>1, <2>2, <2>3 DEF Next
  <1> QED
    BY <1>1, InitLinked, PTL DEF Spec

\* mfs_iget finds every host file under its path, in every tree that fits.
THEOREM EveryPathFound == Spec => []PathsFound
  BY TreeInvariant, TreeFound, PTL
=============================================================================
