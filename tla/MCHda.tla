------------------------------- MODULE MCHda -------------------------------
(***************************************************************************)
(* Instances of Hda: a disk of two cylinders, two heads and two sectors    *)
(* with two words in a sector.                                             *)
(***************************************************************************)
EXTENDS Hda

\* No file system, or one after the boot sector, of four sectors, up to
\* the end of the disk, or longer than the geometry (an image that does not fill
\* its last cylinder).
OneFs == {[n \in Sector |-> IF n = 1 THEN size ELSE 0] : size \in {0, 4, DiskSize - 1, DiskSize}}

Req(k, m, o, n) == [kind |-> k, minor |-> m, offset |-> o, n |-> n]

\* On the whole disk, one sector or two, across a track and a cylinder; on the
\* partition blocks of two sectors, the last of them refused or, with the longer
\* file system, at the size of the disk; the superblock with a longer block; on
\* the next entry, its first block.
SomeRequests ==
    {Req(k, 0, o, n) : k \in {"read", "write"}, o \in {2, 4}, n \in {1, 2}} \cup
    {Req(k, 1, o, 2) : k \in {"read", "write"}, o \in {0, 2, 4, 6}} \cup
    {Req("read", 1, 0, 3), Req("read", 2, 0, 2)}
=============================================================================
