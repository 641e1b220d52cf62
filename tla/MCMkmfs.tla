------------------------------ MODULE MCMkmfs ------------------------------
(***************************************************************************)
(* Small images: a few inodes and blocks of two bytes.                     *)
(***************************************************************************)
EXTENDS Mkmfs

\* No byte, a part of a block, one block exactly, and a block and a half.
SomeSizes == {0, 1, 2, 3}
=============================================================================
