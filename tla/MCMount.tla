------------------------------ MODULE MCMount ------------------------------
(***************************************************************************)
(* An instance of Mount: devices 0, which is also in the untouched         *)
(* entries, 1 and 2 with a file system and 3 without.                      *)
(***************************************************************************)
EXTENDS Mount

Devs == 0 .. 3
Inos == {1}
WithMfs == 0 .. 2
=============================================================================
