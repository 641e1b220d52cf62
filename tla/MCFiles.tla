------------------------------ MODULE MCFiles ------------------------------
(* Two devices.  On the first, a file of two blocks, the second half full,
   is followed by one that fills its block; the third file is on the second
   device, at block numbers of the first. *)
EXTENDS Files

MC_dev == [f \in File |-> IF f = 3 THEN 2 ELSE 1]
MC_blkentry == [f \in File |-> IF f = 2 THEN 2 ELSE 0]
MC_size == [f \in File |-> CASE f = 1 -> 4 [] f = 2 -> 3 [] f = 3 -> 2]
MC_mode == [f \in File |-> IF f = 3 THEN {"RD"} ELSE {"RD", "WR"}]
MC_daddr == [d \in {1, 2} |-> 1]
MC_Oflag == {{"RD"}, {"RD", "WR", "APPEND"}, {"WR", "CREAT", "EXCL"}}
MC_Offset == {-1, 0, 2}
=============================================================================
