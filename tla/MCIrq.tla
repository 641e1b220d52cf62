------------------------------- MODULE MCIrq -------------------------------
(* The clock, the keyboard and the disk; timer handlers change the mask of
   another line of the disk's controller. *)
EXTENDS Irq
=============================================================================
