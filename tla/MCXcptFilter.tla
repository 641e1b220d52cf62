---------------------------- MODULE MCXcptFilter ----------------------------
(* Exception filters on a small stack: kmain, three levels of calls with a *)
(* _try each, and an interrupt handler with a _try of its own fit in.      *)
EXTENDS XcptFilter
=============================================================================
