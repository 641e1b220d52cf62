----------------------------- MODULE BlockStore -----------------------------
(***************************************************************************)
(* What the sector cache promises to the file system: a block reads as     *)
(* what was last stored in it.  Buffers, lists and the time at which       *)
(* anything reaches the disk are invisible.                                *)
(***************************************************************************)
EXTENDS Integers

CONSTANTS Block,      \* the blocks of all devices
          MaxVersion  \* bound: how often one block is changed

VARIABLE store        \* the content of each block

\* A change made in place to content c.
Changed(c) == [c EXCEPT !.version = @ + 1]

Init == store = [k \in Block |-> [origin |-> k, version |-> 0]]

Change(k) ==
    /\ store[k].version < MaxVersion
    /\ store' = [store EXCEPT ![k] = Changed(@)]

Next == \E k \in Block : Change(k)

Spec == Init /\ [][Next]_store
=============================================================================
