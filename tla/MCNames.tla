------------------------------ MODULE MCNames ------------------------------
(* Two names and three paths; an empty file system, and one with a file "a" *)
(* and a directory "b".                                                     *)
EXTENDS Names

MCPath == {<<"a">>, <<"b">>, <<"b", "a">>}

MCUnused == [name |-> "", dir |-> FALSE, next |-> 0, child |-> 0]

MCEmpty == [inode |-> [i \in Ino |-> MCUnused], ibmp |-> {0}]

MCFull ==
    [inode |-> [i \in Ino |->
       CASE i = 0 -> [name |-> "", dir |-> TRUE, next |-> 0, child |-> 1]
         [] i = 1 -> [name |-> "a", dir |-> FALSE, next |-> 2, child |-> 0]
         [] i = 2 -> [name |-> "b", dir |-> TRUE, next |-> 0, child |-> 0]
         [] OTHER -> MCUnused],
     ibmp |-> 0 .. 2]

MCImages == {MCEmpty, MCFull}
=============================================================================
