------------------------------ MODULE NameTree ------------------------------
(***************************************************************************)
(* What the name space promises: a tree of names, in which a directory can *)
(* be made in any directory and removed when it is empty.  The entries of  *)
(* a directory are in order, the newest first; an entry is                 *)
(* [name, dir, kids].                                                      *)
(***************************************************************************)
EXTENDS Integers, Sequences

CONSTANT Path   \* paths: sequences of names

VARIABLE tree   \* the entries of the root

\* The first entry of a name; 0 if there is none.
Place(kids, name) ==
    IF \E i \in DOMAIN kids : kids[i].name = name
      THEN CHOOSE i \in DOMAIN kids :
             kids[i].name = name /\ \A j \in 1 .. i - 1 : kids[j].name # name
      ELSE 0

\* The trees after making and removing path; kids itself if that is impossible.
RECURSIVE Make(_, _)
Make(kids, path) ==
    IF Len(path) = 1
      THEN <<[name |-> Head(path), dir |-> TRUE, kids |-> <<>>]>> \o kids
      ELSE LET i == Place(kids, Head(path))
           IN IF i = 0 THEN kids
              ELSE [kids EXCEPT ![i].kids = Make(@, Tail(path))]

RECURSIVE Remove(_, _)
Remove(kids, path) ==
    LET i == Place(kids, Head(path))
    IN CASE i = 0 -> kids
         [] i # 0 /\ Len(path) > 1 -> [kids EXCEPT ![i].kids = Remove(@, Tail(path))]
         [] i # 0 /\ Len(path) = 1 ->
              IF kids[i].dir /\ kids[i].kids = <<>>
                THEN SubSeq(kids, 1, i - 1) \o SubSeq(kids, i + 1, Len(kids))
                ELSE kids

Next == \E path \in Path : tree' \in {Make(tree, path), Remove(tree, path)}

Spec == [][Next]_tree
=============================================================================
