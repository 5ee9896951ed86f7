--------------------------- MODULE ObjectTableMC ---------------------------
(***************************************************************************)
(* Instances of ObjectTable for TLC: objects without names, and objects    *)
(* that share a name.                                                      *)
(***************************************************************************)
EXTENDS ObjectTable

CONSTANTS o1, o2, n1, t1, t2

\* Threads are interchangeable, and so are unnamed objects.
Symmetry == Permutations({t1, t2}) \union Permutations({o1, o2})

Unnamed  == [o \in Objects |-> NoName]
SameName == [o \in Objects |-> n1]

SomeNamings == {Unnamed, SameName}
OneNaming   == {SameName}
=============================================================================
