-------------------------- MODULE MCCentralFreeList --------------------------
(* Instances of CentralFreeList, with its linked lists, for TLC.           *)
EXTENDS SpanLists, TLC

MCSpan == 1 .. NumPages + 2

(* Two classes with PAGE_SIZE = 12 and room for one packed index in an     *)
(* object.  "one" cuts a page into two objects of one chunk and one node;  *)
(* the last one returned is packed.  "two" cuts two pages into three       *)
(* objects of a chunk each, one lying across the page boundary; the last   *)
(* one returned becomes a node.                                            *)
MCClasses == {"one", "two"}
MCSizeClasses == ("one" :> [size |-> 6, pages |-> 1]) @@
                 ("two" :> [size |-> 7, pages |-> 2])

(* One object to the page, so that spans come and go with every call.      *)
MCOnePage == [c \in {"page"} |-> [size |-> PAGE_SIZE, pages |-> 1]]

(* The row {8192, 1} of size_classes.hpp, in KiB: half an object.          *)
MCRow8192 == [c \in {"8192"} |-> [size |-> 8, pages |-> 1]]

(* The sizes the lists ask the page heap for.                              *)
MCSizes == {SizeClasses[c].size : c \in Class}

Symmetry == Permutations(Thread)

=============================================================================
