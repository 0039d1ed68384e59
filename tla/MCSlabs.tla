------------------------------ MODULE MCSlabs ------------------------------
(* Instances of Slabs for TLC.                                             *)
EXTENDS Slabs, TLC

Symmetry == Permutations(Ptr) \cup Permutations(Thread)

=============================================================================
