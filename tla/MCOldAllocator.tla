--------------------------- MODULE MCOldAllocator ---------------------------
(* The instance of OldAllocator for TLC; sizes and addresses are in words  *)
(* of eight bytes.                                                         *)
EXTENDS OldAllocator

=============================================================================
