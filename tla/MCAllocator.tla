----------------------------- MODULE MCAllocator -----------------------------
(* The instance of Allocator for TLC; MCAllocator.cfg gives the constants. *)
EXTENDS Allocator

=============================================================================
