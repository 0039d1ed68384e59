----------------------------- MODULE MCPageHeap -----------------------------
(* Instances of PageHeap for TLC.                                          *)
EXTENDS PageHeap

(* One Span object per page, and the two that a carving may need.          *)
MCSpan == 1 .. NumPages + 2

=============================================================================
