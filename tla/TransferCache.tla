---------------------------- MODULE TransferCache ----------------------------
(***************************************************************************)
(* The transfer cache of one size class (transfer_cache.hpp): a bounded    *)
(* stack of pointers behind a mutex.  slots is the occupied part of the    *)
(* array, [0, used_slots).  Each operation is one critical section; it     *)
(* moves as many pointers as fit, never an error.                          *)
(***************************************************************************)
EXTENDS Integers, Sequences

CONSTANT TRANSFER_CACHE_CAPACITY

ASSUME TransferCacheAssumption == TRANSFER_CACHE_CAPACITY \in Nat

Fewer(m, n) == IF m < n THEN m ELSE n

(* How many of the n pointers offered InsertRange takes.                   *)
to_insert(slots, n) == Fewer(n, TRANSFER_CACHE_CAPACITY - Len(slots))

(* The slots after InsertRange: the first pointers of the batch go on top. *)
InsertRange(slots, batch) ==
    slots \o SubSeq(batch, 1, to_insert(slots, Len(batch)))

(* What InsertRange leaves to the caller.                                  *)
not_inserted(slots, batch) ==
    SubSeq(batch, to_insert(slots, Len(batch)) + 1, Len(batch))

to_remove(slots, n) == Fewer(n, Len(slots))

(* The slots after RemoveRange, and the pointers it copied out.            *)
RemoveRange(slots, n) == SubSeq(slots, 1, Len(slots) - to_remove(slots, n))

removed(slots, n) ==
    SubSeq(slots, Len(slots) - to_remove(slots, n) + 1, Len(slots))

=============================================================================
