----------------------------- MODULE RegionSpec -----------------------------
(***************************************************************************)
(* What any allocator of this repository promises to its users: a region   *)
(* of memory <<first byte, length>> it hands out shares no byte with a     *)
(* region somebody still holds, and a region neither moves nor changes its *)
(* length until its holder gives it back.                                  *)
(***************************************************************************)
EXTENDS Integers

VARIABLE regions   \* the regions users hold

Disjoint(r, q) == r[1] + r[2] <= q[1] \/ q[1] + q[2] <= r[1]

HandOut(r) ==
    /\ r \notin regions
    /\ \A q \in regions : Disjoint(r, q)
    /\ regions' = regions \cup {r}

GiveBack(r) ==
    /\ r \in regions
    /\ regions' = regions \ {r}

(* The allocator is destroyed with everything its users still hold.        *)
Destroy == regions' = {}

SpecInit == regions = {}

SpecNext ==
    \/ \E r \in regions' : HandOut(r)
    \/ \E r \in regions : GiveBack(r)
    \/ Destroy

HoldersSpec == SpecInit /\ [][SpecNext]_regions

=============================================================================
