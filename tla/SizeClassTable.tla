--------------------------- MODULE SizeClassTable ---------------------------
(***************************************************************************)
(* The size classes (size_classes.hpp) and the layout of the slabs that is *)
(* derived from them (config.hpp, slabs.hpp).                              *)
(*                                                                         *)
(* allocate rounds a request up to a class with a binary search over the   *)
(* table; deallocate finds the class of a pointer again with a second one  *)
(* over the size recorded in its span.  Each turn of a search loop is one  *)
(* step.  The layout is computed at compile time and is a function of the  *)
(* table and of MAX_SLAB_POINTERS, here `limit`.                           *)
(***************************************************************************)
EXTENDS Integers

CONSTANTS
    NUM_SIZE_CLASSES,
    SizeClasses,     \* 0 .. NUM_SIZE_CLASSES - 1 -> row of the table
    MAX_BATCH_SIZE,
    Requests,        \* the sizes users ask for
    Limits,          \* the values of MAX_SLAB_POINTERS to lay slabs out for
    CPU,             \* the ids of the CPUs that have a slab
    CACHE_LINE_SIZE,
    CountBytes,      \* sizeof(uint16_t)
    PointerBytes     \* sizeof(void*)

Class == 1 .. NUM_SIZE_CLASSES - 1

ASSUME SizeClassTableAssumption ==
    /\ NUM_SIZE_CLASSES \in Nat \ {0, 1}
    /\ \A i \in Class \cup {0} :
          /\ SizeClasses[i].size \in Nat
          /\ SizeClasses[i].batch_size \in Nat
          /\ SizeClasses[i].byte_budget \in Nat
    (* row 0 stands for large requests; the others are sorted by size *)
    /\ SizeClasses[0].size = 0
    /\ \A i \in Class : /\ SizeClasses[i].batch_size > 0
                        /\ \A j \in 0 .. i - 1 :
                              SizeClasses[j].size < SizeClasses[i].size
    /\ Requests \subseteq Nat
    /\ Limits \subseteq Nat \ {0}
    /\ CPU \subseteq Nat
    /\ {CACHE_LINE_SIZE, CountBytes, PointerBytes} \subseteq Nat \ {0}

(* The widths of the fields: a byte_budget is as wide as a count, and      *)
(* MAX_BATCH_SIZE is a uint8_t.  No batch of the table is larger than the  *)
(* array of MAX_BATCH_SIZE pointers in allocate and deallocate.            *)
ASSUME SizeClassFieldsAssumption ==
    /\ MAX_BATCH_SIZE \in Nat
    /\ MAX_BATCH_SIZE < 2 ^ (8 * CountBytes)
    /\ \A i \in Class : /\ SizeClasses[i].batch_size <= MAX_BATCH_SIZE
                        /\ SizeClasses[i].byte_budget < 2 ^ (8 * CountBytes)

(* Capacities fit the count, so under such limits the product in           *)
(* scaled_capacity fits its uint32_t and needs no width in the model.      *)
ASSUME LimitsAssumption == \A max \in Limits : max <= 2 ^ (8 * CountBytes)

VARIABLES
    limit,   \* MAX_SLAB_POINTERS
    pc,      \* where the call is
    in,      \* the size asked for
    lo, hi,  \* the bounds of the search
    class,   \* the class allocate chose
    idx      \* the class deallocate found

vars == <<limit, pc, in, lo, hi, class, idx>>

-----------------------------------------------------------------------------
(* compute_slab_offsets *)

round_down(n, batch) == (n \div batch) * batch

AtLeast(n, m) == IF n < m THEN m ELSE n

(* What the byte budget of class i pays for, in whole batches.             *)
raw_capacity(i) ==
    LET row == SizeClasses[i]
    IN  AtLeast(round_down(row.byte_budget \div row.size, row.batch_size),
                row.batch_size)

total[i \in 0 .. NUM_SIZE_CLASSES - 1] ==
    IF i = 0 THEN 0 ELSE total[i - 1] + raw_capacity(i)

total_raw == total[NUM_SIZE_CLASSES - 1]

(* Mutant: a capacity scaled down to nothing stays nothing.                *)
ScaledToNothing(i, max) ==
    round_down((raw_capacity(i) * max) \div total_raw,
               SizeClasses[i].batch_size)

scaled_capacity(i, max) ==
    AtLeast(round_down((raw_capacity(i) * max) \div total_raw,
                       SizeClasses[i].batch_size),
            SizeClasses[i].batch_size)

capacity(i, max) ==
    IF i = 0 THEN 0
    ELSE IF total_raw > max THEN scaled_capacity(i, max)
    ELSE raw_capacity(i)

(* Prefix sum: class i owns the pointers [offsets[i], offsets[i + 1]).     *)
offsets == [max \in Limits |->
    LET sum[i \in 0 .. NUM_SIZE_CLASSES] ==
            IF i = 0 THEN 0 ELSE sum[i - 1] + capacity(i - 1, max)
    IN  sum]

(* SIZE_CLASS_CAPACITIES                                                   *)
class_capacity(i, max) == offsets[max][i + 1] - offsets[max][i]

-----------------------------------------------------------------------------
(* The slab of a CPU in memory: the counts, then the pointers *)

align_up(value, alignment) ==
    ((value + alignment - 1) \div alignment) * alignment

SLAB_POINTERS_OFFSET ==
    align_up(NUM_SIZE_CLASSES * CountBytes, CACHE_LINE_SIZE)

(* Mutant: the size of a slab leaves out the counts.                       *)
PointersOnly(max) ==
    align_up(offsets[max][NUM_SIZE_CLASSES] * PointerBytes, CACHE_LINE_SIZE)

SLAB_STRIDE_BYTES(max) ==
    align_up(SLAB_POINTERS_OFFSET
                + offsets[max][NUM_SIZE_CLASSES] * PointerBytes,
             CACHE_LINE_SIZE)

get_slabs(cpu, max) == cpu * SLAB_STRIDE_BYTES(max)

(* The bytes of class i in the slab of a CPU: <<first, one past the last>> *)
count_bytes(cpu, i, max) ==
    LET first == get_slabs(cpu, max) + i * CountBytes
    IN  <<first, first + CountBytes>>

slice_bytes(cpu, i, max) ==
    LET first == get_slabs(cpu, max) + SLAB_POINTERS_OFFSET
                    + offsets[max][i] * PointerBytes
    IN  <<first, first + class_capacity(i, max) * PointerBytes>>

-----------------------------------------------------------------------------
(* The searches *)

(* Mutant: the lower bound stays on a class that is too small.             *)
LowerBoundStays(key) ==
    LET mid == lo + (hi - lo) \div 2
    IN  /\ lo < hi
        /\ IF SizeClasses[mid].size < key
           THEN lo' = mid /\ hi' = hi
           ELSE lo' = lo /\ hi' = mid

(* Mutant: a class of exactly the size looked for is too small.            *)
ExactIsTooSmall(key) ==
    LET mid == lo + (hi - lo) \div 2
    IN  /\ lo < hi
        /\ IF SizeClasses[mid].size <= key
           THEN lo' = mid + 1 /\ hi' = hi
           ELSE lo' = lo /\ hi' = mid

(* One turn of either loop.                                                *)
search_turn(key) ==
    LET mid == lo + (hi - lo) \div 2
    IN  /\ lo < hi
        /\ IF SizeClasses[mid].size < key
           THEN lo' = mid + 1 /\ hi' = hi
           ELSE lo' = lo /\ hi' = mid

(* allocate(in): round_size_class                                          *)
round_begin(size) ==
    /\ pc = "idle"
    /\ in' = size
    /\ IF size = 0
       THEN class' = 1 /\ pc' = "held" /\ UNCHANGED <<lo, hi>>
       ELSE /\ pc' = "round"
            /\ lo' = 1
            /\ hi' = NUM_SIZE_CLASSES - 1
            /\ UNCHANGED class
    /\ UNCHANGED <<limit, idx>>

round_turn ==
    /\ pc = "round"
    /\ search_turn(in)
    /\ UNCHANGED <<limit, pc, in, class, idx>>

(* The local variables of the call are gone.                               *)
call_ends ==
    /\ pc' = "idle"
    /\ in' = 0 /\ lo' = 0 /\ hi' = 0 /\ class' = 0 /\ idx' = 0
    /\ UNCHANGED limit

(* A request above the largest class gets row 0, and allocate nullptr.     *)
round_end ==
    /\ pc = "round"
    /\ lo >= hi
    /\ IF SizeClasses[lo].size >= in
       THEN class' = lo /\ pc' = "held"
       ELSE class' = 0 /\ pc' = "refused"
    /\ UNCHANGED <<limit, in, lo, hi, idx>>

refused ==
    /\ pc = "refused"
    /\ call_ends

(* Mutant: the search begins with the upper bound behind the table.        *)
IndexPastTable ==
    /\ pc = "held"
    /\ pc' = "index"
    /\ lo' = 0
    /\ hi' = NUM_SIZE_CLASSES
    /\ UNCHANGED <<limit, in, class, idx>>

(* deallocate of what allocate returned: the span has the size of the      *)
(* class (ClassRecovered of CentralFreeList); size_class_to_idx.           *)
index_begin ==
    /\ pc = "held"
    /\ pc' = "index"
    /\ lo' = 0
    /\ hi' = NUM_SIZE_CLASSES - 1
    /\ UNCHANGED <<limit, in, class, idx>>

index_turn ==
    /\ pc = "index"
    /\ search_turn(SizeClasses[class].size)
    /\ UNCHANGED <<limit, pc, in, class, idx>>

index_end ==
    /\ pc = "index"
    /\ lo >= hi
    /\ idx' = lo
    /\ pc' = "found"
    /\ UNCHANGED <<limit, in, lo, hi, class>>

(* deallocate goes on with row idx; for row 0 it returns at once.          *)
found ==
    /\ pc = "found"
    /\ call_ends

Init ==
    /\ limit \in Limits
    /\ pc = "idle"
    /\ in = 0
    /\ lo = 0 /\ hi = 0
    /\ class = 0 /\ idx = 0

Next ==
    \/ \E size \in Requests : round_begin(size)
    \/ round_turn \/ round_end \/ refused
    \/ index_begin \/ index_turn \/ index_end \/ found

Spec == Init /\ [][Next]_vars

(* A call that has begun goes on.                                          *)
FairSpec ==
    /\ Spec
    /\ WF_vars(round_turn \/ round_end \/ refused
                  \/ index_turn \/ index_end \/ found)

-----------------------------------------------------------------------------
(* Properties *)

(* Every index the searches use is a row of the table.                     *)
TypeOK ==
    /\ limit \in Limits
    /\ pc \in {"idle", "round", "refused", "held", "index", "found"}
    /\ in \in Requests \cup {0}
    /\ {lo, hi, class, idx} \subseteq 0 .. NUM_SIZE_CLASSES - 1

Fits(i, size) == i \in Class /\ SizeClasses[i].size >= size

(* The class that holds the request with the least waste, 0 if none does.  *)
Smallest(size) ==
    IF \E i \in Class : Fits(i, size)
    THEN CHOOSE i \in Class :
            Fits(i, size) /\ \A j \in Class : Fits(j, size) => i <= j
    ELSE 0

(* "Round a byte size up to the smallest size class that can hold it"      *)
(* (size_classes.hpp:74): allocate uses the smallest class at least as     *)
(* large as the request, and refuses only what no class can hold.  The     *)
(* second search, which starts from other bounds, leads deallocate back to *)
(* the same class.                                                         *)
RoundsUp ==
    /\ pc = "held" => class = Smallest(in)
    /\ pc = "refused" => Smallest(in) = 0
    /\ pc = "found" => idx = class /\ class = Smallest(in)

(* Every class has room for whole batches, and for one at least, whatever  *)
(* the limit: a refilled batch can be published and a full slab drained.   *)
(* A full slab can still be counted in its uint16_t.                       *)
SliceHoldsBatches ==
    pc = "held" =>
        LET cap   == class_capacity(class, limit)
            batch == SizeClasses[class].batch_size
        IN  /\ cap >= batch
            /\ cap % batch = 0
            /\ cap < 2 ^ (8 * CountBytes)

Apart(a, b) == a[2] <= b[1] \/ b[2] <= a[1]

(* The slots and the count of a class overlap no slot and no count of      *)
(* another class or of another CPU.                                        *)
SlicesDisjoint ==
    pc = "held" =>
        \A c \in CPU :
            LET slice == slice_bytes(c, class, limit)
                count == count_bytes(c, class, limit)
            IN  \A d \in CPU, i \in Class :
                    <<c, class>> # <<d, i>> =>
                        /\ Apart(slice, slice_bytes(d, i, limit))
                        /\ Apart(slice, count_bytes(d, i, limit))
                        /\ Apart(count, count_bytes(d, i, limit))

(* Both searches end.                                                      *)
SearchEnds == []<>(pc \in {"idle", "held"})

=============================================================================
