---------------------------- MODULE OldAllocator ----------------------------
(***************************************************************************)
(* The first design of the allocator (old/old_design.hpp): one next-fit    *)
(* free list over a heap grown with sbrk, blocks with a header and a       *)
(* footer (boundary tags) for merging neighbours, and mmap for large       *)
(* requests.                                                               *)
(*                                                                         *)
(* Every operation holds Allocator::mu from start to end, so one call at a *)
(* time is modelled; the search loop of allocate and the loop of the       *)
(* destructor take one step per turn, because whether they end is a        *)
(* question.  Inside an operation the state is a record m that the helpers *)
(* transform one after the other, in the order of the code.                *)
(*                                                                         *)
(* Memory is modelled by its tags: header and footer are functions whose   *)
(* domains are the addresses that hold a tag.  Tags that end up inside a   *)
(* payload are gone, as users may overwrite them; reading one there would  *)
(* be an error of TLC.  The allocator is the only one that moves the       *)
(* program break, so sbrk continues where the heap ends.                   *)
(***************************************************************************)
EXTENDS Integers, FiniteSets, FiniteSetsExt

CONSTANTS
    NULL,
    header_size, footer_size,
    INITIAL_CHUNK, MMAP_THRESHOLD,
    Requests,      \* the sizes users ask for
    BrkBase,       \* where the program break is at first
    BrkLimit,      \* bound: sbrk fails beyond this address
    MapAddr        \* the addresses mmap returns, far apart

ASSUME OldAllocatorAssumption ==
    /\ {header_size, footer_size, INITIAL_CHUNK, MMAP_THRESHOLD, BrkBase,
        BrkLimit} \subseteq Nat \ {0}
    /\ Requests \subseteq Nat /\ MapAddr \subseteq Nat
    /\ NULL \notin Nat
    /\ \A a \in MapAddr :
          /\ a > BrkLimit
          /\ \A b \in MapAddr, r \in Requests :
                a < b => a + r + header_size + footer_size <= b

VARIABLES
    header,           \* address -> Block
    footer,           \* address -> Footer
    free_list, prev_search_end, available_bytes,
    brk_heap_start, brk_heap_end,
    users,            \* block address -> the size its user asked for
    pc, size, prev, curr

heap == <<header, footer, free_list, prev_search_end, available_bytes,
          brk_heap_start, brk_heap_end>>
locals == <<pc, size, prev, curr>>
vars == <<header, footer, free_list, prev_search_end, available_bytes,
          brk_heap_start, brk_heap_end, users, pc, size, prev, curr>>

Memory == [header |-> header, footer |-> footer, free_list |-> free_list,
           prev_search_end |-> prev_search_end,
           available_bytes |-> available_bytes,
           brk_heap_start |-> brk_heap_start, brk_heap_end |-> brk_heap_end]

BecomesMemory(m) ==
    /\ header' = m.header
    /\ footer' = m.footer
    /\ free_list' = m.free_list
    /\ prev_search_end' = m.prev_search_end
    /\ available_bytes' = m.available_bytes
    /\ brk_heap_start' = m.brk_heap_start
    /\ brk_heap_end' = m.brk_heap_end

Put(f, x, v) == [y \in DOMAIN f \cup {x} |-> IF y = x THEN v ELSE f[y]]
Drop(f, x) == [y \in DOMAIN f \ {x} |-> f[y]]

-----------------------------------------------------------------------------
(* Blocks *)

overhead_size == header_size + footer_size

block_span(m, b) == overhead_size + m.header[b].size
block_end(m, b) == b + block_span(m, b)
footer_of(m, b) == b + header_size + m.header[b].size

write_footer(m, b) ==
    [m EXCEPT !.footer = Put(@, footer_of(m, b),
        [size |-> m.header[b].size, mapped |-> m.header[b].mapped])]

set_size(m, b, n) == [m EXCEPT !.header[b].size = n]
set_next(m, b, n) == [m EXCEPT !.header[b].next = n]
set_free(m, b, f) == [m EXCEPT !.header[b].is_free = f]

next_phys(m, b) ==
    IF \/ m.header[b].mapped
       \/ m.brk_heap_end = NULL
       \/ block_end(m, b) >= m.brk_heap_end
    THEN NULL
    ELSE block_end(m, b)

(* The footer just below the block leads to the header of the block below. *)
prev_phys(m, b) ==
    IF \/ m.header[b].mapped
       \/ m.brk_heap_start = NULL
       \/ b <= m.brk_heap_start + header_size
    THEN NULL
    ELSE LET prev_footer == m.footer[b - footer_size]
             addr == b - (overhead_size + prev_footer.size)
         IN  IF /\ addr >= m.brk_heap_start
                /\ m.header[addr].mapped = prev_footer.mapped
             THEN addr ELSE NULL

-----------------------------------------------------------------------------
(* The free list *)

(* The walk of unlink_free ends on the block before b.  As long as the     *)
(* list holds each free block once and other blocks have no next, which    *)
(* FreeListExact and the proofs show, it is the only one whose next is b.  *)
(* NULL for the head.                                                      *)
list_before(m, b) ==
    IF \E a \in DOMAIN m.header : m.header[a].next = b
    THEN CHOOSE a \in DOMAIN m.header : m.header[a].next = b
    ELSE NULL

listed(m, b) == b = m.free_list \/ list_before(m, b) # NULL

insert_free(m, b) == [set_next(m, b, m.free_list) EXCEPT !.free_list = b]

(* Mutant: prev_search_end is left on the block that leaves the list.      *)
UnlinkKeepsSearchEnd(m, b) ==
    LET before == list_before(m, b)
        m1 == IF before # NULL THEN set_next(m, before, m.header[b].next)
              ELSE [m EXCEPT !.free_list = m.header[b].next]
    IN  set_next(set_free(m1, b, FALSE), b, NULL)

(* The block, which is on the list, leaves it.                             *)
unlink_free(m, b) ==
    LET before == list_before(m, b)
        m1 == IF before # NULL THEN set_next(m, before, m.header[b].next)
              ELSE [m EXCEPT !.free_list = m.header[b].next]
        m2 == [m1 EXCEPT !.prev_search_end = IF @ = b THEN before ELSE @]
    IN  set_next(set_free(m2, b, FALSE), b, NULL)

-----------------------------------------------------------------------------
(* Merging and splitting *)

(* Block b grows over the block n behind it; the tags between them become  *)
(* payload.                                                                *)
absorb(m, b, n) ==
    LET grown == set_size([m EXCEPT !.footer = Drop(@, footer_of(m, b))], b,
                     m.header[b].size + overhead_size + m.header[n].size)
        m1 == write_footer(grown, b)
    IN  [m1 EXCEPT !.header = Drop(@, n),
                   !.available_bytes = @ + overhead_size]

coalesce_prev(m, b) ==
    LET p == prev_phys(m, b)
    IN  IF p # NULL /\ m.header[p].is_free
        THEN [owner |-> p, m |-> absorb(m, p, b)]
        ELSE [owner |-> b, m |-> m]

mergeable_next(m, b) ==
    LET n == next_phys(m, b) IN n # NULL /\ m.header[n].is_free

(* The loop over the blocks behind; it cannot turn more often than there   *)
(* are blocks.                                                             *)
coalesce_next(m, b) ==
    LET turn(x) == IF mergeable_next(x, b)
                   THEN absorb(unlink_free(x, next_phys(x, b)), b,
                               next_phys(x, b))
                   ELSE x
        blocks == Cardinality(DOMAIN m.header)
        after[n \in 0 .. blocks] ==
            IF n = 0 THEN m ELSE LET x == after[n - 1] IN turn(x)
    IN  after[blocks]

coalesce_around(m, b) ==
    IF m.header[b].mapped THEN [owner |-> b, m |-> m]
    ELSE LET c == coalesce_prev(m, b)
         IN  [owner |-> c.owner, m |-> coalesce_next(c.m, c.owner)]

splittable(m, b, partition) ==
    m.header[b].size >= partition + overhead_size + 1

(* Mutant: the tags of the remainder are not taken off available_bytes.    *)
SplitKeepsBytes(m, b, partition) ==
    IF ~splittable(m, b, partition) THEN m
    ELSE LET h == m.header[b]
             remainder == b + overhead_size + partition
             m1 == write_footer(set_size(m, b, partition), b)
             m2 == [m1 EXCEPT !.header = Put(@, remainder,
                       [size |-> h.size - partition - overhead_size,
                        is_free |-> TRUE, mapped |-> h.mapped,
                        next |-> h.next])]
         IN  set_next(write_footer(m2, remainder), b, remainder)

split(m, b, partition) ==
    IF ~splittable(m, b, partition) THEN m
    ELSE LET h == m.header[b]
             remainder == b + overhead_size + partition
             m1 == write_footer(set_size(m, b, partition), b)
             m2 == [m1 EXCEPT !.header = Put(@, remainder,
                       [size |-> h.size - partition - overhead_size,
                        is_free |-> TRUE, mapped |-> h.mapped,
                        next |-> h.next])]
             m3 == set_next(write_footer(m2, remainder), b, remainder)
         IN  [m3 EXCEPT !.available_bytes = @ - overhead_size]

-----------------------------------------------------------------------------
(* create_block *)

(* sbrk and mmap, external: where the new block is, or NULL on failure.    *)
sbrk_at(m, n) ==
    LET break == IF m.brk_heap_end = NULL THEN BrkBase ELSE m.brk_heap_end
    IN  {NULL} \cup {a \in {break} : a + n + overhead_size <= BrkLimit}

mmap_at(m) ==
    LET free == {a \in MapAddr : a \notin DOMAIN m.header}
    IN  {NULL} \cup {a \in free : \A b \in free : a <= b}

block_at(m, n, mapped) == IF mapped THEN mmap_at(m) ELSE sbrk_at(m, n)

create_block(m, at, n, is_free, mapped) ==
    LET m1 == write_footer(
                [m EXCEPT !.header = Put(@, at,
                    [size |-> n, is_free |-> is_free, mapped |-> mapped,
                     next |-> NULL])], at)
    IN  IF mapped THEN m1
        ELSE [m1 EXCEPT
                !.brk_heap_start = IF @ = NULL THEN at ELSE @,
                !.brk_heap_end = block_end(m1, at)]

-----------------------------------------------------------------------------
(* The constructor *)

Init ==
    /\ header = [a \in {} |-> 0]
    /\ footer = [a \in {} |-> 0]
    /\ free_list = NULL /\ prev_search_end = NULL
    /\ available_bytes = 0
    /\ brk_heap_start = NULL /\ brk_heap_end = NULL
    /\ users = [a \in {} |-> 0]
    /\ pc = "new"
    /\ size = 0 /\ prev = NULL /\ curr = NULL

constructor ==
    /\ pc = "new"
    /\ pc' = "idle"
    /\ \E at \in sbrk_at(Memory, INITIAL_CHUNK) :
          IF at = NULL THEN UNCHANGED heap
          ELSE BecomesMemory(
                 [create_block(Memory, at, INITIAL_CHUNK, TRUE, FALSE) EXCEPT
                    !.free_list = at, !.available_bytes = INITIAL_CHUNK])
    /\ UNCHANGED <<users, size, prev, curr>>

-----------------------------------------------------------------------------
(* allocate *)

(* The call is over; its local variables are gone.                         *)
returns == pc' = "idle" /\ size' = 0 /\ prev' = NULL /\ curr' = NULL

(* The search starts behind the block where the last one ended, or at the  *)
(* head of the list.                                                       *)
resumes == prev_search_end # NULL /\ header[prev_search_end].next # NULL

call_allocate(n) ==
    /\ pc = "idle"
    /\ size' = n
    /\ IF n <= available_bytes
       THEN /\ pc' = "search"
            /\ IF resumes
               THEN /\ prev' = prev_search_end
                    /\ curr' = header[prev_search_end].next
               ELSE prev' = NULL /\ curr' = free_list
       ELSE pc' = "create" /\ UNCHANGED <<prev, curr>>
    /\ UNCHANGED <<heap, users>>

(* Mutant: the tags of a block count as room for the user.                 *)
FitsWithTags(b) == header[b].is_free /\ block_span(Memory, b) >= size

fits(b) == header[b].is_free /\ header[b].size >= size

(* Block b, behind p on the list, is cut to size and leaves the list.      *)
taken(m, b, p) ==
    LET m1 == split(m, b, size)
        m2 == IF p # NULL
              THEN [set_next(m1, p, m1.header[b].next) EXCEPT
                      !.prev_search_end = p]
              ELSE [m1 EXCEPT !.free_list = m1.header[b].next,
                              !.prev_search_end = NULL]
        m3 == set_free(set_next(m2, b, NULL), b, FALSE)
    IN  [m3 EXCEPT !.available_bytes = @ - m3.header[b].size]

search_take ==
    /\ pc = "search"
    /\ curr # NULL
    /\ fits(curr)
    /\ BecomesMemory(taken(Memory, curr, prev))
    /\ users' = Put(users, curr, size)
    /\ returns

(* Mutant: the search ends with the list.                                  *)
NeverWraps == FALSE

(* At the end of the list a search that has a prev_search_end goes back to *)
(* the head.                                                               *)
wraps == prev_search_end # NULL /\ header[curr].next = NULL

search_wrap ==
    /\ pc = "search"
    /\ curr # NULL
    /\ ~fits(curr)
    /\ wraps
    /\ prev' = NULL
    /\ curr' = free_list
    /\ UNCHANGED <<heap, users, pc, size>>

(* Mutant: the search never notices that it has come round.                *)
NeverRound(b) == FALSE

came_round(b) ==
    prev_search_end # NULL /\ b = header[prev_search_end].next

search_advance ==
    /\ pc = "search"
    /\ curr # NULL
    /\ ~fits(curr)
    /\ ~wraps
    /\ prev' = curr
    /\ curr' = header[curr].next
    /\ pc' = IF came_round(curr') THEN "create" ELSE "search"
    /\ UNCHANGED <<heap, users, size>>

search_end ==
    /\ pc = "search"
    /\ curr = NULL
    /\ pc' = "create"
    /\ UNCHANGED <<heap, users, size, prev, curr>>

create ==
    /\ pc = "create"
    /\ \E at \in block_at(Memory, size, size >= MMAP_THRESHOLD) :
          IF at = NULL THEN UNCHANGED <<heap, users>>
          ELSE /\ BecomesMemory(create_block(Memory, at, size, FALSE,
                                             size >= MMAP_THRESHOLD))
               /\ users' = Put(users, at, size)
    /\ returns

-----------------------------------------------------------------------------
(* deallocate *)

(* Mutant: the freed block is linked in even when it was merged into the   *)
(* block below, which is on the list already.                              *)
InsertsMerged(m, b) ==
    LET m1 == [set_next(set_free(m, b, TRUE), b, NULL) EXCEPT
                 !.available_bytes = @ + m.header[b].size]
        c == coalesce_around(m1, b)
    IN  insert_free(c.m, c.owner)

(* Mutant: the freed block is not merged with its neighbours.              *)
ReturnUnmerged(m, b) ==
    insert_free([set_free(m, b, TRUE) EXCEPT
                   !.available_bytes = @ + m.header[b].size], b)

return_back_unlocked(m, b) ==
    LET m1 == [set_next(set_free(m, b, TRUE), b, NULL) EXCEPT
                 !.available_bytes = @ + m.header[b].size]
        c == coalesce_around(m1, b)
    IN  IF c.owner = b THEN insert_free(c.m, b) ELSE c.m

(* The memory of the block goes back to the system.                        *)
released(m, b) ==
    [m EXCEPT !.header = Drop(@, b), !.footer = Drop(@, footer_of(m, b))]

(* Mutant: the heap is not shortened by the block at its end.              *)
ShrinksNothing(m, b, ok) ==
    LET m1 == IF ~m.header[b].is_free THEN m
              ELSE [unlink_free(m, b) EXCEPT
                      !.available_bytes = @ - m.header[b].size]
    IN  IF m.header[b].mapped \/ block_end(m, b) = m.brk_heap_end
        THEN IF ok THEN released(m1, b) ELSE m1
        ELSE return_back_unlocked(m1, b)

(* A free block leaves the list first.  A mapped block is unmapped and the *)
(* block at the end of the heap shortens it, if the system agrees; any     *)
(* other goes (back) to the free list.                                     *)
deallocated(m, b, ok) ==
    LET m1 == IF ~m.header[b].is_free THEN m
              ELSE [unlink_free(m, b) EXCEPT
                      !.available_bytes = @ - m.header[b].size]
    IN  IF m.header[b].is_free /\ ~listed(m, b) THEN m
        ELSE IF m.header[b].mapped
        THEN IF ok THEN released(m1, b) ELSE m1
        ELSE IF block_end(m, b) # m.brk_heap_end
        THEN return_back_unlocked(m1, b)
        ELSE IF ok THEN [released(m1, b) EXCEPT !.brk_heap_end = b] ELSE m1

system_call(m, b) == m.header[b].mapped \/ block_end(m, b) = m.brk_heap_end

(* When munmap or brk fails deallocate returns false, and the block is     *)
(* still the user's.                                                       *)
deallocate(b, ok) ==
    /\ pc = "idle"
    /\ ~ok => system_call(Memory, b)
    /\ BecomesMemory(deallocated(Memory, b, ok))
    /\ users' = IF ok THEN Drop(users, b) ELSE users
    /\ UNCHANGED locals

-----------------------------------------------------------------------------
(* The destructor *)

destructor ==
    /\ pc = "idle"
    /\ pc' = "destroy"
    /\ UNCHANGED <<heap, users, size, prev, curr>>

destructor_step(ok) ==
    /\ pc = "destroy"
    /\ free_list # NULL
    /\ ~ok => system_call(Memory, free_list)
    /\ BecomesMemory(deallocated(Memory, free_list, ok))
    /\ UNCHANGED <<users, locals>>

destructor_end ==
    /\ pc = "destroy"
    /\ free_list = NULL
    /\ pc' = "gone"
    /\ UNCHANGED <<heap, users, size, prev, curr>>

Terminated == pc = "gone" /\ UNCHANGED vars

(* A turn of the search that does not find a block.                        *)
search_on == search_wrap \/ search_advance \/ search_end

Next ==
    \/ constructor
    \/ \E n \in Requests : call_allocate(n)
    \/ search_take
    \/ search_on
    \/ create
    \/ \E b \in DOMAIN users, ok \in BOOLEAN : deallocate(b, ok)
    \/ destructor
    \/ \E ok \in BOOLEAN : destructor_step(ok)
    \/ destructor_end
    \/ Terminated

Spec == Init /\ [][Next]_vars

(* A search that has begun goes on.                                        *)
FairSpec == Spec /\ WF_vars(search_on)

-----------------------------------------------------------------------------
(* Properties *)

BrkBlock == {b \in DOMAIN header : ~header[b].mapped}
FreeBlock == {b \in DOMAIN header : header[b].is_free}
EndOf(b) == block_end(Memory, b)

(* The blocks tile the heap: from its start, each block begins where the   *)
(* one below it ends, up to brk_heap_end, and no tag lies anywhere else.   *)
(* Each footer repeats its header (assert_header_footer_match, 352-356).   *)
HeapTiled ==
    /\ BrkBlock # {} => brk_heap_start \in BrkBlock
    /\ \A b \in BrkBlock :
          /\ EndOf(b) \in BrkBlock \cup {brk_heap_end}
          /\ \A c \in BrkBlock : b < c => EndOf(b) <= c
    /\ DOMAIN footer = {footer_of(Memory, b) : b \in DOMAIN header}
    /\ \A b \in DOMAIN header :
          /\ footer[footer_of(Memory, b)].size = header[b].size
          /\ footer[footer_of(Memory, b)].mapped = header[b].mapped

(* The free list ends, and is exactly the free blocks of the heap: none is *)
(* linked twice, lost, or mapped.                                          *)
FreeListExact ==
    LET blocks == Cardinality(DOMAIN header)
        nth[n \in 0 .. blocks] ==
            IF n = 0 THEN free_list
            ELSE LET b == nth[n - 1]
                 IN  IF b = NULL THEN NULL ELSE header[b].next
    IN  /\ nth[blocks] = NULL
        /\ {nth[n] : n \in 0 .. blocks} \ {NULL} = FreeBlock
        /\ FreeBlock \subseteq BrkBlock

(* available_bytes, kept by additions and subtractions in five functions,  *)
(* is the sum of the sizes of the free blocks.                             *)
AvailableExact ==
    available_bytes = MapThenSumSet(LAMBDA b : header[b].size, FreeBlock)

(* prev_search_end is null or on the free list, whatever was merged, taken *)
(* or released since: allocate follows it without a check.                 *)
SearchEndListed ==
    prev_search_end # NULL => listed(Memory, prev_search_end)

(* Merging is complete: no two free blocks are neighbours.                 *)
NoAdjacentFree == \A b \in FreeBlock : EndOf(b) \notin FreeBlock

(* Users see RegionSpec: the bytes they asked for, which they may write    *)
(* to, and the room for the two tags around them, are shared by no two of  *)
(* them, whatever was split, merged, shrunk or grown in between.           *)
Holders == INSTANCE RegionSpec WITH
    regions <- {<<b, overhead_size + users[b]>> : b \in DOMAIN users}

KeepsRegions == Holders!HoldersSpec

(* allocate asks the system for memory only when no free block is large    *)
(* enough, wherever in the list the search began (old/main.cpp:40).        *)
CreatesOnlyWhenNeeded ==
    pc = "create" => \A b \in FreeBlock : header[b].size < size

(* A search comes to an end, with a block that fits or without, unless it  *)
(* begins with prev_search_end on the last block of the list and no block  *)
(* is large enough: then every turn goes back to the head and the call     *)
(* never returns.                                                          *)
EndlessSearch ==
    /\ prev_search_end # NULL
    /\ header[prev_search_end].next = NULL
    /\ \A b \in FreeBlock : header[b].size < size

SearchEnds ==
    (pc = "search" /\ ~EndlessSearch)
        ~> (pc # "search" \/ (curr # NULL /\ fits(curr)))

(* The destructor gets on if every block of the heap has been given back:  *)
(* the block it works on is then the end of the heap, which leaves the     *)
(* list whether brk succeeds or not.  With a block out above the head of   *)
(* the list it takes the head off and puts it back for ever.               *)
DestructorProgress ==
    pc = "destroy" /\ free_list # NULL /\ DOMAIN users \cap BrkBlock = {} =>
        EndOf(free_list) = brk_heap_end

=============================================================================
