------------------------------ MODULE PageHeap ------------------------------
(***************************************************************************)
(* The page heap (page_heap.hpp): the backend that owns every page the     *)
(* allocator has mapped, keeps them as spans of contiguous pages, hands    *)
(* spans to the central free lists, and splits and coalesces the rest.     *)
(*                                                                         *)
(* Every public operation runs under PageHeap::mu from its first access to *)
(* the state to its return, so each one is a single step here.  Inside an  *)
(* operation the state is a record h that the helpers transform one after  *)
(* the other, in the order of the code.                                    *)
(*                                                                         *)
(* A free list is a doubly linked list sorted by page id.  Its spans all   *)
(* start on different pages, so the list is determined by its set of       *)
(* spans, and the set is what this module keeps.                           *)
(***************************************************************************)
EXTENDS Integers

CONSTANTS
    Span,        \* the addresses `new Span` can return
    NULL,        \* nullptr
    NumPages,    \* bound: the OS has page ids 1 .. NumPages to map
    MAX_PAGES,   \* config.hpp: the longest span a free list holds
    Sizes        \* the object sizes callers ask spans for

ASSUME PageHeapAssumption ==
    /\ NULL \notin Span
    /\ NumPages \in Nat
    /\ MAX_PAGES \in Nat \ {0}
    /\ Sizes \subseteq Nat

VARIABLES
    span,        \* the Span objects
    page_map,    \* page id -> the Span that owns it
    free_lists,  \* number of pages -> the free spans of that length
    mapped,      \* OS: the pages currently mapped
    abandoned    \* history: pages whose munmap failed

heapvars == <<span, page_map, free_lists>>
vars == <<span, page_map, free_lists, mapped, abandoned>>

Page == 1 .. NumPages

(* A deleted Span has no fields; one value stands for all of them.         *)
SpanRecord == [live : BOOLEAN, start : Nat, num_pages : Nat, size : Nat,
               is_free : BOOLEAN]
Deleted == [live |-> FALSE, start |-> 0, num_pages |-> 0, size |-> 0,
            is_free |-> FALSE]

Heap == [span |-> span, page_map |-> page_map, free_lists |-> free_lists]

BecomesHeap(h) ==
    /\ span' = h.span
    /\ page_map' = h.page_map
    /\ free_lists' = h.free_lists

PagesOf(h, s) ==
    h.span[s].start .. h.span[s].start + h.span[s].num_pages - 1

(* `new Span{...}`: any address not in use.  The model has finitely many;  *)
(* HasFresh is the bound that guards the operations that may need n.       *)
Fresh(h) == {s \in Span : ~h.span[s].live}
new_span(h) == CHOOSE s \in Fresh(h) : TRUE
HasFresh(h) == \E s, t \in Fresh(h) : s # t

-----------------------------------------------------------------------------
(* Page map helpers *)

register_span(h, s) ==
    [h EXCEPT !.page_map =
        [p \in Page |-> IF p \in PagesOf(h, s) THEN s ELSE h.page_map[p]]]

unregister_span(h, s) ==
    [h EXCEPT !.page_map =
        [p \in Page |-> IF p \in PagesOf(h, s) THEN NULL ELSE h.page_map[p]]]

lookup(h, p) == IF p \in Page THEN h.page_map[p] ELSE NULL

(* Assignments to the fields of one Span.                                  *)
set_span(h, s, fields) == [h EXCEPT !.span = [h.span EXCEPT ![s] = fields]]

set_extent(h, s, first, n) ==
    set_span(h, s, [h.span[s] EXCEPT !.start = first, !.num_pages = n])

set_use(h, s, is_free, size) ==
    set_span(h, s, [h.span[s] EXCEPT !.is_free = is_free, !.size = size])

delete_span(h, s) == set_span(h, s, Deleted)

-----------------------------------------------------------------------------
(* Free-list helpers *)

set_list(h, idx, spans) ==
    [h EXCEPT !.free_lists = [h.free_lists EXCEPT ![idx] = spans]]

remove_from_free_list(h, s) ==
    LET idx == h.span[s].num_pages
        h1  == set_span(h, s, [h.span[s] EXCEPT !.is_free = FALSE])
    IN  IF idx > MAX_PAGES THEN h
        ELSE set_list(h1, idx, h.free_lists[idx] \ {s})

insert(h, s) ==
    LET idx == h.span[s].num_pages
        h1  == set_span(h, s, [h.span[s] EXCEPT !.is_free = TRUE])
    IN  IF idx > MAX_PAGES THEN h
        ELSE set_list(h1, idx, h.free_lists[idx] \cup {s})

-----------------------------------------------------------------------------
(* Splitting: span s keeps its first n pages, the rest becomes a free span *)

new_extent(h, s, first, n, size, is_free) ==
    set_span(h, s, [live |-> TRUE, start |-> first, num_pages |-> n,
                    size |-> size, is_free |-> is_free])

(* Mutant: split forgets to put the remainder on a free list.              *)
SplitLosesRemainder(h, s, n) ==
    LET remainder == new_span(h)
        h1 == new_extent(h, remainder, h.span[s].start + n,
                         h.span[s].num_pages - n, 0, TRUE)
        h2 == set_extent(unregister_span(h1, s), s, h.span[s].start, n)
    IN  register_span(register_span(h2, s), remainder)

split(h, s, n) ==
    LET remainder == new_span(h)
        h1 == new_extent(h, remainder, h.span[s].start + n,
                         h.span[s].num_pages - n, 0, TRUE)
        h2 == set_extent(unregister_span(h1, s), s, h.span[s].start, n)
        h3 == register_span(register_span(h2, s), remainder)
    IN  insert(h3, remainder)

-----------------------------------------------------------------------------
(* Coalescing: span s takes over the pages of a free neighbour, which is   *)
(* deleted; first is the new first page of s                               *)

(* Mutant: the pages of the neighbour are not added to the span.           *)
AbsorbDropsPages(h, s, neighbour, first) ==
    LET h1 == remove_from_free_list(h, neighbour)
        h2 == unregister_span(unregister_span(h1, neighbour), s)
    IN  delete_span(register_span(h2, s), neighbour)

absorb(h, s, neighbour, first) ==
    LET h1 == remove_from_free_list(h, neighbour)
        h2 == unregister_span(unregister_span(h1, neighbour), s)
        h3 == set_extent(h2, s, first,
                         h2.span[s].num_pages + h2.span[neighbour].num_pages)
    IN  delete_span(register_span(h3, s), neighbour)

(* Mutant: a neighbour that a caller still holds is merged too.            *)
MergesHeld(h, s, neighbour) ==
    /\ neighbour # NULL
    /\ neighbour # s

mergeable(h, s, neighbour) ==
    /\ neighbour # NULL
    /\ neighbour # s
    /\ h.span[neighbour].is_free

coalesce_left(h, s) ==
    LET left == lookup(h, h.span[s].start - 1) IN
    IF h.span[s].start > 0 /\ mergeable(h, s, left)
    THEN absorb(h, s, left, h.span[left].start)
    ELSE h

coalesce_right(h, s) ==
    LET right == lookup(h, h.span[s].start + h.span[s].num_pages) IN
    IF mergeable(h, s, right)
    THEN absorb(h, s, right, h.span[s].start)
    ELSE h

coalesce(h, s) == coalesce_right(coalesce_left(h, s), s)

(* One turn of the loop that carves MAX_PAGES-sized spans off the front.   *)
(* Mutant: the front is carved but the span keeps its old first page.      *)
CarveKeepsStart(h, s) ==
    LET front == new_span(h)
        h1 == new_extent(h, front, h.span[s].start, MAX_PAGES, 0, TRUE)
        h2 == set_extent(unregister_span(h1, s), s, h.span[s].start,
                         h.span[s].num_pages - MAX_PAGES)
        h3 == register_span(register_span(h2, s), front)
    IN  insert(h3, front)

carve_front(h, s) ==
    LET front == new_span(h)
        h1 == new_extent(h, front, h.span[s].start, MAX_PAGES, 0, TRUE)
        h2 == set_extent(unregister_span(h1, s), s,
                         h.span[s].start + MAX_PAGES,
                         h.span[s].num_pages - MAX_PAGES)
        h3 == register_span(register_span(h2, s), front)
    IN  insert(h3, front)

(* Mutant: a span of exactly MAX_PAGES is carved as well.                  *)
CarveAtLimit(h, s) ==
    IF h.span[s].num_pages >= MAX_PAGES THEN carve_front(h, s) ELSE h

carve_step(h, s) ==
    IF h.span[s].num_pages > MAX_PAGES THEN carve_front(h, s) ELSE h

(* Two free neighbours and the span itself are at most three times         *)
(* MAX_PAGES long, so the loop turns at most twice.                        *)
carve(h, s) == carve_step(carve_step(h, s), s)

-----------------------------------------------------------------------------
(* Public operations *)

Init ==
    /\ span = [s \in Span |-> Deleted]
    /\ page_map = [p \in Page |-> NULL]
    /\ free_lists = [n \in 0 .. MAX_PAGES |-> {}]
    /\ mapped = {}
    /\ abandoned = {}

suitable_lists(n) == {i \in n .. MAX_PAGES : free_lists[i] # {}}

size_diff(s, size) ==
    IF span[s].size > size THEN span[s].size - size ELSE size - span[s].size

(* The scan keeps the first span with the smallest difference in size.     *)
preferred(s, t, size) ==
    \/ size_diff(s, size) < size_diff(t, size)
    \/ /\ size_diff(s, size) = size_diff(t, size)
       /\ span[s].start <= span[t].start

best_span(n, size, best) ==
    \E i \in suitable_lists(n) :
        /\ \A j \in suitable_lists(n) : i <= j
        /\ best \in free_lists[i]
        /\ \A t \in free_lists[i] : preferred(best, t, size)

(* Each operation takes what it returns as its last parameter.             *)
allocate_span_refused(n, ret) ==
    /\ n = 0 \/ n > MAX_PAGES
    /\ ret = NULL
    /\ UNCHANGED vars

(* Mutant: a reused span keeps the object size it had on the free list.    *)
ReuseKeepsSize(n, size, ret) ==
    /\ n \in 1 .. MAX_PAGES
    /\ suitable_lists(n) # {}
    /\ HasFresh(Heap)
    /\ best_span(n, size, ret)
    /\ LET h1 == remove_from_free_list(Heap, ret)
       IN  BecomesHeap(IF h1.span[ret].num_pages > n
                       THEN split(h1, ret, n) ELSE h1)
    /\ UNCHANGED <<mapped, abandoned>>

allocate_span_reuse(n, size, ret) ==
    /\ n \in 1 .. MAX_PAGES
    /\ suitable_lists(n) # {}
    /\ HasFresh(Heap)
    /\ best_span(n, size, ret)
    /\ LET h1 == remove_from_free_list(Heap, ret)
           h2 == set_use(h1, ret, FALSE, size)
       IN  BecomesHeap(IF h2.span[ret].num_pages > n
                       THEN split(h2, ret, n) ELSE h2)
    /\ UNCHANGED <<mapped, abandoned>>

allocate_span_mmap(n, size, ret) ==
    /\ n \in 1 .. MAX_PAGES
    /\ suitable_lists(n) = {}
    /\ HasFresh(Heap)
    /\ ret = new_span(Heap)
    /\ \E first \in Page :
          /\ first .. first + n - 1 \subseteq Page \ mapped
          /\ mapped' = mapped \cup first .. first + n - 1
          /\ BecomesHeap(register_span(
                 new_extent(Heap, ret, first, n, size, FALSE), ret))
    /\ UNCHANGED abandoned

(* mmap may fail at any time.                                              *)
allocate_span_mmap_failed(n, ret) ==
    /\ n \in 1 .. MAX_PAGES
    /\ suitable_lists(n) = {}
    /\ ret = NULL
    /\ UNCHANGED vars

allocate_span(n, size, ret) ==
    \/ allocate_span_refused(n, ret)
    \/ allocate_span_reuse(n, size, ret)
    \/ allocate_span_mmap(n, size, ret)
    \/ allocate_span_mmap_failed(n, ret)

(* Mutant: the returned span is not merged with its neighbours.            *)
ReturnUncoalesced(h, s) ==
    insert(set_use(h, s, TRUE, 0), s)

(* Mutant: the object size of the returned span is kept.                   *)
ReturnKeepsSize(h, s) ==
    insert(carve(coalesce(set_use(h, s, TRUE, h.span[s].size), s), s), s)

returned(h, s) ==
    insert(carve(coalesce(set_use(h, s, TRUE, 0), s), s), s)

(* Callers return spans they hold: live ones that are not free.            *)
return_span(s) ==
    /\ span[s].live
    /\ ~span[s].is_free
    /\ HasFresh(Heap)
    /\ BecomesHeap(returned(Heap, s))
    /\ UNCHANGED <<mapped, abandoned>>

(* span_for only reads: the caller gets the span that owns the page.       *)
span_for(p) == lookup(Heap, p)

unmapped(h, s) ==
    LET h1 == IF h.span[s].is_free THEN remove_from_free_list(h, s) ELSE h
    IN  delete_span(unregister_span(h1, s), s)

(* The Span is deleted whether munmap succeeds or not.                     *)
deallocate_span(s, ok) ==
    /\ span[s].live
    /\ BecomesHeap(unmapped(Heap, s))
    /\ mapped' = IF ok THEN mapped \ PagesOf(Heap, s) ELSE mapped
    /\ abandoned' = IF ok THEN abandoned ELSE abandoned \cup PagesOf(Heap, s)

(* ~PageHeap unmaps what is on the free lists.  It runs after the          *)
(* destructors of the central free lists have returned every span.         *)
destroy(unmap_failed) ==
    LET listed == UNION {free_lists[n] : n \in 0 .. MAX_PAGES}
        pages(S) == UNION {PagesOf(Heap, s) : s \in S}
    IN  /\ \A s \in Span : span[s].live => span[s].is_free
        /\ unmap_failed \subseteq listed
        /\ span' = [s \in Span |-> IF s \in listed THEN Deleted ELSE span[s]]
        /\ page_map' = [p \in Page |-> NULL]
        /\ free_lists' = [n \in 0 .. MAX_PAGES |-> {}]
        /\ mapped' = mapped \ pages(listed \ unmap_failed)
        /\ abandoned' = abandoned \cup pages(unmap_failed)

Next ==
    \/ \E n \in 0 .. MAX_PAGES + 1, size \in Sizes, ret \in Span \cup {NULL} :
          allocate_span(n, size, ret)
    \/ \E s \in Span : return_span(s)
    \/ \E s \in Span, ok \in BOOLEAN : deallocate_span(s, ok)
    \/ \E unmap_failed \in SUBSET Span : destroy(unmap_failed)

Spec == Init /\ [][Next]_vars

-----------------------------------------------------------------------------
(* Properties *)

Held(s) == span[s].live /\ ~span[s].is_free

Extent(s) == <<span[s].start, span[s].num_pages>>

(* The state has its types; a live span lies inside the address space and  *)
(* is between one and MAX_PAGES pages long, whatever was merged or carved. *)
TypeOK ==
    /\ span \in [Span -> SpanRecord]
    /\ page_map \in [Page -> Span \cup {NULL}]
    /\ free_lists \in [0 .. MAX_PAGES -> SUBSET Span]
    /\ mapped \subseteq Page
    /\ abandoned \subseteq mapped
    /\ \A s \in Span : span[s].live =>
          /\ span[s].start \in Page
          /\ span[s].num_pages \in 1 .. MAX_PAGES
          /\ span[s].start + span[s].num_pages - 1 \in Page

(* The page map is exact: span_for finds, from any page inside a span, the *)
(* one live Span that owns it, and never a deleted one.  Two live spans    *)
(* therefore never share a page (register_span / unregister_span).         *)
PageMapExact ==
    \A p \in Page, s \in Span :
        page_map[p] = s <=> span[s].live /\ p \in PagesOf(Heap, s)

(* The free lists are exact: a span is on the list of its length if and    *)
(* only if it is live and free.  No free span is lost to later requests,   *)
(* and no held or deleted span can be handed out by allocate_span.         *)
FreeListsExact ==
    \A n \in 0 .. MAX_PAGES, s \in Span :
        s \in free_lists[n] <=>
            span[s].live /\ span[s].is_free /\ span[s].num_pages = n

(* return_span and split reset the size of every span they make free, so   *)
(* allocate_span's search for the closest size always sees equal sizes.    *)
FreeSpansHaveNoSize ==
    \A s \in Span : span[s].live /\ span[s].is_free => span[s].size = 0

(* No page is leaked or owned twice over: the mapped pages are those of    *)
(* the live spans and, apart from them, those whose munmap failed, after   *)
(* any splits, merges and carvings.                                        *)
NoLostPages ==
    LET owned == UNION {PagesOf(Heap, s) : s \in {t \in Span : span[t].live}}
    IN  mapped = abandoned \cup owned /\ abandoned \cap owned = {}

(* No operation touches a span it was not asked to touch: of any two held  *)
(* spans at least one keeps its identity and its extent over every step    *)
(* (coalesce and carve work on the neighbours of the returned span).       *)
HeldSpansUntouched ==
    [][\A s, t \in Span :
          s # t /\ Held(s) /\ Held(t) =>
              \/ Held(s)' /\ Extent(s)' = Extent(s)
              \/ Held(t)' /\ Extent(t)' = Extent(t)]_vars

(* A returned span is merged with its free neighbours: where it met one,   *)
(* the pages on both sides of the border belong to one span afterwards, or *)
(* the span below was cut there because it has MAX_PAGES pages.            *)
MergesNeighbours ==
    [][\A s \in Span :
          Held(s) /\ span'[s].live /\ span'[s].is_free =>
              \A p \in {span[s].start - 1, span[s].start + span[s].num_pages - 1} :
                  LET below == page_map'[p]
                      above == page_map'[p + 1]
                  IN  /\ {p, p + 1} \subseteq Page
                      /\ NULL \notin {below, above}
                      /\ span'[below].is_free
                      /\ span'[above].is_free
                      => \/ below = above
                         \/ span'[below].num_pages = MAX_PAGES]_vars

(* The page heap keeps its promise to its callers (PageAllocSpec).         *)
Promise == INSTANCE PageAllocSpec WITH
    held <- {Extent(s) : s \in {t \in Span : Held(t)}}

KeepsPromise == Promise!PromiseSpec

=============================================================================
