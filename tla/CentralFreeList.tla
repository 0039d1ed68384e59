--------------------------- MODULE CentralFreeList ---------------------------
(***************************************************************************)
(* The central free lists (central_free_list.hpp), one per size class,     *)
(* over the page heap they share.  A list fetches spans from the page      *)
(* heap, carves them into objects a chunk at a time, keeps the free ones   *)
(* in an unrolled list inside each span and gives a span back when all its *)
(* objects are free.                                                       *)
(*                                                                         *)
(* Everything an operation does between taking and dropping                *)
(* CentralFreeList::mu is one step: what it touches is protected by that   *)
(* mutex, and the one call it makes to the page heap is itself atomic.     *)
(* deallocate asks the page heap for the span of the pointer BEFORE it     *)
(* takes the mutex, so it is two steps, and anything may happen between.   *)
(*                                                                         *)
(* Addresses, sizes and PAGE_SIZE are in the same unit.  The unrolled list *)
(* of a span is the sequence of its nodes from freelist_head on; a node is *)
(* the index of the object it lives in and the indexes packed into it.     *)
(***************************************************************************)
EXTENDS PageHeap, Sequences, FiniteSets

CONSTANTS
    Thread,      \* threads that return objects
    Class,       \* the size classes in use
    SizeClasses, \* class -> [size, pages] (size_classes.hpp)
    PAGE_SIZE,   \* config.hpp
    NodeBytes,   \* sizeof(PackedNode)
    IndexBytes   \* sizeof(uint16_t)

ASSUME CentralFreeListAssumption ==
    /\ NULL \notin Class
    /\ SizeClasses \in [Class -> [size : Nat, pages : Nat]]
    /\ Sizes = {SizeClasses[c].size : c \in Class}
    /\ PAGE_SIZE \in Nat \ {0}
    /\ NodeBytes \in Nat
    /\ IndexBytes \in Nat \ {0}

VARIABLES
    cfl,      \* class -> the CentralFreeList
    carved,   \* Span -> the fields of the Span the central free lists own
    held,     \* class -> addresses of the objects handed out
    pending,  \* thread -> its deallocate between span_for and the lock
    tearing   \* the destructors are running

phvars == vars   \* the page heap's
listvars == <<span, page_map, free_lists, mapped, abandoned,
              cfl, carved, held, pending, tearing>>

NotCarved == [total_objects |-> 0, num_free_objects |-> 0,
              next_uninitialized |-> 0, freelist |-> <<>>]

NewList == [span_list |-> <<>>, current_span |-> NULL, num_free |-> 0]

NoCall == [class |-> NULL, ptr |-> 0, span |-> NULL]

SpanListOf(c) == {cfl[c].span_list[i] : i \in DOMAIN cfl[c].span_list}

-----------------------------------------------------------------------------
(* Indexes and pointers *)

(* Indexes and capacities are cast to uint16_t.                            *)
uint16(n) == n % 65536

pack_capacity(size) ==
    IF size < NodeBytes THEN 0
    ELSE uint16((size - NodeBytes) \div IndexBytes)

span_base(first) == first * PAGE_SIZE
index_to_ptr(idx, base, size) == base + idx * size
ptr_to_index(ptr, base, size) == uint16((ptr - base) \div size)

(* Mutant: the number of objects in a span is rounded up.                  *)
CountRoundedUp(num_pages, size) == (num_pages * PAGE_SIZE) \div size + 1

object_count(num_pages, size) == (num_pages * PAGE_SIZE) \div size

(* "too many objects for 16-bit index", the assert in                      *)
(* fetch_from_page_heap: every index of an object fits, so that            *)
(* index_to_ptr gets the index it is called with.                          *)
ASSUME IndexAssumption ==
    \A c \in Class :
        LET sc == SizeClasses[c]
        IN  sc.size # 0 => object_count(sc.pages, sc.size) < 65536

-----------------------------------------------------------------------------
(* Operations on the object fields o of one span *)

span_has_available_objects(o) ==
    \/ o.freelist # <<>>
    \/ o.next_uninitialized < o.total_objects

(* Each node contributes itself and the indexes packed into it.            *)
batch_objects(first, chunk_end, cap) == chunk_end - first

(* The next chunk of objects, at most a page's worth, is linked node by    *)
(* node in front of the list; every node takes up to cap more indexes.     *)
populate_span(o, size) ==
    LET cap   == pack_capacity(size)
        first == o.next_uninitialized
        per_chunk == IF PAGE_SIZE \div size > 1 THEN PAGE_SIZE \div size ELSE 1
        chunk_end == IF first + per_chunk < o.total_objects
                     THEN first + per_chunk ELSE o.total_objects
        groups == (chunk_end - first + cap) \div (cap + 1)
        node(g) ==
            LET idx  == first + g * (cap + 1)
                last == IF idx + cap < chunk_end THEN idx + cap
                                                 ELSE chunk_end - 1
            IN  [idx |-> idx, slots |-> [i \in 1 .. last - idx |-> idx + i]]
    IN  IF first >= o.total_objects THEN o
        ELSE [o EXCEPT
                !.freelist = [j \in 1 .. groups |-> node(groups - j)] \o @,
                !.num_free_objects = @ + batch_objects(first, chunk_end, cap),
                !.next_uninitialized = chunk_end]

(* The object allocate takes: the last packed index, or the node itself.   *)
popped_index(o) ==
    LET head == Head(o.freelist)
    IN  IF head.slots # <<>> THEN head.slots[Len(head.slots)] ELSE head.idx

(* Mutant: a packed index is taken without `--node->count`.                *)
PopKeepsSlot(o) ==
    [o EXCEPT
        !.freelist = IF Head(@).slots # <<>> THEN @ ELSE Tail(@),
        !.num_free_objects = @ - 1]

popped(o) ==
    LET head == Head(o.freelist)
        rest == Tail(o.freelist)
    IN  [o EXCEPT
          !.freelist =
             IF head.slots # <<>>
             THEN <<[head EXCEPT
                       !.slots = SubSeq(@, 1, Len(@) - 1)]>> \o rest
             ELSE rest,
          !.num_free_objects = @ - 1]

packs(o, size) ==
    /\ o.freelist # <<>>
    /\ Len(Head(o.freelist).slots) < pack_capacity(size)

pushed(o, idx, size) ==
    LET head == Head(o.freelist)
    IN  [o EXCEPT
          !.freelist =
             IF packs(o, size)
             THEN <<[head EXCEPT !.slots = Append(@, idx)]>> \o Tail(@)
             ELSE <<[idx |-> idx, slots |-> <<>>]>> \o @,
          !.num_free_objects = @ + 1]

-----------------------------------------------------------------------------
(* allocate *)

find_available_span(c) ==
    LET list == cfl[c].span_list
        ok   == {i \in DOMAIN list : span_has_available_objects(carved[list[i]])}
    IN  IF ok = {} THEN NULL
        ELSE list[CHOOSE i \in ok : \A j \in ok : i <= j]

chosen_span(c) ==
    LET cur == cfl[c].current_span
    IN  IF cur # NULL /\ span_has_available_objects(carved[cur])
        THEN cur ELSE find_available_span(c)

(* The end of allocate, with list l and the fields o of its current span,  *)
(* which starts on page first: populate, then take one object.             *)
take_object(c, s, l, o, first) ==
    LET size == SizeClasses[c].size
        o1 == IF o.freelist = <<>> THEN populate_span(o, size) ELSE o
        n1 == l.num_free + (o1.num_free_objects - o.num_free_objects)
    IN  IF o1.freelist = <<>>
        THEN /\ cfl' = [cfl EXCEPT ![c] = l]
             /\ carved' = [carved EXCEPT ![s] = o1]
             /\ UNCHANGED held
        ELSE /\ cfl' = [cfl EXCEPT ![c] = [l EXCEPT !.num_free = n1 - 1]]
             /\ carved' = [carved EXCEPT ![s] = popped(o1)]
             /\ held' = [held EXCEPT ![c] = @ \cup
                    {index_to_ptr(popped_index(o1), span_base(first), size)}]

allocate_from_list(c) ==
    LET s == chosen_span(c)
    IN  /\ s # NULL
        /\ take_object(c, s, [cfl[c] EXCEPT !.current_span = s],
                       carved[s], span[s].start)
        /\ UNCHANGED phvars

(* fetch_from_page_heap; ret is the span allocate_span returns.            *)
allocate_after_fetch(c, ret) ==
    LET size  == SizeClasses[c].size
        pages == SizeClasses[c].pages
        count == object_count(span'[ret].num_pages, size)
    IN  /\ chosen_span(c) = NULL
        /\ IF size = 0 \/ pages = 0
           THEN ret = NULL /\ UNCHANGED phvars
           ELSE allocate_span(pages, size, ret)
        /\ IF ret = NULL
           THEN /\ cfl' = [cfl EXCEPT ![c].current_span = NULL]
                /\ UNCHANGED <<carved, held>>
           ELSE take_object(c, ret,
                    [cfl[c] EXCEPT !.span_list = <<ret>> \o @,
                                   !.current_span = ret],
                    [NotCarved EXCEPT !.total_objects = count],
                    span'[ret].start)

allocate(c) ==
    /\ ~tearing
    /\ \/ allocate_from_list(c)
       \/ \E ret \in Span \cup {NULL} : allocate_after_fetch(c, ret)
    /\ UNCHANGED <<pending, tearing>>

-----------------------------------------------------------------------------
(* deallocate *)

(* span_for, before the lock.  A pointer the page map does not know is     *)
(* dropped.                                                                *)
deallocate_lookup(t, c, ptr) ==
    LET s == span_for(ptr \div PAGE_SIZE)
    IN  /\ ~tearing
        /\ pending[t] = NoCall
        /\ ptr \in held[c]
        /\ held' = [held EXCEPT ![c] = @ \ {ptr}]
        /\ pending' = IF s = NULL THEN pending
                      ELSE [pending EXCEPT ![t] =
                               [class |-> c, ptr |-> ptr, span |-> s]]
        /\ UNCHANGED <<phvars, cfl, carved, tearing>>

(* The neighbours of s in the list are linked to each other.               *)
list_without(list, s) ==
    LET k == CHOOSE i \in DOMAIN list : list[i] = s
    IN  SubSeq(list, 1, k - 1) \o SubSeq(list, k + 1, Len(list))

(* Mutant: the span is unlinked, but stays the cached current span.        *)
ReleaseKeepsCurrent(l, s, o) ==
    [l EXCEPT !.span_list = list_without(@, s),
              !.num_free = @ - o.num_free_objects]

(* Mutant: the objects of the span stay in the count of free objects.      *)
ReleaseKeepsCount(l, s, o) ==
    [l EXCEPT !.span_list = list_without(@, s),
              !.current_span = IF @ = s THEN NULL ELSE @]

(* What release_to_page_heap does to the list it unlinks the span from.    *)
unlinked(l, s, o) ==
    [l EXCEPT !.span_list = list_without(@, s),
              !.current_span = IF @ = s THEN NULL ELSE @,
              !.num_free = @ - o.num_free_objects]

(* Mutant: a span is released while one of its objects is still out.       *)
ReleasesEarly(o) == o.num_free_objects + 1 >= o.total_objects

(* Mutant: only a span that needs a new node is checked for release.       *)
ReleasesOnNewNode(o) ==
    /\ o.num_free_objects = o.total_objects
    /\ Head(o.freelist).slots = <<>>

is_fully_free(o) == o.num_free_objects = o.total_objects

deallocate_locked(t) ==
    LET call == pending[t]
        c    == call.class
        s    == call.span
        size == SizeClasses[c].size
        idx  == ptr_to_index(call.ptr, span_base(span[s].start), size)
        o    == pushed(carved[s], idx, size)
        l    == [cfl[c] EXCEPT !.num_free = @ + 1]
    IN  /\ call # NoCall
        /\ pending' = [pending EXCEPT ![t] = NoCall]
        /\ IF is_fully_free(o)
           THEN /\ cfl' = [cfl EXCEPT ![c] = unlinked(l, s, o)]
                /\ carved' = [carved EXCEPT ![s] = NotCarved]
                /\ return_span(s)
           ELSE /\ cfl' = [cfl EXCEPT ![c] = l]
                /\ carved' = [carved EXCEPT ![s] = o]
                /\ UNCHANGED phvars
        /\ UNCHANGED <<held, tearing>>

-----------------------------------------------------------------------------
(* Destruction: no call is under way any more; each list returns its spans *)
(* one by one, then the page heap unmaps them.  Objects still held go away *)
(* with their span.                                                        *)

begin_teardown ==
    /\ ~tearing
    /\ \A t \in Thread : pending[t] = NoCall
    /\ tearing' = TRUE
    /\ held' = [c \in Class |-> {}]
    /\ UNCHANGED <<phvars, cfl, carved, pending>>

destructor_step(c) ==
    LET s == Head(cfl[c].span_list)
    IN  /\ tearing
        /\ cfl[c].span_list # <<>>
        /\ cfl' = [cfl EXCEPT ![c] =
                      IF Len(@.span_list) = 1 THEN NewList
                      ELSE [@ EXCEPT !.span_list = Tail(cfl[c].span_list)]]
        /\ carved' = [carved EXCEPT ![s] = NotCarved]
        /\ return_span(s)
        /\ UNCHANGED <<held, pending, tearing>>

page_heap_destructor ==
    /\ tearing
    /\ \A c \in Class : cfl[c].span_list = <<>>
    /\ destroy({})
    /\ UNCHANGED <<cfl, carved, held, pending, tearing>>

-----------------------------------------------------------------------------
ListsInit ==
    /\ Init
    /\ cfl = [c \in Class |-> NewList]
    /\ carved = [s \in Span |-> NotCarved]
    /\ held = [c \in Class |-> {}]
    /\ pending = [t \in Thread |-> NoCall]
    /\ tearing = FALSE

ListsNext ==
    \/ \E c \in Class : allocate(c)
    \/ \E t \in Thread, c \in Class : \E ptr \in held[c] :
          deallocate_lookup(t, c, ptr)
    \/ \E t \in Thread : deallocate_locked(t)
    \/ begin_teardown
    \/ \E c \in Class : destructor_step(c)
    \/ page_heap_destructor

ListsSpec == ListsInit /\ [][ListsNext]_listvars

-----------------------------------------------------------------------------
(* Properties *)

NodeObjects(node) ==
    {node.idx} \cup {node.slots[i] : i \in DOMAIN node.slots}

FreeIndexes(o) ==
    UNION {NodeObjects(o.freelist[i]) : i \in DOMAIN o.freelist}

(* The entries of the list, counted with their repetitions.                *)
FreeEntries(o) ==
    Cardinality(UNION {{i} \X (0 .. Len(o.freelist[i].slots)) :
                          i \in DOMAIN o.freelist})

(* Objects of class c that callers hold or are in the middle of returning. *)
Out(c) ==
    held[c] \cup {pending[t].ptr : t \in {u \in Thread : pending[u].class = c}}

OutIndexes(c, s) ==
    LET size == SizeClasses[c].size
        base == span_base(span[s].start)
    IN  {i \in 0 .. carved[s].total_objects - 1 :
            index_to_ptr(i, base, size) \in Out(c)}

PtrsOf(c, s, indexes) ==
    {index_to_ptr(i, span_base(span[s].start), SizeClasses[c].size) :
        i \in indexes}

(* Every object of a carved chunk is in one place: free, in its span's     *)
(* list, or out with a caller.  No object is handed out twice, is free     *)
(* while held, or is forgotten, and a caller holds nothing but objects of  *)
(* the spans of its class (populate_span, allocate, deallocate).           *)
ObjectsPartitioned ==
    ~tearing =>
      \A c \in Class :
        /\ \A s \in SpanListOf(c) :
              LET out == OutIndexes(c, s) IN
              /\ FreeIndexes(carved[s]) \cap out = {}
              /\ FreeIndexes(carved[s]) \cup out
                    = 0 .. carved[s].next_uninitialized - 1
        /\ Out(c) = UNION {PtrsOf(c, s, OutIndexes(c, s)) : s \in SpanListOf(c)}

(* The counters agree with the lists they summarise: a span's              *)
(* num_free_objects with the entries of its unrolled list, none of them    *)
(* repeated, and the list's num_free with the sum over its spans.          *)
CountsExact ==
    /\ \A s \in Span :
          /\ carved[s].num_free_objects = FreeEntries(carved[s])
          /\ carved[s].num_free_objects = Cardinality(FreeIndexes(carved[s]))
    /\ ~tearing =>
          \A c \in Class :
              cfl[c].num_free =
                  Cardinality(UNION {{s} \X FreeIndexes(carved[s]) :
                                        s \in SpanListOf(c)})

(* The lists own exactly the spans the page heap has given out, one list   *)
(* each, linked once; the cached current_span is one of the list's own     *)
(* spans, never one that was released (release_to_page_heap).              *)
SpanOwnership ==
    /\ \A c \in Class :
          /\ \A i, j \in DOMAIN cfl[c].span_list :
                cfl[c].span_list[i] = cfl[c].span_list[j] => i = j
          /\ ~tearing => cfl[c].current_span \in SpanListOf(c) \cup {NULL}
    /\ \A c, d \in Class : c # d => SpanListOf(c) \cap SpanListOf(d) = {}
    /\ UNION {SpanListOf(c) : c \in Class} = {s \in Span : Held(s)}

(* The span looked up before the lock is still right once the lock is      *)
(* taken, whatever other threads allocated, returned or released between:  *)
(* it is a live span of the list and still owns the pointer.               *)
PendingSpanValid ==
    \A t \in Thread :
        pending[t] # NoCall =>
            /\ pending[t].span \in SpanListOf(pending[t].class)
            /\ span_for(pending[t].ptr \div PAGE_SIZE) = pending[t].span

(* No span whose objects are all carved and all free is kept: the last     *)
(* deallocate releases it, on whichever path it ends.                      *)
FullyFreeReleased ==
    ~tearing =>
      \A c \in Class : \A s \in SpanListOf(c) :
        carved[s].next_uninitialized = carved[s].total_objects =>
            carved[s].total_objects = 0 \/ OutIndexes(c, s) # {}

(* An object that is out lies inside one live span, up to its last byte,   *)
(* and all its pages are mapped, also where it crosses from page to page   *)
(* (object_count, index_to_ptr).                                           *)
ObjectsInside ==
    \A c \in Class : \A x \in Out(c) :
        \A b \in x .. x + SizeClasses[c].size - 1 :
            /\ b \div PAGE_SIZE \in mapped
            /\ span_for(b \div PAGE_SIZE) = span_for(x \div PAGE_SIZE)

(* Callers of the lists see RegionSpec: an object they get shares no byte  *)
(* with one of any class that is still out.                                *)
Holders == INSTANCE RegionSpec WITH
    regions <- UNION {{<<x, SizeClasses[c].size>> : x \in Out(c)} : c \in Class}

KeepsRegions == Holders!HoldersSpec

(* Allocator::deallocate learns the size class of a pointer from the size  *)
(* of the span that span_for returns (allocator.hpp:80-83).  For every     *)
(* object out with a caller that is the size of the class it came from,    *)
(* whatever list the span belonged to before it was split or merged.       *)
ClassRecovered ==
    \A c \in Class : \A x \in Out(c) :
        LET s == span_for(x \div PAGE_SIZE)
        IN  s # NULL /\ span[s].size = SizeClasses[c].size

(* "When all objects from a span have been returned, the span is released  *)
(* back to the page heap" (central_free_list.hpp:10-11).  A span of which  *)
(* only some chunks have been carved is not.                               *)
ReturnedSpansReleased ==
    ~tearing /\ (\A c \in Class : Out(c) = {}) =>
        \A c \in Class : cfl[c].span_list = <<>>

(* The page heap provides a span "which is then split up into blocks"      *)
(* (page_heap.hpp:6-8).  A span shorter than one object is split into      *)
(* none: allocate returns nullptr and the span stays in the list.          *)
SpansHoldObjects ==
    \A c \in Class : \A s \in SpanListOf(c) : carved[s].total_objects > 0

=============================================================================
