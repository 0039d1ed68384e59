# A TLA+ model of the allocator

The repository is a thread-caching memory allocator in the style of TCMalloc.
This directory models its current design, and the first one it replaced, in
TLA+, checks the models with TLC on small instances, and proves their safety
properties, component by component, for every instance with TLAPS.

    tlc -workers 2 -config MCPageHeap_carve.cfg MCPageHeap     # one run
    for m in PageHeapProofs SpanObjectsProofs CentralFreeListProofs \
             SpanListsProofs SlabsProofs AllocatorProofs \
             SizeClassTableProofs OldAllocatorProofs
    do tlapm $m.tla; done                                      # the proofs

`PROJECT.json` lists the runs, the mutants that show each property can fail, the
source lines every definition stands for, the findings, the hazards and the
theorems.

## The system

| Part | Source | State | Operations |
|---|---|---|---|
| page heap | `page_heap.hpp` | `Span` objects, `page_map`, `free_lists[0..MAX_PAGES]`, mutex | `allocate_span`, `return_span`, `span_for`, `deallocate_span`, destructor |
| central free list, one per size class | `central_free_list.hpp` | `span_list`, `current_span`, `num_free`, the object fields of its spans and the unrolled list inside them, mutex | `allocate`, `deallocate`, `allocate_batch`, `deallocate_batch`, destructor |
| transfer cache, one per size class | `transfer_cache.hpp` | `slots`, `used_slots`, mutex | `InsertRange`, `RemoveRange` |
| slabs, one per CPU | `slabs.hpp` | a count and a slice of the pointer array per size class | `slab_push`, `slab_pop`, through rseq or a fallback |
| front end | `allocator.hpp` | the parts above, `slab_count` | constructor, `allocate`, `deallocate` |
| size classes and layout | `size_classes.hpp`, `config.hpp` | constant tables | `round_size_class`, `size_class_to_idx`, `compute_slab_offsets` |
| first design, superseded | `old/old_design.hpp` | a heap of blocks with boundary tags, `free_list`, `prev_search_end`, `available_bytes`, mutex | constructor, `allocate`, `deallocate`, destructor |

`allocate` rounds the size to a class and pops from the slab of the CPU it runs
on. On a miss it refills a batch from the transfer cache or else the central
free list, returns one object and pushes the rest to the slab; what no longer
fits goes to the transfer cache and then to the central list. `deallocate`
finds the class from the size in the span of the pointer and goes the opposite
way. A central list fetches spans from the page heap and returns them when all
their objects are free; the page heap splits, merges and maps.

Locks: a central list's mutex is held while the page heap's is taken, never the
reverse, and the transfer cache's is a leaf; `span_for` holds only the page
heap's. So there is no lock cycle, and each critical section is one step.

What is hard here: threads are preempted and migrated inside `slab_push` and
`slab_pop`; `deallocate` of a central list reads the page map before it locks;
spans pass between size classes through the page heap; merging can exceed what
the free lists can hold; every cache can be full or empty at the wrong moment;
`mmap` and `munmap` fail; one pair of pointers in a `Span` serves lists of two
owners; two binary searches have to agree. In the first design: a roving pointer
into the free list, tags inside memory that users write to, and loops that end
only in certain states. `PROJECT.json` lists these with their lines.

## Modules

    PageAllocSpec <== PageHeap <-- CentralFreeList <-- SpanLists
    RegionSpec    <== CentralFreeList
    RegionSpec    <== OldAllocator
    SlabSpec      <== Slabs
    AllocatorSpec <== Allocator;   TransferCache <-- Allocator
                      SizeClassTable

`<==` reads "is implemented by" and is checked as a property of a run; `A <-- B`
reads "B extends A": `CentralFreeList` adds the lists to the variables of
`PageHeap` and calls its actions, `SpanLists` adds the pointers. The proofs are
in modules of their own: `PageHeapProofs` and `SpanObjectsProofs`, both extended
by `CentralFreeListProofs`, which `SpanListsProofs` extends in turn;
`SlabsProofs`; `AllocatorProofs`; `SizeClassTableProofs`; `OldAllocatorProofs`.

**PageHeap.** Every public operation is one action. Inside it the heap is a
record that the helpers of the code (`register_span`, `split`, `coalesce`,
`insert`, ...) transform in the order of the code. A free list is a doubly
linked list sorted by `start`; its spans start on different pages, so its set
of spans determines it and is what the model keeps (`ListsLinked` of `SpanLists`
justifies this). `allocate_span(n, size, ret)` is a relation between arguments,
result and the two states. `best_span`
keeps the search for the closest size; it turns out to be idle, because
`return_span`, `split` and the carving loop set `size` to 0 and so every free
span has the same size (`FreeSpansHaveNoSize`).
The `while` loop that carves is unfolded twice, which is enough for three spans
of at most `MAX_PAGES` pages; `TypeOK` would fail otherwise, and `CarveGood` of
the proofs shows it for all values. Bounds: `NumPages` page ids, and `Span`
addresses with `HasFresh` as guard (two free addresses, what an operation can
need; `new` itself never fails in the model). `abandoned` records pages whose
`munmap` failed; nothing reads it but `NoLostPages`. `destroy` runs when nobody
holds a span, which is how `Allocator`'s members are destroyed. `deallocate_span`
is public but has no caller yet; it is modelled for any live span.

**CentralFreeList.** Several lists over one page heap, objects at byte
addresses. What an operation does under the list's mutex is one step, its call
of the page heap included. `deallocate` is two: `deallocate_lookup` (`span_for`,
no lock of the list) and `deallocate_locked`. The linked nodes of the unrolled
list are the sequence of nodes from `freelist_head` on, each with its own index
and the indexes packed in it. Callers return objects they got, once, to the
class they came from; that the front end finds this class is `ClassRecovered`.
A caller may have any number of objects; threads matter for `deallocate` only,
since `allocate` is a single step. The element sizes of the instances are small
numbers chosen so that the cases of the arithmetic occur (see the runs).

**SpanLists.** The same steps as `CentralFreeList`, each together with what it
does to `Span::next`, `Span::prev`, the heads of the free lists and the heads of
the span lists: unlinking, pushing to the front, the sorted insertion with its
walk, and the walk of the destructor, which leaves dangling `prev` pointers
behind. The sets of `PageHeap` and the sequences of `CentralFreeList` say which
spans change lists in a step; in the code a step first takes a span off
`span_list`, then takes spans off the free lists, then inserts, then pushes a
fetched span, and the effects are applied in that order. `ListsLinked` says
that following the pointers gives the sets and sequences back. It is what
justifies keeping sets and sequences in the other two modules.

**SizeClassTable.** The table as a constant, so that the real 48 rows can be
given, and the two binary searches turn by turn: `round_size_class` for
`allocate`, then `size_class_to_idx` on the size of the class for `deallocate`.
`compute_slab_offsets` and the addresses of counts and slices are functions of
the table and of `limit`, the value of `MAX_SLAB_POINTERS`.

**OldAllocator.** One mutex covers every operation, so one call at a time is
modelled, with the turns of the search loop and of the destructor's loop as
steps. Memory is modelled by its tags: `header` and `footer` map the addresses
that hold one. A tag that becomes part of a payload is removed, so reading it
there would stop TLC with an error. `sbrk`, `mmap`, `brk` and `munmap` may fail
at any time. `sbrk` is assumed to continue where the heap ends: in a process
whose C library also moves the program break the code would not notice.

**Slabs.** One size class, one action per memory access of the assembly. The
kernel's part is external: at most one thread per CPU, `schedule` and `preempt`
between any two instructions; a thread preempted with `rseq_cs` set and its
instruction pointer in the descriptor's range resumes at the abort handler.
The range reaches past the committing store, so an operation can be aborted and
started again after it has taken effect (finding 3). The history variable
`repeated` collects the pointers this has happened to. The properties say that
nothing else goes wrong: `OnePlace` speaks of every other pointer, and `SlabSpec`
has the repetition as an action that touches the hands of one thread and one
pointer only. A caller that has been given the same pointer twice holds it once
in the model, and gives it back once.

**Allocator.** One size class, any number of threads. Each slab operation is one
step on the slab of an arbitrary CPU, since the thread may have migrated: these
are the `Push` and `Pop` of `SlabSpec`. Its `Repeat`, and the races of the
fallback, are left out. An object that reaches the central list twice is counted
twice in its span, the span is then released while other objects of it are out,
and no promise about any object would survive; what the module shows is that the
front end adds no loss and no duplication of its own. Findings 3 and 4 say where
the code falls short of the slab operations assumed here. The constructor takes `slab_count` from an affinity
mask; threads may run on CPUs outside of it later. A CPU not in `Cached` has an
id of `slab_count` or above: every push and pop fails there. Each transfer-cache call is one step, and
each call of the central free list is one step on the set of its free objects,
which may refuse at any time because `mmap` may fail. `hand_over` models users
passing objects to other threads, which may then free them.

**Abstract specifications.** `PageAllocSpec`: extents handed out never overlap
and stay mapped while held. `SlabSpec`: bounded per-CPU stacks with indivisible
operations, which may be repeated; a repetition spoils its own pointer only. `AllocatorSpec`: an object is given only when nobody holds it.
`RegionSpec`: byte ranges handed out share no byte and do not move; both the
central free lists, over all classes, and the first design implement it.

## Runs

| Run | Instance | Shows |
|---|---|---|
| `heap_carve` | 5 pages, `MAX_PAGES` 2, 7 spans | exact page map, free lists and page accounts; held spans untouched; returned spans merged with free neighbours; implements `PageAllocSpec` |
| `cfl` | 3 pages, two classes, two threads | spans owned by one list, looked-up spans still valid after the lock, objects inside one mapped span, class recovered, every carved object in one place, counters exact, full spans released, lists linked correctly; implements `RegionSpec` |
| `cfl_lists` | 4 pages, `MAX_PAGES` 1, one object a page | lists linked correctly, with up to four spans on one list |
| `cfl_uncarved` | as `cfl` | finding: a returned span is kept |
| `cfl_row8192` | row {8192, 1} | finding: a span without objects |
| `slabs_rseq` | 2 threads, 2 CPUs, 2 pointers, capacity 2 | counts in bounds; implements `SlabSpec`, so that no pointer is lost or duplicated but by a repetition of its own |
| `slabs_single` | 1 thread, 2 CPUs, 1 slab | each pointer that was not repeated in one place, also through the out-of-range exit and the fallback; calls end |
| `slabs_window` | 2 threads, 1 CPU | finding: a push repeated |
| `slabs_fallback` | 2 threads, 1 CPU, no rseq | finding: the fallback races |
| `alloc` | 2 threads, 3 CPUs of which the first two or only the first have a slab, 4 objects, capacity and batch 2, transfer cache 1 | no object lost or duplicated, arrays in bounds, implements `AllocatorSpec`, every call returns |
| `size_classes` | the 48 rows, requests at every boundary, `MAX_SLAB_POINTERS` 20000, 12000 and 1000, 2 CPUs | the searches end, find the smallest class that fits and find it again; slices hold whole batches, at least one, and overlap nowhere |
| `old` | tags of 3 and 2 words, requests of 0, 6 and 9, a heap of 35 words, one mapping | tags tile the heap, free list and `available_bytes` exact, no free neighbours, `prev_search_end` on the list, memory requested only when needed, searches end (with one exception); implements `RegionSpec` |

Why the bounds are enough. Merging involves a span and two neighbours, so with
`MAX_PAGES` 2 five pages reach a merged span of 5 > 2 · `MAX_PAGES` pages, which
the loop carves twice. In `cfl` a span of class "one" has two objects that share
a node, and the last one back is packed; a span of class "two" has three chunks
and an object across a page boundary, and the last one back becomes a node, so
that both ends of `deallocate` release spans. Three pages force the two classes
to reuse each other's spans. A free list there has at most two spans; in
`cfl_lists` it has up to four, for insertions and removals in the middle. The
searches only compare a request with the sizes of rows, so the sizes, their
neighbours and zero stand for all requests; of the limits 20000 is the one in
`config.hpp`, under which nothing is scaled, and 1000 scales most classes down
to one batch. In `old` the initial block can be split (12 = 6 + 5 + 1) or is
used whole, and four blocks are enough for a free block with free and used
neighbours on either side and for a list whose last block is `prev_search_end`.
Two threads on one slab and one thread on two CPUs
are the two ways a section can be interfered with; two pointers fill a slab, and
a repeated push fills it with one pointer and leaves the other to pass around. In `alloc` the transfer cache is smaller
than a batch, so that `InsertRange` splits batches, and there are enough objects
to fill a slab while another thread works on it.

Every run checks for deadlock; none of the specifications has one (the first
design ends after its destructor, which `Terminated` says).

Fairness. `FairSpec` of `Slabs` assumes that a runnable thread gets a CPU and
that a running thread executes, which the scheduler of the kernel provides; it
assumes nothing about preemption, so `CallsEnd` excepts threads preempted for
ever. `FairSpec` of `Allocator` assumes that a thread inside a call goes on; it
never has to wait for another there, because mutexes are released without
waiting for anybody. Nobody is obliged to make a call. `FairSpec` of
`SizeClassTable` and of `OldAllocator` only assume that a loop that has begun
keeps turning.

## Findings

1. `cfl_uncarved`. A comment in `central_free_list.hpp` says a span is released
   when all its objects have been returned. The code waits until all objects of
   the span are on the free list, and objects never carved are not: a span with
   an untouched chunk is kept after its last object came back.
   `FullyFreeReleased` states what does hold.
2. `cfl_row8192`. The table was laid out for 8 KiB pages, `PAGE_SIZE` is 4096.
   Fourteen rows, `{8192, 1}` the first, ask for spans shorter than one object:
   `allocate` returns `nullptr` and strands one more span at every call.
3. `slabs_window`. The range of the rseq descriptor extends past the committing
   store. Preempted before `rseq_cs` is cleared, the operation is repeated: a
   pointer is in the slab twice and later belongs to two callers.
4. `slabs_fallback`. Without rseq the plain loads and stores of the fallback
   race with other threads on the same CPU.

The first design has two loops that need not end. Each is the exception in a
property and not a finding: no comment or test says that these loops end, and the
design is no longer used. So `SearchEnds` does not protect against the first of
them; it says that there is no other. A search that begins with `prev_search_end` on the last block of the list
turns for ever if no block is large enough (`EndlessSearch`): it wraps at the
end of the list and waits to meet `prev_search_end->next`, which is null. And the
destructor takes the head of the list off and puts it back for ever if a block of
the heap above it is still out; `DestructorProgress` shows that it gets on when
all blocks of the heap have been given back.

With the real table the capacities add up to 17253 pointers, so the scaling of
`compute_slab_offsets` is never used. For smaller limits the sum may exceed
`MAX_SLAB_POINTERS`, because every class keeps one batch; the slabs are laid out
by the actual sum, so this is harmless (`SlicesDisjoint`).

Apart from these, requests above the largest class are refused (`allocate`
returns `nullptr`, `deallocate` has a TODO), and adjacent free spans whose total
exceeds `MAX_PAGES` stay separate.

## Proofs

Everything in this section holds for every value of the constants that satisfies
the assumption named in the module (`PageHeapAssumption`,
`CentralFreeListAssumption`, ...): the numbers are naturals, `NULL` is none of
the model values, `MAX_PAGES`, `PAGE_SIZE` and capacities are at least 1, and
the sizes the page heap is asked for are those of the size classes. Sets of
spans, pages, threads, CPUs and objects may have any size; only the proofs about
pointers need finitely many spans (`SpanListsAssumption`), because a walk along
a list has to end. For the size classes, `SizeClassTableAssumption` says that the
table is sorted and `SizeClassFieldsAssumption` that its rows fit their fields
and its batches the arrays of `allocate` and `deallocate` (`LimitsAssumption`
keeps a product of `compute_slab_offsets` within its `uint32_t`). For the central
lists `IndexAssumption` is the assert of `fetch_from_page_heap`: the objects of a
span have 16-bit indexes. `pack_capacity` and `ptr_to_index` are cut to 16 bits as
in the code, and `IndexRecovered` shows that an index loses nothing. For the first
design,
`OldAllocatorAssumption` says that tags have a size and that `mmap` returns
regions above the heap that do not overlap. TLC evaluates all of them on the
instances of the runs, those of the size classes on the real table.

| Module | Theorems | Properties of the runs |
|---|---|---|
| `PageHeapProofs` | `Invariant`, `TypeCorrect`, `PageMapCorrect`, `FreeListsCorrect`, `FreeSizesCorrect`, `PagesAccountedFor`, `HeldSpansSafe`, `NeighboursMerged`, `PromiseKept` | every property of `heap_carve`; `PageHeap` implements `PageAllocSpec` |
| `CentralFreeListProofs` (lemmas in `SpanObjectsProofs`) | `ListsInvariant`, `OwnershipHolds`, `PendingSpanStaysValid`, `ObjectsInsideHolds`, `ClassRecoveredHolds`, `PartitionHolds`, `CountsHold`, `FullyFreeReleasedHolds`, `RegionsKept` | every property of `cfl` but `ListsLinked`; `CentralFreeList` implements `RegionSpec` |
| `SpanListsProofs` | `ListsStayLinked` | `ListsLinked` |
| `SlabsProofs` | `BoundsHold`, `TypeCorrect`; under `RseqEverywhere` also `SectionsHold`, `SectionsImplementStacks`, `OnePlaceHolds`, `RepetitionIsTheOnlyCause`; under `SingleThread` also `AloneHolds`, `AloneImplementsStacks`, `AloneOnePlace`, `FallbackAlone` | `TypeOK`, `OnePlace`, `ImplementsStacks`, and how far the two findings reach |
| `AllocatorProofs` | `TypeCorrect`, `OnePlaceHolds`, `UserPromiseKept` | `TypeOK`, `OnePlace`; `Allocator` implements `AllocatorSpec` |
| `SizeClassTableProofs` | `Invariant`, `TypeCorrect`, `RoundsUpCorrect`, `SlicesHoldBatches`, `SlicesStayDisjoint` | every invariant of `size_classes` |
| `OldAllocatorProofs` | `OldInvariant`, `HeapStaysTiled`, `FreeListStaysExact`, `AvailableStaysExact`, `SearchEndStaysListed`, `FreeBlocksApart`, `CreationNeeded`, `DestructorAdvances`, `OldRegionsKept` | every property of `old` but `SearchEnds`; `OldAllocator` implements `RegionSpec` |

**PageHeap.** `IInv` is `Good(Heap, {})` and `Accounted`. `Good(h, D)` is a
predicate on a heap record: types, lengths, the page map, the free lists and the
sizes agree. D is the set of spans that an operation is working on: they are on
no free list and may be longer than `MAX_PAGES` for the moment. None of the five
invariants is inductive by itself: merging is right because the page map is
exact *and* because a neighbour marked free is on the list of its length, and
that a removed span leaves its list needs its length to be at most `MAX_PAGES`.
Each helper of the code has a lemma from `Good` to `Good`: `AbsorbGood` for one
merge, `CoalesceGood` for both (at most 2 · `MAX_PAGES` pages are gained),
`DivideGood` for cutting a span in two, from which `split` and `carve_front`
both follow, `CarveGood` for the loop, `InsertGood` at the end. `Accounted` ties
the page map to what the OS has mapped; the helpers keep the set of owned pages
(`SamePages`), so only `mmap`, `munmap` and the destructor touch it. `Reshaped`
and `TouchesOnly` carry through the same steps that no held span changes but the
one the operation was called for, which gives `HeldSpansSafe` and, step by step,
`PromiseKept`: an extent that becomes held consists of mapped pages of a span
that was not held, and the page map being exact it overlaps no other.
`NeighboursMerged` follows one border of the returned span through the
operation: a merge leaves both its sides in one span or finds no free span there
that fits, later merges only make spans longer, and a turn of the carving loop
can cut at the border only by leaving a span of `MAX_PAGES` pages below it.

**CentralFreeList.** `SpanObjectsProofs` is about the fields of one span.
`FieldsOK(o)` says that the unrolled list names carved objects only, each once,
and that `num_free_objects` counts them; `popped`, `pushed` and `populate_span`
keep it (`PoppedOK`, `PushedOK`, `PopulatedOK`), where `populate_span` is the
hard one: the chunk's groups tile the chunk, so that every object is in exactly
one node. `CentralFreeListProofs` puts spans, lists and calls together.
`ListsInv` consists of

- `IInv` of the page heap, which its actions keep inside this system too;
- `FieldsOK` for every span and `SpanOwnership`;
- `DividedFor(c, s)`: a span in the list of class c carries its size, has the
  pages its row asks for and was divided into as many objects as fit its pages. Without it nothing relates an
  index to an address inside the span;
- `ListExact(c)`: what is out of class c is exactly what was carved and is not
  free, `num_free` counts the free objects of all spans, and no span is fully
  carved and fully free;
- `ReturnedOnce(t)`: the pointer of a call between its lookup and its lock is in
  nobody else's hands, and the page map still leads to the span that was looked
  up;
- while the destructors run, that nothing is out (`Quiet`) instead of the last
  two, since the destructor does not keep the counters up.

`PendingSpanValid` is not inductive: another `deallocate` could release the span
in between. It cannot because it would need *all* objects of the span on the
list, and the pointer on its way is one that is not (`OtherCallsElsewhere`); that
takes `ListExact`, `ReturnedOnce` and the geometry of objects: different objects
have different addresses, every byte of an object is on a page of its span, and
`ptr_to_index` inverts `index_to_ptr` (`SameObject`, `ByteFound`,
`IndexRecovered`). Each step changes one span of one list; `StepAt` says so, and
`StepKeeps` reduces the invariant to what the step has to show about this span
and this list. `RegionsKept` follows from the invariant after the step: any two
objects that are out are disjoint, in one span by their indexes, in two spans
because no page belongs to both.

**SpanLists.** The effects of a step are folds over the sets of spans it takes
and inserts, and the code's order among them is lost there; so the invariant must
not depend on it. `Sorted` describes a free list by its *gaps*: NULL and the
head, a span and its `next`, a `prev` and its span are neighbours in the sense
that no span of the list starts between them (`Gap`). That fixes every pointer
without mentioning any other, there is only one gap on each side of a span, and
removing or inserting a span only joins or divides one gap (`RemoveSorted`,
`InsertSorted`). With it `TakeAllChained` and `PutAllChained` go through the folds
in whatever order `CHOOSE` takes. That the insertion's walk stops in the right
gap is `StopFound`: the walk meets spans in rising order, and cannot be longer
than there are spans. A span list is described by its sequence (`Follows`):
`next` of the i-th span is the next one and `prev` the one before. `LinkInv` says
both; it is inductive together with `ListsInv`, from which it takes that a span
on a span list is held, and therefore on no free list, so that what the page heap
does to pointers cannot disturb a span list and vice versa (`HeapRelinks`,
`ListKept`). Once the destructors run, what the first span of a list points back
at is left open, since `~CentralFreeList` leaves that pointer dangling.

**Slabs.** `BoundsHold` needs no assumption: whatever races and repetitions
happen, counts stay in their slice. Four theorems are about the sections alone
(`RseqEverywhere`: rseq is available and every CPU has a slab). Threads may be
preempted and migrated between any two instructions, after the committing store
too. `Sections` says that up to the commit a thread inside its section is on the
CPU whose slab it works on, that what it has loaded is still there, and that the
slot above the count holds what a push has written; preemption throws it out. So
the commit is where the operation happens, an abort after it is a `Repeat`, and
every other step stutters for `SlabSpec`. A repetition moves only its own pointer,
so `OnePlace` holds of all the others (`OnePlaceHolds`), and two callers share a
pointer only if a call on it was repeated (`RepetitionIsTheOnlyCause`): finding 3
is the one defect of the sections. The `Alone` theorems are about a process with
one thread (`SingleThread`), with or without rseq and with CPUs that have no slab,
the case of `slabs_single`: the fallback may be suspended anywhere, but the count
it has read is still the slab's when it stores the new one. Without rseq nothing
is ever repeated either (`FallbackAlone`), so the double allocation on the
fallback (finding 4) takes a second thread. Several threads on the fallback are
the one case about which only `BoundsHold` and `TypeCorrect` are left to say.

**Allocator.** `IInv` is `Typed` and `OnePlace`; each step moves a set of objects
from one place to another (slab, transfer cache, central list, batch, hands,
users), and the places stay disjoint and complete. `Typed` carries how full a
batch can be at each point of the two operations, so that every place they reach
has room. The operations of the slab are `SlabSpec`'s, without its repetitions,
and the central list is a set, as in the model. That the central list provides
this is what the proofs about it show; the slabs provide it for a call that is
not repeated, and not where threads race on the fallback.

**SizeClassTable.** For every table sorted by size and every request: the answer
stays between the bounds of each search, so the searches end on it, and the
second one, on the size the first one found, finds the same row. The layout
needs no invariant beyond that: a capacity is a positive multiple of the batch
and never above the unscaled capacity, so it fits the count; an offset is the
sum of the capacities before it, so the slice of a class ends before the next
begins, and the stride from one CPU to the next covers all of them.

**OldAllocator.** `OldInv` is about the tags. `Blocks`: the blocks of the heap
lie one behind the other from `brk_heap_start` to `brk_heap_end`, mapped blocks
lie apart, and a footer is at the end of every block and repeats its header.
`Apart`: no two free blocks meet. `Listed`: there is a rank on the free blocks
that falls along `next`, from the head of `free_list` to the last block, with no
other free block's rank in between; this says at once that the list has no cycle, holds every free block once, and
what a search that has reached `curr` has met so far: every block it has passed
is too small (`Passed`). `HeldBlocks`: a block that is not free has a user, for
as much as it asked, or was left behind by the destructor. `Control` is what is
known between the steps of a call. None of the properties is inductive alone:
merging needs the footers to be exact to find the block below, exactness of the
list needs that a merged block was on it, and `available_bytes` that both hold.
The helpers are described by what they do to the tags in any memory (`Absorbs`,
`Unlinks`, `HasCut`, `Creates`), and `Sound` and `Merging` say what still holds
of a memory in the middle of `coalesce_around`, where a free block has a free
neighbour; the loop of `coalesce_next` is followed turn by turn (`IsTurns`). Sums
of block sizes are treated by adding and removing one block at a time.
`OldRegionsKept` follows from the tiling: used blocks are different tiles.

Induction. The library's induction theorems take a predicate as a parameter,
which the provers do not instantiate. Induction over data is therefore stated
with sets (`NumberInduction`, `SubsetInduction` and the like): a set that
contains 0 and the successor of each of its numbers contains all numbers. This
follows from the well-foundedness of `<`, and the set is defined with the claim
at hand. Recursive functions and folds are first shown to exist, and then
unfolded one step at a time.

Checked with TLC only: the liveness properties `CallsReturn`, `CallsEnd` and
`SearchEnds` (of two modules), which need fairness and are out of the prover's
reach.

## Not modelled

- `radix_tree.hpp` is a placeholder; `main.cpp`, the tests and the scripts have
  no state of their own. `old/main.cpp` and `old/tests.hpp` call members of the
  first design that are commented out.
- `get_num_free`, which nobody calls, and `deallocate` of pointers that the
  allocator did not return.
- Memory ordering inside a critical section of a mutex, the contents of objects,
  and the alignment of blocks in the first design.

## Where to go from here

Every safety property and every refinement that a run checks is proved, those of
the slabs in the settings named there. If the range of the descriptor ended at
the committing store, `Repeats` would be false and `Repeat` could go from
`SlabSpec`; `Allocator` would then rest on what is proved of the slabs. What
remains are the liveness properties, and the pieces of code that do not exist
yet: the radix tree, and the path for requests above the largest class, which
would become another user of the page heap beside the central free lists.
