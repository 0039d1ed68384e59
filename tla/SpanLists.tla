------------------------------ MODULE SpanLists ------------------------------
(***************************************************************************)
(* The linked lists behind PageHeap and CentralFreeList.  A Span has one   *)
(* pair of pointers next and prev, and two owners use it: while the span   *)
(* is free the page heap, under PageHeap::mu, for the free list of its     *)
(* length, sorted by start; while it is in use the central free list that  *)
(* fetched it, under CentralFreeList::mu, for its span_list.               *)
(*                                                                         *)
(* Every step of CentralFreeList is taken together with what it does to    *)
(* the pointers, in the order of the code.  The sets and sequences that    *)
(* PageHeap and CentralFreeList keep say which spans a step takes off a    *)
(* list and puts on one; the invariants say that following the pointers    *)
(* gives exactly those sets and sequences.                                 *)
(***************************************************************************)
EXTENDS CentralFreeList, FiniteSetsExt

(* There are finitely many Span objects, so that walking a list can end.   *)
ASSUME SpanListsAssumption == IsFiniteSet(Span)

VARIABLES
    next, prev,   \* Span::next, Span::prev
    free_head,    \* PageHeap::free_lists: number of pages -> first span
    list_head     \* CentralFreeList::span_list: class -> first span

linkvars == <<next, prev, free_head, list_head>>
linkedvars == <<listvars, linkvars>>

Links == [next |-> next, prev |-> prev, free |-> free_head, list |-> list_head]

BecomesLinks(k) ==
    /\ next' = k.next
    /\ prev' = k.prev
    /\ free_head' = k.free
    /\ list_head' = k.list

Unlinked == [s \in Span |-> NULL]

-----------------------------------------------------------------------------
(* Changing pointers *)

(* p->f = s, if there is a p.                                              *)
point(f, p, s) == IF p = NULL THEN f ELSE [f EXCEPT ![p] = s]

(* The neighbours of s are joined; s points nowhere.                       *)
detached(k, s) ==
    [k EXCEPT !.next = point(point(@, k.prev[s], k.next[s]), s, NULL),
              !.prev = point(point(@, k.next[s], k.prev[s]), s, NULL)]

head_without(k, s, head) == IF k.prev[s] = NULL THEN k.next[s] ELSE head

free_list_remove(k, n, s) ==
    [detached(k, s) EXCEPT !.free[n] = head_without(k, s, @)]

(* Mutant: the span in front of the list is unlinked like any other.       *)
UnlinkKeepsHead(k, c, s) == detached(k, s)

(* release_to_page_heap takes the span off the list.                       *)
unlink(k, c, s) ==
    [detached(k, s) EXCEPT !.list[c] = head_without(k, s, @)]

(* fetch_from_page_heap puts the new span in front of the list.            *)
push_front(k, c, s) ==
    [k EXCEPT !.next[s] = k.list[c],
              !.prev = point([@ EXCEPT ![s] = NULL], k.list[c], s),
              !.list[c] = s]

(* Where n steps along next lead from a span.                              *)
along(f, first) ==
    LET at[n \in 0 .. Cardinality(Span)] ==
            IF n = 0 THEN first
            ELSE LET s == at[n - 1] IN IF s = NULL THEN NULL ELSE f[s]
    IN  at

starts_behind(t, s, record) == record[s].start < record[t].start

(* Mutant: the span inserted before is not told of the new one.            *)
InsertForgetsPrev(k, n, s, record) ==
    LET at    == along(k.next, k.free[n])
        stops == {i \in DOMAIN at : at[i] = NULL \/ starts_behind(at[i], s, record)}
        i     == Min(stops)
        before == IF i = 0 THEN NULL ELSE at[i - 1]
    IN  [k EXCEPT !.next = point(point(@, s, at[i]), before, s),
                  !.prev = point(@, s, before),
                  !.free[n] = IF before = NULL THEN s ELSE @]

(* The walk stops at the first span that starts behind s, or at the end.   *)
free_list_insert(k, n, s, record) ==
    LET at    == along(k.next, k.free[n])
        stops == {i \in DOMAIN at : at[i] = NULL \/ starts_behind(at[i], s, record)}
        i     == Min(stops)
        before == IF i = 0 THEN NULL ELSE at[i - 1]
    IN  [k EXCEPT !.next = point(point(@, s, at[i]), before, s),
                  !.prev = point(point(@, s, before), at[i], s),
                  !.free[n] = IF before = NULL THEN s ELSE @]

-----------------------------------------------------------------------------
(* What an operation of the page heap does: it takes the spans it reuses   *)
(* or merges off their lists, then inserts what it splits off, carves or   *)
(* returns.                                                                *)

Listed == UNION {{<<n, s, span[s].start>> : s \in free_lists[n]} :
                    n \in 0 .. MAX_PAGES}

relisted(k) ==
    LET was == Listed
        is  == Listed'
        take(e, x) == free_list_remove(x, e[1], e[2])
        put(e, x)  == free_list_insert(x, e[1], e[2], span')
    IN  FoldSet(put, FoldSet(take, k, was \ is), is \ was)

fetched(c) == Range(cfl'[c].span_list) \ Range(cfl[c].span_list)
released(c) == Range(cfl[c].span_list) \ Range(cfl'[c].span_list)

linked_allocate(c) ==
    LET push(s, k) == push_front(k, c, s)
    IN  /\ allocate(c)
        /\ BecomesLinks(FoldSet(push, relisted(Links), fetched(c)))

linked_deallocate(t) ==
    LET c == pending[t].class
        take(s, k) == unlink(k, c, s)
    IN  /\ deallocate_locked(t)
        /\ BecomesLinks(relisted(FoldSet(take, Links, released(c))))

(* ~CentralFreeList walks the list, with list_head for its local variable  *)
(* curr.  It clears the pointers of the span it returns, and leaves those  *)
(* of the next one back to it as they are.                                 *)
linked_destructor_step(c) ==
    LET s == list_head[c]
    IN  /\ destructor_step(c)
        /\ BecomesLinks(relisted([Links EXCEPT !.list[c] = next[s],
                                 !.next[s] = NULL, !.prev[s] = NULL]))

(* ~PageHeap deletes what it meets on its lists.                           *)
linked_page_heap_destructor ==
    /\ page_heap_destructor
    /\ BecomesLinks([next |-> Unlinked, prev |-> Unlinked,
                     free |-> [n \in 0 .. MAX_PAGES |-> NULL],
                     list |-> list_head])

LinkedInit ==
    /\ ListsInit
    /\ next = Unlinked /\ prev = Unlinked
    /\ free_head = [n \in 0 .. MAX_PAGES |-> NULL]
    /\ list_head = [c \in Class |-> NULL]

LinkedNext ==
    \/ \E c \in Class : linked_allocate(c)
    \/ \E t \in Thread, c \in Class : \E ptr \in held[c] :
          deallocate_lookup(t, c, ptr) /\ UNCHANGED linkvars
    \/ \E t \in Thread : linked_deallocate(t)
    \/ begin_teardown /\ UNCHANGED linkvars
    \/ \E c \in Class : linked_destructor_step(c)
    \/ linked_page_heap_destructor

LinkedSpec == LinkedInit /\ [][LinkedNext]_linkedvars

-----------------------------------------------------------------------------
(* Properties *)

Reached(first) == Range(along(next, first)) \ {NULL}

(* prev leads back wherever next leads.                                    *)
BackAndForth(first) ==
    \A s \in Reached(first) : next[s] # NULL => prev[next[s]] = s

(* Following a free list gives every free span of its length and no other, *)
(* sorted by start; the way back gives the same.  PageHeap may therefore   *)
(* keep a list as its set of spans.                                        *)
FreeListsLinked ==
    \A n \in 0 .. MAX_PAGES :
        LET first == free_head[n]
        IN  /\ Reached(first) = free_lists[n]
            /\ first # NULL => prev[first] = NULL
            /\ BackAndForth(first)
            /\ \A s \in free_lists[n] :
                  next[s] # NULL => span[s].start < span[next[s]].start

(* Following span_list gives the spans the list has fetched and not        *)
(* released, latest first, whatever the page heap did with the pointers of *)
(* their former neighbours; so does the walk of the destructor, though it  *)
(* leaves pointers back to spans that are free by then.                    *)
SpanListsLinked ==
    \A c \in Class :
        LET first == list_head[c]
            list  == cfl[c].span_list
            at    == along(next, first)
        IN  /\ at[Len(list)] = NULL
            /\ \A i \in DOMAIN list : at[i - 1] = list[i]
            /\ BackAndForth(first)
            /\ first # NULL /\ ~tearing => prev[first] = NULL

(* The pointers of every list are right.                                   *)
ListsLinked == FreeListsLinked /\ SpanListsLinked

=============================================================================
