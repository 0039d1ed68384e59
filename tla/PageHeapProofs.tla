--------------------------- MODULE PageHeapProofs ---------------------------
(***************************************************************************)
(* Proofs about PageHeap, for every number of pages, every MAX_PAGES and   *)
(* every set of Span objects.                                              *)
(***************************************************************************)
EXTENDS PageHeap, TLAPS

HeapType == [span : [Span -> SpanRecord],
             page_map : [Page -> Span \cup {NULL}],
             free_lists : [0 .. MAX_PAGES -> SUBSET Span]]

(* A span that an operation is working on is in D: it is on no free list   *)
(* and its length may exceed MAX_PAGES for the moment.                     *)
LengthsOK(h, D) ==
    \A s \in Span : h.span[s].live =>
        /\ h.span[s].start >= 1
        /\ h.span[s].num_pages >= 1
        /\ h.span[s].start + h.span[s].num_pages - 1 <= NumPages
        /\ s \notin D => h.span[s].num_pages <= MAX_PAGES

MapOK(h) ==
    \A p \in Page, s \in Span :
        h.page_map[p] = s <=> h.span[s].live /\ p \in PagesOf(h, s)

ListsOK(h, D) ==
    \A n \in 0 .. MAX_PAGES, s \in Span :
        s \in h.free_lists[n] <=>
            /\ h.span[s].live /\ h.span[s].is_free
            /\ h.span[s].num_pages = n /\ s \notin D

SizesOK(h) ==
    \A s \in Span : h.span[s].live /\ h.span[s].is_free => h.span[s].size = 0

Good(h, D) ==
    /\ h \in HeapType
    /\ LengthsOK(h, D)
    /\ MapOK(h)
    /\ ListsOK(h, D)
    /\ SizesOK(h)

(* h and g own the same pages.                                             *)
SamePages(h, g) ==
    \A p \in Page : g.page_map[p] = NULL <=> h.page_map[p] = NULL

HeldIn(h, s) == h.span[s].live /\ ~h.span[s].is_free

(* From h to g only s and free spans change: s keeps its use, every held   *)
(* span is the same, and no page changes hands to or from the OS.          *)
Reshaped(h, g, s) ==
    /\ SamePages(h, g)
    /\ g.span[s].live = h.span[s].live
    /\ g.span[s].is_free = h.span[s].is_free
    /\ g.span[s].size = h.span[s].size
    /\ \A t \in Span \ {s} : HeldIn(h, t) \/ HeldIn(g, t) => g.span[t] = h.span[t]

-----------------------------------------------------------------------------
(* What the assignments to one component do to the record.                 *)
LEMMA SetSpan ==
    ASSUME NEW h \in HeapType, NEW s \in Span, NEW r \in SpanRecord
    PROVE  LET g == set_span(h, s, r)
           IN  /\ g \in HeapType
               /\ g.span[s] = r
               /\ \A t \in Span \ {s} : g.span[t] = h.span[t]
               /\ g.page_map = h.page_map
               /\ g.free_lists = h.free_lists
BY DEF set_span, HeapType

(* Replacing one free list leaves everything else alone.                   *)
LEMMA SetList ==
    ASSUME NEW h \in HeapType, NEW n \in 0 .. MAX_PAGES, NEW S \in SUBSET Span
    PROVE  LET g == set_list(h, n, S)
           IN  /\ g \in HeapType
               /\ g.free_lists[n] = S
               /\ \A k \in (0 .. MAX_PAGES) \ {n} :
                      g.free_lists[k] = h.free_lists[k]
               /\ g.page_map = h.page_map
               /\ g.span = h.span
BY DEF set_list, HeapType

(* register_span maps the pages of s to s and no others.                   *)
LEMMA RegisterEffect ==
    ASSUME NEW h \in HeapType, NEW s \in Span
    PROVE  LET g == register_span(h, s)
           IN  /\ g \in HeapType
               /\ g.span = h.span
               /\ g.free_lists = h.free_lists
               /\ \A p \in Page : g.page_map[p] =
                      IF p \in PagesOf(h, s) THEN s ELSE h.page_map[p]
BY DEF register_span, HeapType

(* unregister_span erases the pages of s and no others.                    *)
LEMMA UnregisterEffect ==
    ASSUME NEW h \in HeapType, NEW s \in Span
    PROVE  LET g == unregister_span(h, s)
           IN  /\ g \in HeapType
               /\ g.span = h.span
               /\ g.free_lists = h.free_lists
               /\ \A p \in Page : g.page_map[p] =
                      IF p \in PagesOf(h, s) THEN NULL ELSE h.page_map[p]
BY DEF unregister_span, HeapType

(* The fields of a Span, and what each kind of assignment leaves alone.    *)
LEMMA SpanFields ==
    ASSUME NEW h \in HeapType, NEW s \in Span
    PROVE  /\ h.span[s] \in SpanRecord
           /\ h.span[s].live \in BOOLEAN /\ h.span[s].is_free \in BOOLEAN
           /\ h.span[s].start \in Nat /\ h.span[s].num_pages \in Nat
           /\ h.span[s].size \in Nat
BY DEF HeapType, SpanRecord

ExtentSet(h, g, s, f, n) ==
    /\ g \in HeapType
    /\ g.span[s].live = h.span[s].live
    /\ g.span[s].is_free = h.span[s].is_free
    /\ g.span[s].size = h.span[s].size
    /\ g.span[s].start = f
    /\ g.span[s].num_pages = n
    /\ \A t \in Span \ {s} : g.span[t] = h.span[t]
    /\ g.page_map = h.page_map
    /\ g.free_lists = h.free_lists

(* Assigning start and num_pages of s.                                     *)
LEMMA SetExtent ==
    ASSUME NEW h \in HeapType, NEW s \in Span, NEW f \in Nat, NEW n \in Nat
    PROVE  ExtentSet(h, set_extent(h, s, f, n), s, f, n)
<1> DEFINE r == [h.span[s] EXCEPT !.start = f, !.num_pages = n]
<1>1. /\ r \in SpanRecord
      /\ r.live = h.span[s].live /\ r.is_free = h.span[s].is_free
      /\ r.size = h.span[s].size /\ r.start = f /\ r.num_pages = n
  BY SpanFields DEF SpanRecord
<1>2. set_extent(h, s, f, n) = set_span(h, s, r)
  BY DEF set_extent
<1> HIDE DEF r
<1> QED
  BY <1>1, <1>2, SetSpan DEF ExtentSet

(* remove_from_free_list takes s off the list of its length and marks it   *)
(* not free, and changes nothing else.                                     *)
LEMMA RemoveEffect ==
    ASSUME NEW h \in HeapType, NEW s \in Span, h.span[s].num_pages <= MAX_PAGES
    PROVE  LET g == remove_from_free_list(h, s)
           IN  /\ g \in HeapType
               /\ g.span[s].live = h.span[s].live
               /\ g.span[s].is_free = FALSE
               /\ g.span[s].size = h.span[s].size
               /\ g.span[s].start = h.span[s].start
               /\ g.span[s].num_pages = h.span[s].num_pages
               /\ \A t \in Span \ {s} : g.span[t] = h.span[t]
               /\ g.page_map = h.page_map
               /\ \A k \in 0 .. MAX_PAGES : g.free_lists[k] =
                      IF k = h.span[s].num_pages
                      THEN h.free_lists[k] \ {s} ELSE h.free_lists[k]
<1> DEFINE r == [h.span[s] EXCEPT !.is_free = FALSE]
           n == h.span[s].num_pages
           h1 == set_span(h, s, r)
           g == set_list(h1, n, h.free_lists[n] \ {s})
<1>1. /\ r \in SpanRecord
      /\ r.live = h.span[s].live /\ r.is_free = FALSE
      /\ r.size = h.span[s].size /\ r.start = h.span[s].start
      /\ r.num_pages = n
  BY SpanFields DEF SpanRecord
<1>2. n \in 0 .. MAX_PAGES /\ h.free_lists[n] \ {s} \in SUBSET Span
  BY SpanFields, PageHeapAssumption DEF HeapType
<1>3. g = remove_from_free_list(h, s)
  BY <1>2, PageHeapAssumption DEF remove_from_free_list
<1> HIDE DEF r
<1>4. /\ h1 \in HeapType /\ h1.span[s] = r
      /\ \A t \in Span \ {s} : h1.span[t] = h.span[t]
      /\ h1.page_map = h.page_map /\ h1.free_lists = h.free_lists
  BY <1>1, SetSpan
<1> HIDE DEF h1, n
<1>5. /\ g \in HeapType /\ g.span = h1.span /\ g.page_map = h1.page_map
      /\ g.free_lists[n] = h.free_lists[n] \ {s}
      /\ \A k \in (0 .. MAX_PAGES) \ {n} : g.free_lists[k] = h1.free_lists[k]
  BY <1>2, <1>4, SetList
<1> HIDE DEF g
<1>6. \A k \in 0 .. MAX_PAGES :
          g.free_lists[k] = IF k = n THEN h.free_lists[k] \ {s}
                                     ELSE h.free_lists[k]
  BY <1>4, <1>5
<1>. QED
  BY <1>1, <1>3, <1>4, <1>5, <1>6 DEF n

(* insert puts s on the list of its length and marks it free, and changes  *)
(* nothing else.                                                           *)
LEMMA InsertEffect ==
    ASSUME NEW h \in HeapType, NEW s \in Span, h.span[s].num_pages <= MAX_PAGES
    PROVE  LET g == insert(h, s)
           IN  /\ g \in HeapType
               /\ g.span[s].live = h.span[s].live
               /\ g.span[s].is_free = TRUE
               /\ g.span[s].size = h.span[s].size
               /\ g.span[s].start = h.span[s].start
               /\ g.span[s].num_pages = h.span[s].num_pages
               /\ \A t \in Span \ {s} : g.span[t] = h.span[t]
               /\ g.page_map = h.page_map
               /\ \A k \in 0 .. MAX_PAGES : g.free_lists[k] =
                      IF k = h.span[s].num_pages
                      THEN h.free_lists[k] \cup {s} ELSE h.free_lists[k]
<1> DEFINE r == [h.span[s] EXCEPT !.is_free = TRUE]
           n == h.span[s].num_pages
           h1 == set_span(h, s, r)
           g == set_list(h1, n, h.free_lists[n] \cup {s})
<1>1. /\ r \in SpanRecord
      /\ r.live = h.span[s].live /\ r.is_free = TRUE
      /\ r.size = h.span[s].size /\ r.start = h.span[s].start
      /\ r.num_pages = n
  BY SpanFields DEF SpanRecord
<1>2. n \in 0 .. MAX_PAGES /\ h.free_lists[n] \cup {s} \in SUBSET Span
  BY SpanFields, PageHeapAssumption DEF HeapType
<1>3. g = insert(h, s)
  BY <1>2, PageHeapAssumption DEF insert
<1> HIDE DEF r
<1>4. /\ h1 \in HeapType /\ h1.span[s] = r
      /\ \A t \in Span \ {s} : h1.span[t] = h.span[t]
      /\ h1.page_map = h.page_map /\ h1.free_lists = h.free_lists
  BY <1>1, SetSpan
<1> HIDE DEF h1, n
<1>5. /\ g \in HeapType /\ g.span = h1.span /\ g.page_map = h1.page_map
      /\ g.free_lists[n] = h.free_lists[n] \cup {s}
      /\ \A k \in (0 .. MAX_PAGES) \ {n} : g.free_lists[k] = h1.free_lists[k]
  BY <1>2, <1>4, SetList
<1> HIDE DEF g
<1>6. \A k \in 0 .. MAX_PAGES :
          g.free_lists[k] = IF k = n THEN h.free_lists[k] \cup {s}
                                     ELSE h.free_lists[k]
  BY <1>4, <1>5
<1>. QED
  BY <1>1, <1>3, <1>4, <1>5, <1>6 DEF n

(* The effect of absorb, as one update of each component.                  *)
Absorbed(h, g, s, o, f) ==
    LET n == h.span[s].num_pages + h.span[o].num_pages
    IN  /\ g \in HeapType
        /\ g.span[s].live = h.span[s].live
        /\ g.span[s].is_free = h.span[s].is_free
        /\ g.span[s].size = h.span[s].size
        /\ g.span[s].start = f
        /\ g.span[s].num_pages = n
        /\ g.span[o] = Deleted
        /\ \A t \in Span \ {s, o} : g.span[t] = h.span[t]
        /\ \A p \in Page :
             g.page_map[p] =
                IF p \in f .. f + n - 1 THEN s
                ELSE IF p \in PagesOf(h, s) \/ p \in PagesOf(h, o)
                THEN NULL ELSE h.page_map[p]
        /\ \A k \in 0 .. MAX_PAGES :
             g.free_lists[k] = IF k = h.span[o].num_pages
                               THEN h.free_lists[k] \ {o}
                               ELSE h.free_lists[k]

(* The record after absorb, component by component.                        *)
LEMMA AbsorbEffect ==
    ASSUME NEW h \in HeapType, NEW s \in Span, NEW o \in Span, s # o,
           NEW f \in Nat, h.span[o].num_pages <= MAX_PAGES
    PROVE  Absorbed(h, absorb(h, s, o, f), s, o, f)
<1> DEFINE h1 == remove_from_free_list(h, o)
           h2 == unregister_span(h1, o)
           h3 == unregister_span(h2, s)
           n  == h3.span[s].num_pages + h3.span[o].num_pages
           h4 == set_extent(h3, s, f, n)
           h5 == register_span(h4, s)
           g  == delete_span(h5, o)
<1>1. /\ h1 \in HeapType
      /\ h1.span[o].num_pages = h.span[o].num_pages
      /\ h1.span[o].start = h.span[o].start
      /\ \A t \in Span \ {o} : h1.span[t] = h.span[t]
      /\ h1.page_map = h.page_map
      /\ \A k \in 0 .. MAX_PAGES : h1.free_lists[k] =
             IF k = h.span[o].num_pages
             THEN h.free_lists[k] \ {o} ELSE h.free_lists[k]
  BY RemoveEffect
<1> HIDE DEF h1
<1>2. /\ h2 \in HeapType /\ h2.span = h1.span
      /\ h2.free_lists = h1.free_lists
      /\ \A p \in Page : h2.page_map[p] =
             IF p \in PagesOf(h1, o) THEN NULL ELSE h1.page_map[p]
  BY <1>1, UnregisterEffect
<1> HIDE DEF h2
<1>3. /\ h3 \in HeapType /\ h3.span = h2.span
      /\ h3.free_lists = h2.free_lists
      /\ \A p \in Page : h3.page_map[p] =
             IF p \in PagesOf(h2, s) THEN NULL ELSE h2.page_map[p]
  BY <1>2, UnregisterEffect
<1> HIDE DEF h3
<1>4. n \in Nat /\ n = h.span[s].num_pages + h.span[o].num_pages
  <2>1. h3.span[s] = h.span[s] /\ h3.span[o].num_pages = h.span[o].num_pages
    BY <1>1, <1>2, <1>3
  <2> QED
    BY <2>1, SpanFields
<1> HIDE DEF n
<1>5. /\ h4 \in HeapType
      /\ h4.span[s].live = h3.span[s].live
      /\ h4.span[s].is_free = h3.span[s].is_free
      /\ h4.span[s].size = h3.span[s].size
      /\ h4.span[s].start = f /\ h4.span[s].num_pages = n
      /\ \A t \in Span \ {s} : h4.span[t] = h3.span[t]
      /\ h4.page_map = h3.page_map /\ h4.free_lists = h3.free_lists
  <2>1. h3 \in HeapType /\ n \in Nat
    BY <1>3, <1>4
  <2>2. ExtentSet(h3, h4, s, f, n)
    BY <2>1, SetExtent
  <2> HIDE DEF h4
  <2> QED
    BY <2>2 DEF ExtentSet
<1> HIDE DEF h4
<1>6. /\ h5 \in HeapType /\ h5.span = h4.span
      /\ h5.free_lists = h4.free_lists
      /\ \A p \in Page : h5.page_map[p] =
             IF p \in PagesOf(h4, s) THEN s ELSE h4.page_map[p]
  BY <1>5, RegisterEffect
<1> HIDE DEF h5
<1>7. /\ g \in HeapType /\ g.span[o] = Deleted
      /\ \A t \in Span \ {o} : g.span[t] = h5.span[t]
      /\ g.page_map = h5.page_map /\ g.free_lists = h5.free_lists
  <2>1. Deleted \in SpanRecord
    BY DEF Deleted, SpanRecord
  <2> QED
    BY <1>6, <2>1, SetSpan DEF delete_span
<1>8. g = absorb(h, s, o, f)
  BY DEF absorb, h1, h2, h3, h4, h5, n
<1> HIDE DEF g
<1>9. /\ PagesOf(h1, o) = PagesOf(h, o)
      /\ PagesOf(h2, s) = PagesOf(h, s)
      /\ PagesOf(h4, s) = f .. f + n - 1
  BY <1>1, <1>2, <1>5 DEF PagesOf
<1>10. \A p \in Page :
          g.page_map[p] =
             IF p \in f .. f + n - 1 THEN s
             ELSE IF p \in PagesOf(h, s) \/ p \in PagesOf(h, o)
             THEN NULL ELSE h.page_map[p]
  BY <1>1, <1>2, <1>3, <1>5, <1>6, <1>7, <1>9
<1>11. /\ g.span[s].live = h.span[s].live
       /\ g.span[s].is_free = h.span[s].is_free
       /\ g.span[s].size = h.span[s].size
       /\ g.span[s].start = f /\ g.span[s].num_pages = n
       /\ \A t \in Span \ {s, o} : g.span[t] = h.span[t]
  BY <1>1, <1>2, <1>3, <1>5, <1>6, <1>7
<1>12. \A k \in 0 .. MAX_PAGES :
          g.free_lists[k] = IF k = h.span[o].num_pages
                            THEN h.free_lists[k] \ {o} ELSE h.free_lists[k]
  BY <1>1, <1>2, <1>3, <1>5, <1>6, <1>7
<1> QED
  BY <1>4, <1>7, <1>8, <1>10, <1>11, <1>12 DEF Absorbed

(* What one side of coalesce, the whole of it and one turn of carve        *)
(* guarantee: the heap stays good while s grows by at most n pages.        *)
Grown(h, g, s, n) ==
    /\ Good(g, {s})
    /\ Reshaped(h, g, s)
    /\ g.span[s].num_pages <= h.span[s].num_pages + n
    /\ \A t \in Fresh(h) : t \in Fresh(g)

(* Absorbing an adjacent free span keeps the heap good and owns the same   *)
(* pages as before.                                                        *)
LEMMA AbsorbGood ==
    ASSUME NEW h, NEW s \in Span, NEW o \in Span, s # o, Good(h, {s}),
           h.span[s].live, h.span[s].is_free, h.span[o].live, h.span[o].is_free,
           NEW f \in Nat,
           \/ /\ f = h.span[o].start
              /\ h.span[o].start + h.span[o].num_pages = h.span[s].start
           \/ /\ f = h.span[s].start
              /\ h.span[s].start + h.span[s].num_pages = h.span[o].start
    PROVE  Grown(h, absorb(h, s, o, f), s, MAX_PAGES)
<1> DEFINE g == absorb(h, s, o, f)
           n == h.span[s].num_pages + h.span[o].num_pages
<1>1. /\ h \in HeapType
      /\ LengthsOK(h, {s}) /\ MapOK(h) /\ ListsOK(h, {s}) /\ SizesOK(h)
  BY DEF Good
<1>2. /\ h.span[o].num_pages <= MAX_PAGES
      /\ h.span[o].num_pages >= 1 /\ h.span[s].num_pages >= 1
      /\ h.span[o].num_pages \in Nat /\ h.span[s].num_pages \in Nat
      /\ h.span[o].start \in Nat /\ h.span[s].start \in Nat
      /\ h.span[o].start >= 1 /\ h.span[s].start >= 1
      /\ h.span[o].start + h.span[o].num_pages - 1 <= NumPages
      /\ h.span[s].start + h.span[s].num_pages - 1 <= NumPages
  BY <1>1, SpanFields DEF LengthsOK
<1>3. /\ g \in HeapType
      /\ g.span[s].live = h.span[s].live
      /\ g.span[s].is_free = h.span[s].is_free
      /\ g.span[s].size = h.span[s].size
      /\ g.span[s].start = f
      /\ g.span[s].num_pages = n
      /\ g.span[o] = Deleted
      /\ \A t \in Span \ {s, o} : g.span[t] = h.span[t]
      /\ \A p \in Page :
           g.page_map[p] =
              IF p \in f .. f + n - 1 THEN s
              ELSE IF p \in PagesOf(h, s) \/ p \in PagesOf(h, o)
              THEN NULL ELSE h.page_map[p]
      /\ \A k \in 0 .. MAX_PAGES :
           g.free_lists[k] = IF k = h.span[o].num_pages
                             THEN h.free_lists[k] \ {o} ELSE h.free_lists[k]
  <2>1. h \in HeapType /\ h.span[o].num_pages <= MAX_PAGES
    BY <1>1, <1>2
  <2>2. Absorbed(h, g, s, o, f)
    BY <2>1, AbsorbEffect
  <2> HIDE DEF g
  <2> QED
    BY <2>2 DEF Absorbed
<1> HIDE DEF g
<1>4. ~g.span[o].live /\ g.span[s].live /\ g.span[s].is_free
  BY <1>3 DEF Deleted
<1>5. \A p \in Int :
         p \in f .. f + n - 1 <=> p \in PagesOf(h, s) \/ p \in PagesOf(h, o)
  BY <1>2 DEF PagesOf
<1>6. \A p \in Page :
         g.page_map[p] = IF p \in PagesOf(h, s) \/ p \in PagesOf(h, o)
                         THEN s ELSE h.page_map[p]
  BY <1>3, <1>5 DEF Page
<1>7. PagesOf(g, s) = f .. f + n - 1
  BY <1>3 DEF PagesOf
<1>8. \A t \in Span \ {s, o} : PagesOf(g, t) = PagesOf(h, t)
  BY <1>3 DEF PagesOf
<1>9. LengthsOK(g, {s})
  BY <1>1, <1>2, <1>3, <1>4 DEF LengthsOK
<1>10. MapOK(g)
  <2> SUFFICES ASSUME NEW p \in Page, NEW t \in Span
               PROVE  g.page_map[p] = t <=> g.span[t].live /\ p \in PagesOf(g, t)
    BY DEF MapOK
  <2>0. p \in Int
    BY DEF Page
  <2>1. CASE t = s
    BY <2>0, <2>1, <1>1, <1>4, <1>5, <1>6, <1>7 DEF MapOK
  <2>2. CASE t = o
    BY <2>0, <2>2, <1>1, <1>4, <1>6 DEF MapOK
  <2>3. CASE t \notin {s, o}
    BY <2>0, <2>3, <1>1, <1>3, <1>6, <1>8 DEF MapOK
  <2> QED
    BY <2>1, <2>2, <2>3
<1>11. ListsOK(g, {s})
  <2> SUFFICES ASSUME NEW k \in 0 .. MAX_PAGES, NEW t \in Span
               PROVE  t \in g.free_lists[k] <=>
                         /\ g.span[t].live /\ g.span[t].is_free
                         /\ g.span[t].num_pages = k /\ t \notin {s}
    BY DEF ListsOK
  <2>1. t \in h.free_lists[k] <=>
            /\ h.span[t].live /\ h.span[t].is_free
            /\ h.span[t].num_pages = k /\ t \notin {s}
    BY <1>1 DEF ListsOK
  <2>2. g.free_lists[k] = IF k = h.span[o].num_pages
                          THEN h.free_lists[k] \ {o} ELSE h.free_lists[k]
    BY <1>3
  <2>3. CASE t = s
    BY <2>1, <2>2, <2>3
  <2>4. CASE t = o
    BY <2>1, <2>2, <2>4, <1>4
  <2>5. CASE t \notin {s, o}
    <3>1. g.span[t] = h.span[t]
      BY <1>3, <2>5
    <3> QED
      BY <2>1, <2>2, <2>5, <3>1
  <2> QED
    BY <2>3, <2>4, <2>5
<1>12. SizesOK(g)
  BY <1>1, <1>3, <1>4 DEF SizesOK
<1>13. SamePages(h, g)
  BY <1>1, <1>6, PageHeapAssumption DEF SamePages, MapOK
<1>14. Reshaped(h, g, s)
  <2>1. \A t \in Span \ {s} : HeldIn(h, t) \/ HeldIn(g, t) => g.span[t] = h.span[t]
    BY <1>3, <1>4 DEF HeldIn
  <2> QED
    BY <1>3, <1>13, <2>1 DEF Reshaped
<1>15. \A t \in Fresh(h) : t \in Fresh(g)
  BY <1>3, <1>4 DEF Fresh
<1>16. Good(g, {s})
  BY <1>3, <1>9, <1>10, <1>11, <1>12 DEF Good
<1>17. g.span[s].num_pages <= h.span[s].num_pages + MAX_PAGES
  BY <1>2, <1>3, PageHeapAssumption
<1> QED
  BY <1>14, <1>15, <1>16, <1>17 DEF Grown, g

(* Reshaping in two steps is reshaping.                                    *)
LEMMA ReshapedTrans ==
    ASSUME NEW h, NEW g, NEW k, NEW s \in Span,
           Reshaped(h, g, s), Reshaped(g, k, s)
    PROVE  Reshaped(h, k, s)
BY DEF Reshaped, SamePages, HeldIn

(* Doing nothing is reshaping.                                             *)
LEMMA ReshapedRefl ==
    ASSUME NEW h, NEW s \in Span
    PROVE  Reshaped(h, h, s)
BY DEF Reshaped, SamePages

(* The left half of coalesce keeps the heap good; s grows by at most       *)
(* MAX_PAGES pages.                                                        *)
LEMMA CoalesceLeft ==
    ASSUME NEW h, NEW s \in Span, Good(h, {s}),
           h.span[s].live, h.span[s].is_free
    PROVE  Grown(h, coalesce_left(h, s), s, MAX_PAGES)
<1> DEFINE left == lookup(h, h.span[s].start - 1)
           g == absorb(h, s, left, h.span[left].start)
<1>1. /\ h \in HeapType
      /\ LengthsOK(h, {s}) /\ MapOK(h)
  BY DEF Good
<1>2. CASE h.span[s].start > 0 /\ mergeable(h, s, left)
  <2>1. left # NULL /\ left # s /\ h.span[left].is_free
    BY <1>2 DEF mergeable
  <2>2. left \in Span /\ h.span[s].start - 1 \in Page
        /\ h.page_map[h.span[s].start - 1] = left
    BY <1>1, <2>1 DEF lookup, HeapType
  <2> HIDE DEF left
  <2>3. h.span[left].live /\ h.span[s].start - 1 \in PagesOf(h, left)
    BY <1>1, <2>2 DEF MapOK
  <2>4. /\ h.span[s].num_pages \in Nat /\ h.span[left].num_pages \in Nat
        /\ h.span[s].start \in Nat /\ h.span[left].start \in Nat
    BY <1>1, <2>2, SpanFields
  <2>5. /\ h.span[s].start >= 1 /\ h.span[s].num_pages >= 1
        /\ h.span[s].start + h.span[s].num_pages - 1 <= NumPages
        /\ h.span[left].num_pages <= MAX_PAGES
    BY <1>1, <2>1, <2>2, <2>3 DEF LengthsOK
  <2>6. h.span[s].start \in Page /\ h.span[s].start \in PagesOf(h, s)
    BY <2>4, <2>5, PageHeapAssumption DEF Page, PagesOf
  <2>7. h.span[s].start \notin PagesOf(h, left)
    BY <1>1, <2>1, <2>2, <2>3, <2>6 DEF MapOK
  <2>8. h.span[left].start + h.span[left].num_pages = h.span[s].start
    BY <2>3, <2>4, <2>7 DEF PagesOf
  <2>9. Grown(h, g, s, MAX_PAGES)
    BY <2>1, <2>2, <2>3, <2>4, <2>8, AbsorbGood
  <2>10. coalesce_left(h, s) = g
    BY <1>2 DEF coalesce_left, left
  <2> HIDE DEF g
  <2> QED
    BY <2>9, <2>10
<1>3. CASE ~(h.span[s].start > 0 /\ mergeable(h, s, left))
  <2>1. coalesce_left(h, s) = h
    BY <1>3 DEF coalesce_left
  <2> QED
    BY <1>1, <2>1, ReshapedRefl, SpanFields, PageHeapAssumption DEF Grown
<1> QED
  BY <1>2, <1>3

(* The right half of coalesce keeps the heap good; s grows by at most      *)
(* MAX_PAGES pages.                                                        *)
LEMMA CoalesceRight ==
    ASSUME NEW h, NEW s \in Span, Good(h, {s}),
           h.span[s].live, h.span[s].is_free
    PROVE  Grown(h, coalesce_right(h, s), s, MAX_PAGES)
<1> DEFINE right == lookup(h, h.span[s].start + h.span[s].num_pages)
           g == absorb(h, s, right, h.span[s].start)
<1>1. /\ h \in HeapType
      /\ LengthsOK(h, {s}) /\ MapOK(h)
  BY DEF Good
<1>2. CASE mergeable(h, s, right)
  <2>1. right # NULL /\ right # s /\ h.span[right].is_free
    BY <1>2 DEF mergeable
  <2>2. right \in Span /\ h.span[s].start + h.span[s].num_pages \in Page
        /\ h.page_map[h.span[s].start + h.span[s].num_pages] = right
    BY <1>1, <2>1 DEF lookup, HeapType
  <2> HIDE DEF right
  <2>3. /\ h.span[right].live
        /\ h.span[s].start + h.span[s].num_pages \in PagesOf(h, right)
    BY <1>1, <2>2 DEF MapOK
  <2>4. /\ h.span[s].num_pages \in Nat /\ h.span[right].num_pages \in Nat
        /\ h.span[s].start \in Nat /\ h.span[right].start \in Nat
    BY <1>1, <2>2, SpanFields
  <2>5. /\ h.span[s].start >= 1 /\ h.span[s].num_pages >= 1
        /\ h.span[s].start + h.span[s].num_pages - 1 <= NumPages
        /\ h.span[right].num_pages <= MAX_PAGES
    BY <1>1, <2>1, <2>2, <2>3 DEF LengthsOK
  <2> DEFINE last == h.span[s].start + h.span[s].num_pages - 1
  <2>6. last \in Page /\ last \in PagesOf(h, s)
    BY <2>4, <2>5, PageHeapAssumption DEF Page, PagesOf
  <2>7. last \notin PagesOf(h, right)
    BY <1>1, <2>1, <2>2, <2>3, <2>6 DEF MapOK
  <2>8. h.span[s].start + h.span[s].num_pages = h.span[right].start
    BY <2>3, <2>4, <2>5, <2>7 DEF PagesOf
  <2>9. Grown(h, g, s, MAX_PAGES)
    BY <2>1, <2>2, <2>3, <2>4, <2>8, AbsorbGood
  <2>10. coalesce_right(h, s) = g
    BY <1>2 DEF coalesce_right, right
  <2> HIDE DEF g
  <2> QED
    BY <2>9, <2>10
<1>3. CASE ~mergeable(h, s, right)
  <2>1. coalesce_right(h, s) = h
    BY <1>3 DEF coalesce_right
  <2> QED
    BY <1>1, <2>1, ReshapedRefl, SpanFields, PageHeapAssumption DEF Grown
<1> QED
  BY <1>2, <1>3

(* coalesce keeps the heap good, and s is at most three times MAX_PAGES    *)
(* long afterwards.                                                        *)
LEMMA CoalesceGood ==
    ASSUME NEW h, NEW s \in Span, Good(h, {s}),
           h.span[s].live, h.span[s].is_free
    PROVE  Grown(h, coalesce(h, s), s, 2 * MAX_PAGES)
<1> DEFINE g == coalesce_left(h, s)
           k == coalesce_right(g, s)
<1>1. Grown(h, g, s, MAX_PAGES)
  BY CoalesceLeft
<1> HIDE DEF g
<1>2. Good(g, {s}) /\ g.span[s].live /\ g.span[s].is_free
  BY <1>1 DEF Grown, Reshaped
<1>3. Grown(g, k, s, MAX_PAGES)
  BY <1>2, CoalesceRight
<1>4. k = coalesce(h, s)
  BY DEF coalesce, g
<1> HIDE DEF k
<1>5. Reshaped(h, k, s)
  BY <1>1, <1>3, ReshapedTrans DEF Grown
<1>6. k.span[s].num_pages <= h.span[s].num_pages + 2 * MAX_PAGES
  BY <1>1, <1>3, SpanFields, PageHeapAssumption DEF Grown, Good
<1> QED
  BY <1>1, <1>3, <1>4, <1>5, <1>6 DEF Grown

-----------------------------------------------------------------------------
(* split and carve_front do the same to different parts of a span: s is    *)
(* cut down to ns pages from fs on, and a new free span o gets the others. *)
Divide(h, s, o, fs, ns, fo, no) ==
    LET h1 == new_extent(h, o, fo, no, 0, TRUE)
        h2 == set_extent(unregister_span(h1, s), s, fs, ns)
        h3 == register_span(register_span(h2, s), o)
    IN  insert(h3, o)

Divided(h, g, s, o, fs, ns, fo, no) ==
    /\ g \in HeapType
    /\ g.span[s].live = h.span[s].live
    /\ g.span[s].is_free = h.span[s].is_free
    /\ g.span[s].size = h.span[s].size
    /\ g.span[s].start = fs /\ g.span[s].num_pages = ns
    /\ g.span[o].live /\ g.span[o].is_free /\ g.span[o].size = 0
    /\ g.span[o].start = fo /\ g.span[o].num_pages = no
    /\ \A t \in Span \ {s, o} : g.span[t] = h.span[t]
    /\ \A p \in Page :
          g.page_map[p] = IF p \in fo .. fo + no - 1 THEN o
                          ELSE IF p \in fs .. fs + ns - 1 THEN s
                          ELSE IF p \in PagesOf(h, s) THEN NULL
                          ELSE h.page_map[p]
    /\ \A k \in 0 .. MAX_PAGES :
          g.free_lists[k] = IF k = no THEN h.free_lists[k] \cup {o}
                                      ELSE h.free_lists[k]

(* The record after s has been divided into s and o, component by          *)
(* component.                                                              *)
LEMMA DivideEffect ==
    ASSUME NEW h \in HeapType, NEW s \in Span, NEW o \in Span, s # o,
           NEW fs \in Nat, NEW ns \in Nat, NEW fo \in Nat, NEW no \in Nat,
           no <= MAX_PAGES
    PROVE  Divided(h, Divide(h, s, o, fs, ns, fo, no), s, o, fs, ns, fo, no)
<1> DEFINE r  == [live |-> TRUE, start |-> fo, num_pages |-> no,
                  size |-> 0, is_free |-> TRUE]
           h1 == set_span(h, o, r)
           h2 == unregister_span(h1, s)
           h3 == set_extent(h2, s, fs, ns)
           h4 == register_span(h3, s)
           h5 == register_span(h4, o)
           g  == insert(h5, o)
<1>1. r \in SpanRecord /\ r.live /\ r.start = fo /\ r.num_pages = no
      /\ r.size = 0 /\ r.is_free
  BY DEF SpanRecord
<1> HIDE DEF r
<1>2. /\ h1 \in HeapType /\ h1.span[o] = r
      /\ \A t \in Span \ {o} : h1.span[t] = h.span[t]
      /\ h1.page_map = h.page_map /\ h1.free_lists = h.free_lists
  BY <1>1, SetSpan
<1> HIDE DEF h1
<1>3. /\ h2 \in HeapType /\ h2.span = h1.span
      /\ h2.free_lists = h1.free_lists
      /\ \A p \in Page : h2.page_map[p] =
             IF p \in PagesOf(h1, s) THEN NULL ELSE h1.page_map[p]
  BY <1>2, UnregisterEffect
<1> HIDE DEF h2
<1>4. /\ h3 \in HeapType
      /\ h3.span[s].live = h2.span[s].live
      /\ h3.span[s].is_free = h2.span[s].is_free
      /\ h3.span[s].size = h2.span[s].size
      /\ h3.span[s].start = fs /\ h3.span[s].num_pages = ns
      /\ \A t \in Span \ {s} : h3.span[t] = h2.span[t]
      /\ h3.page_map = h2.page_map /\ h3.free_lists = h2.free_lists
  <2>1. h2 \in HeapType
    BY <1>3
  <2>2. ExtentSet(h2, h3, s, fs, ns)
    BY <2>1, SetExtent
  <2> HIDE DEF h3
  <2> QED
    BY <2>2 DEF ExtentSet
<1> HIDE DEF h3
<1>5. /\ h4 \in HeapType /\ h4.span = h3.span
      /\ h4.free_lists = h3.free_lists
      /\ \A p \in Page : h4.page_map[p] =
             IF p \in PagesOf(h3, s) THEN s ELSE h3.page_map[p]
  BY <1>4, RegisterEffect
<1> HIDE DEF h4
<1>6. /\ h5 \in HeapType /\ h5.span = h4.span
      /\ h5.free_lists = h4.free_lists
      /\ \A p \in Page : h5.page_map[p] =
             IF p \in PagesOf(h4, o) THEN o ELSE h4.page_map[p]
  BY <1>5, RegisterEffect
<1> HIDE DEF h5
<1>7. h5.span[o] = r /\ h5.span[o].num_pages <= MAX_PAGES
  BY <1>1, <1>2, <1>3, <1>4, <1>5, <1>6
<1>8. /\ g \in HeapType
      /\ g.span[o].live = h5.span[o].live
      /\ g.span[o].is_free = TRUE
      /\ g.span[o].size = h5.span[o].size
      /\ g.span[o].start = h5.span[o].start
      /\ g.span[o].num_pages = h5.span[o].num_pages
      /\ \A t \in Span \ {o} : g.span[t] = h5.span[t]
      /\ g.page_map = h5.page_map
      /\ \A k \in 0 .. MAX_PAGES : g.free_lists[k] =
             IF k = h5.span[o].num_pages
             THEN h5.free_lists[k] \cup {o} ELSE h5.free_lists[k]
  <2>1. h5 \in HeapType /\ h5.span[o].num_pages <= MAX_PAGES
    BY <1>6, <1>7
  <2> QED
    BY <2>1, InsertEffect
<1>9. g = Divide(h, s, o, fs, ns, fo, no)
  BY DEF Divide, new_extent, r, h1, h2, h3, h4, h5
<1> HIDE DEF g
<1>10. /\ PagesOf(h1, s) = PagesOf(h, s)
       /\ PagesOf(h3, s) = fs .. fs + ns - 1
       /\ PagesOf(h4, o) = fo .. fo + no - 1
  BY <1>1, <1>2, <1>3, <1>4, <1>5 DEF PagesOf
<1>11. \A p \in Page :
          g.page_map[p] = IF p \in fo .. fo + no - 1 THEN o
                          ELSE IF p \in fs .. fs + ns - 1 THEN s
                          ELSE IF p \in PagesOf(h, s) THEN NULL
                          ELSE h.page_map[p]
  BY <1>2, <1>3, <1>4, <1>5, <1>6, <1>8, <1>10
<1>12. /\ g.span[s].live = h.span[s].live
       /\ g.span[s].is_free = h.span[s].is_free
       /\ g.span[s].size = h.span[s].size
       /\ g.span[s].start = fs /\ g.span[s].num_pages = ns
       /\ \A t \in Span \ {s, o} : g.span[t] = h.span[t]
  BY <1>2, <1>3, <1>4, <1>5, <1>6, <1>8
<1>13. /\ g.span[o].live /\ g.span[o].is_free /\ g.span[o].size = 0
       /\ g.span[o].start = fo /\ g.span[o].num_pages = no
  BY <1>1, <1>7, <1>8
<1>14. \A k \in 0 .. MAX_PAGES :
          g.free_lists[k] = IF k = no THEN h.free_lists[k] \cup {o}
                                      ELSE h.free_lists[k]
  BY <1>1, <1>2, <1>3, <1>4, <1>5, <1>6, <1>7, <1>8
<1> QED
  BY <1>8, <1>9, <1>11, <1>12, <1>13, <1>14 DEF Divided

(* Cutting a span in two keeps the heap good, whether the span keeps its   *)
(* front (split) or its back (carve_front).                                *)
Cut(h, g, s, o, ns) ==
    /\ Good(g, {s})
    /\ Reshaped(h, g, s)
    /\ g.span[s].num_pages = ns
    /\ \A t \in Fresh(h) \ {o} : t \in Fresh(g)

(* Dividing a span in two keeps the heap good; o is on its free list and s *)
(* is still being worked on.                                               *)
LEMMA DivideGood ==
    ASSUME NEW h, NEW s \in Span, NEW o \in Span, s # o, Good(h, {s}),
           h.span[s].live, ~h.span[o].live,
           NEW fs \in Nat, NEW ns \in Nat, NEW fo \in Nat, NEW no \in Nat,
           no <= MAX_PAGES, no >= 1, ns >= 1,
           no + ns = h.span[s].num_pages,
           \/ fs = h.span[s].start /\ fo = fs + ns
           \/ fo = h.span[s].start /\ fs = fo + no
    PROVE  Cut(h, Divide(h, s, o, fs, ns, fo, no), s, o, ns)
<1> DEFINE g == Divide(h, s, o, fs, ns, fo, no)
<1>1. /\ h \in HeapType
      /\ LengthsOK(h, {s}) /\ MapOK(h) /\ ListsOK(h, {s}) /\ SizesOK(h)
  BY DEF Good
<1>2. Divided(h, g, s, o, fs, ns, fo, no)
  BY <1>1, DivideEffect
<1> HIDE DEF g
<1>3. /\ g \in HeapType
      /\ g.span[s].live = h.span[s].live
      /\ g.span[s].is_free = h.span[s].is_free
      /\ g.span[s].size = h.span[s].size
      /\ g.span[s].start = fs /\ g.span[s].num_pages = ns
      /\ g.span[o].live /\ g.span[o].is_free /\ g.span[o].size = 0
      /\ g.span[o].start = fo /\ g.span[o].num_pages = no
  BY <1>2 DEF Divided
<1>4. \A t \in Span \ {s, o} : g.span[t] = h.span[t]
  BY <1>2 DEF Divided
<1>5. /\ h.span[s].num_pages \in Nat /\ h.span[s].start \in Nat
      /\ h.span[s].start >= 1
      /\ h.span[s].start + h.span[s].num_pages - 1 <= NumPages
  BY <1>1, SpanFields DEF LengthsOK
<1>6. \A p \in Int :
         /\ p \in PagesOf(h, s) <=>
               p \in fo .. fo + no - 1 \/ p \in fs .. fs + ns - 1
         /\ ~(p \in fo .. fo + no - 1 /\ p \in fs .. fs + ns - 1)
  BY <1>5 DEF PagesOf
<1>7. /\ PagesOf(g, s) = fs .. fs + ns - 1
      /\ PagesOf(g, o) = fo .. fo + no - 1
      /\ \A t \in Span \ {s, o} : PagesOf(g, t) = PagesOf(h, t)
  BY <1>3, <1>4 DEF PagesOf
<1>8. \A p \in Page :
         g.page_map[p] = IF p \in PagesOf(g, o) THEN o
                         ELSE IF p \in PagesOf(g, s) THEN s
                         ELSE h.page_map[p]
  BY <1>2, <1>6, <1>7 DEF Divided, Page
<1>9. LengthsOK(g, {s})
  BY <1>1, <1>3, <1>4, <1>5, PageHeapAssumption DEF LengthsOK
<1>10. MapOK(g)
  <2> SUFFICES ASSUME NEW p \in Page, NEW t \in Span
               PROVE  g.page_map[p] = t <=> g.span[t].live /\ p \in PagesOf(g, t)
    BY DEF MapOK
  <2>0. p \in Int
    BY DEF Page
  <2>1. h.page_map[p] = t <=> h.span[t].live /\ p \in PagesOf(h, t)
    BY <1>1 DEF MapOK
  <2>2. h.page_map[p] = s <=> p \in PagesOf(h, s)
    BY <1>1 DEF MapOK
  <2>3. p \in PagesOf(h, s) <=> p \in PagesOf(g, o) \/ p \in PagesOf(g, s)
    BY <2>0, <1>6, <1>7
  <2>4. ~(p \in PagesOf(g, o) /\ p \in PagesOf(g, s))
    BY <2>0, <1>6, <1>7
  <2>5. CASE t = s
    BY <2>1, <2>3, <2>4, <2>5, <1>3, <1>8
  <2>6. CASE t = o
    BY <2>1, <2>2, <2>3, <2>6, <1>3, <1>8
  <2>7. CASE t \notin {s, o}
    <3>1. g.span[t] = h.span[t] /\ PagesOf(g, t) = PagesOf(h, t)
      BY <1>4, <1>7, <2>7
    <3> QED
      BY <2>1, <2>2, <2>3, <2>7, <3>1, <1>8
  <2> QED
    BY <2>5, <2>6, <2>7
<1>11. ListsOK(g, {s})
  <2> SUFFICES ASSUME NEW k \in 0 .. MAX_PAGES, NEW t \in Span
               PROVE  t \in g.free_lists[k] <=>
                         /\ g.span[t].live /\ g.span[t].is_free
                         /\ g.span[t].num_pages = k /\ t \notin {s}
    BY DEF ListsOK
  <2>1. t \in h.free_lists[k] <=>
            /\ h.span[t].live /\ h.span[t].is_free
            /\ h.span[t].num_pages = k /\ t \notin {s}
    BY <1>1 DEF ListsOK
  <2>2. g.free_lists[k] = IF k = no THEN h.free_lists[k] \cup {o}
                                    ELSE h.free_lists[k]
    BY <1>2 DEF Divided
  <2>3. CASE t = s
    BY <2>1, <2>2, <2>3
  <2>4. CASE t = o
    BY <2>1, <2>2, <2>4, <1>3
  <2>5. CASE t \notin {s, o}
    <3>1. g.span[t] = h.span[t]
      BY <1>4, <2>5
    <3> QED
      BY <2>1, <2>2, <2>5, <3>1
  <2> QED
    BY <2>3, <2>4, <2>5
<1>12. SizesOK(g)
  BY <1>1, <1>3, <1>4 DEF SizesOK
<1>13. SamePages(h, g)
  <2> SUFFICES ASSUME NEW p \in Page
               PROVE  g.page_map[p] = NULL <=> h.page_map[p] = NULL
    BY DEF SamePages
  <2>1. p \in Int
    BY DEF Page
  <2>2. p \in PagesOf(h, s) <=> p \in PagesOf(g, o) \/ p \in PagesOf(g, s)
    BY <2>1, <1>6, <1>7
  <2>3. p \in PagesOf(h, s) => h.page_map[p] = s
    BY <1>1 DEF MapOK
  <2> QED
    BY <2>2, <2>3, <1>8, PageHeapAssumption
<1>14. Reshaped(h, g, s)
  <2>1. \A t \in Span \ {s} : HeldIn(h, t) \/ HeldIn(g, t) => g.span[t] = h.span[t]
    BY <1>3, <1>4 DEF HeldIn
  <2> QED
    BY <1>3, <1>13, <2>1 DEF Reshaped
<1>15. \A t \in Fresh(h) \ {o} : t \in Fresh(g)
  BY <1>3, <1>4 DEF Fresh
<1>16. Good(g, {s})
  BY <1>3, <1>9, <1>10, <1>11, <1>12 DEF Good
<1> QED
  BY <1>3, <1>14, <1>15, <1>16 DEF Cut, g

(* `new Span` returns an address that is not in use.                       *)
LEMMA FreshNotIn ==
    ASSUME NEW h, Fresh(h) # {}
    PROVE  new_span(h) \in Fresh(h)
BY DEF new_span

(* One turn of the loop: s loses MAX_PAGES pages, or is short enough.      *)
LEMMA CarveStep ==
    ASSUME NEW h, NEW s \in Span, Good(h, {s}), h.span[s].live,
           Fresh(h) # {}
    PROVE  LET g == carve_step(h, s) IN
           /\ Good(g, {s})
           /\ Reshaped(h, g, s)
           /\ \/ /\ g.span[s].num_pages = h.span[s].num_pages - MAX_PAGES
                 /\ g.span[s].num_pages >= 1
              \/ g = h /\ h.span[s].num_pages <= MAX_PAGES
           /\ \A t \in Fresh(h) \ {new_span(h)} : t \in Fresh(g)
<1> DEFINE o == new_span(h)
           fs == h.span[s].start + MAX_PAGES
           ns == h.span[s].num_pages - MAX_PAGES
           g == Divide(h, s, o, fs, ns, h.span[s].start, MAX_PAGES)
<1>1. /\ h.span[s].start \in Nat /\ h.span[s].num_pages \in Nat
      /\ MAX_PAGES \in Nat /\ MAX_PAGES >= 1
  BY SpanFields, PageHeapAssumption DEF Good
<1>2. CASE h.span[s].num_pages > MAX_PAGES
  <2>1. o \in Span /\ ~h.span[o].live /\ o # s
    BY FreshNotIn DEF Fresh
  <2>2. carve_step(h, s) = g
    BY <1>2 DEF carve_step, carve_front, Divide
  <2> HIDE DEF o
  <2>3. fs \in Nat /\ ns \in Nat /\ ns >= 1 /\ MAX_PAGES + ns = h.span[s].num_pages
        /\ fs = h.span[s].start + MAX_PAGES
    BY <1>1, <1>2
  <2> HIDE DEF fs, ns
  <2>4. Cut(h, g, s, o, ns)
    BY <1>1, <2>1, <2>3, DivideGood
  <2> HIDE DEF g
  <2>5. /\ Good(g, {s}) /\ Reshaped(h, g, s) /\ g.span[s].num_pages = ns
        /\ \A t \in Fresh(h) \ {o} : t \in Fresh(g)
    BY <2>4 DEF Cut
  <2> QED
    BY <2>2, <2>3, <2>5 DEF o, ns
<1>3. CASE ~(h.span[s].num_pages > MAX_PAGES)
  <2>1. carve_step(h, s) = h /\ h.span[s].num_pages <= MAX_PAGES
    BY <1>1, <1>3 DEF carve_step
  <2> QED
    BY <2>1, ReshapedRefl
<1> QED
  BY <1>2, <1>3

(* Two turns are enough for three spans of at most MAX_PAGES pages.        *)
LEMMA CarveGood ==
    ASSUME NEW h, NEW s \in Span, Good(h, {s}), h.span[s].live,
           h.span[s].num_pages <= 3 * MAX_PAGES, HasFresh(h)
    PROVE  LET g == carve(h, s) IN
           /\ Good(g, {s})
           /\ Reshaped(h, g, s)
           /\ g.span[s].num_pages <= MAX_PAGES
<1> DEFINE g == carve_step(h, s)
           k == carve_step(g, s)
<1>1. PICK a \in Fresh(h), b \in Fresh(h) : a # b
  BY DEF HasFresh
<1>2. /\ Good(g, {s}) /\ Reshaped(h, g, s)
      /\ \/ /\ g.span[s].num_pages = h.span[s].num_pages - MAX_PAGES
            /\ g.span[s].num_pages >= 1
         \/ g = h /\ h.span[s].num_pages <= MAX_PAGES
      /\ \A t \in Fresh(h) \ {new_span(h)} : t \in Fresh(g)
  BY <1>1, CarveStep
<1> HIDE DEF g
<1>3. Fresh(g) # {} /\ g.span[s].live
  BY <1>1, <1>2 DEF Reshaped
<1>4. /\ Good(k, {s}) /\ Reshaped(g, k, s)
      /\ \/ /\ k.span[s].num_pages = g.span[s].num_pages - MAX_PAGES
            /\ k.span[s].num_pages >= 1
         \/ k = g /\ g.span[s].num_pages <= MAX_PAGES
  BY <1>2, <1>3, CarveStep
<1>5. k = carve(h, s)
  BY DEF carve, g
<1> HIDE DEF k
<1>6. Reshaped(h, k, s)
  BY <1>2, <1>4, ReshapedTrans
<1>7. k.span[s].num_pages <= MAX_PAGES
  <2>1. /\ h.span[s].num_pages \in Nat /\ g.span[s].num_pages \in Nat
        /\ k.span[s].num_pages \in Nat /\ MAX_PAGES \in Nat
    BY <1>2, <1>4, SpanFields, PageHeapAssumption DEF Good
  <2> QED
    BY <1>2, <1>4, <2>1
<1> QED
  BY <1>4, <1>5, <1>6, <1>7

UseSet(h, g, s, f, z) ==
    /\ g \in HeapType
    /\ g.span[s].live = h.span[s].live
    /\ g.span[s].is_free = f
    /\ g.span[s].size = z
    /\ g.span[s].start = h.span[s].start
    /\ g.span[s].num_pages = h.span[s].num_pages
    /\ \A t \in Span \ {s} : g.span[t] = h.span[t]
    /\ g.page_map = h.page_map
    /\ g.free_lists = h.free_lists

(* Assigning is_free and size of s.                                        *)
LEMMA SetUse ==
    ASSUME NEW h \in HeapType, NEW s \in Span, NEW f \in BOOLEAN, NEW z \in Nat
    PROVE  UseSet(h, set_use(h, s, f, z), s, f, z)
<1> DEFINE r == [h.span[s] EXCEPT !.is_free = f, !.size = z]
<1>1. /\ r \in SpanRecord
      /\ r.live = h.span[s].live /\ r.is_free = f /\ r.size = z
      /\ r.start = h.span[s].start /\ r.num_pages = h.span[s].num_pages
  BY SpanFields DEF SpanRecord
<1>2. set_use(h, s, f, z) = set_span(h, s, r)
  BY DEF set_use
<1> HIDE DEF r
<1> QED
  BY <1>1, <1>2, SetSpan DEF UseSet

(* A heap that differs in the use of s only, seen from outside s.          *)
Reused(h, g, s) ==
    /\ \A t \in Span \ {s} : HeldIn(h, t) \/ HeldIn(g, t) => g.span[t] = h.span[t]
    /\ SamePages(h, g)

(* Putting the span on its free list ends the work on it.                  *)
LEMMA InsertGood ==
    ASSUME NEW h, NEW s \in Span, Good(h, {s}), h.span[s].live,
           h.span[s].is_free, h.span[s].num_pages <= MAX_PAGES
    PROVE  LET g == insert(h, s) IN
           /\ Good(g, {}) /\ Reshaped(h, g, s)
<1> DEFINE g == insert(h, s)
<1>1. /\ h \in HeapType
      /\ LengthsOK(h, {s}) /\ MapOK(h) /\ ListsOK(h, {s}) /\ SizesOK(h)
  BY DEF Good
<1>2. /\ g \in HeapType
      /\ g.span[s].live = h.span[s].live
      /\ g.span[s].is_free = TRUE
      /\ g.span[s].size = h.span[s].size
      /\ g.span[s].start = h.span[s].start
      /\ g.span[s].num_pages = h.span[s].num_pages
      /\ \A t \in Span \ {s} : g.span[t] = h.span[t]
      /\ g.page_map = h.page_map
      /\ \A k \in 0 .. MAX_PAGES : g.free_lists[k] =
             IF k = h.span[s].num_pages
             THEN h.free_lists[k] \cup {s} ELSE h.free_lists[k]
  BY <1>1, InsertEffect
<1> HIDE DEF g
<1>3. \A t \in Span : PagesOf(g, t) = PagesOf(h, t)
  BY <1>2 DEF PagesOf
<1>4. \A t \in Span : g.span[t].live = h.span[t].live
  BY <1>2
<1>5. LengthsOK(g, {})
  BY <1>1, <1>2 DEF LengthsOK
<1>6. MapOK(g)
  BY <1>1, <1>2, <1>3, <1>4 DEF MapOK
<1>7. ListsOK(g, {})
  <2> SUFFICES ASSUME NEW k \in 0 .. MAX_PAGES, NEW t \in Span
               PROVE  t \in g.free_lists[k] <=>
                         /\ g.span[t].live /\ g.span[t].is_free
                         /\ g.span[t].num_pages = k
    BY DEF ListsOK
  <2>1. t \in h.free_lists[k] <=>
            /\ h.span[t].live /\ h.span[t].is_free
            /\ h.span[t].num_pages = k /\ t \notin {s}
    BY <1>1 DEF ListsOK
  <2>2. g.free_lists[k] = IF k = h.span[s].num_pages
                          THEN h.free_lists[k] \cup {s} ELSE h.free_lists[k]
    BY <1>2
  <2>3. CASE t = s
    BY <2>1, <2>2, <2>3, <1>2
  <2>4. CASE t # s
    <3>1. g.span[t] = h.span[t]
      BY <1>2, <2>4
    <3> QED
      BY <2>1, <2>2, <2>4, <3>1
  <2> QED
    BY <2>3, <2>4
<1>8. SizesOK(g)
  BY <1>1, <1>2 DEF SizesOK
<1>9. Reshaped(h, g, s)
  BY <1>2 DEF Reshaped, SamePages, HeldIn
<1> QED
  BY <1>2, <1>5, <1>6, <1>7, <1>8, <1>9 DEF Good, g

(* return_span as a whole leads from a good heap to a good heap.           *)
LEMMA ReturnedGood ==
    ASSUME NEW h, NEW s \in Span, Good(h, {}), HeldIn(h, s), HasFresh(h)
    PROVE  LET g == returned(h, s) IN
           /\ Good(g, {}) /\ Reused(h, g, s)
           /\ g.span[s].live /\ g.span[s].is_free
<1> DEFINE h1 == set_use(h, s, TRUE, 0)
           h2 == coalesce(h1, s)
           h3 == carve(h2, s)
           g  == insert(h3, s)
<1>1. /\ h \in HeapType /\ h.span[s].live /\ ~h.span[s].is_free
      /\ LengthsOK(h, {}) /\ MapOK(h) /\ ListsOK(h, {}) /\ SizesOK(h)
  BY DEF Good, HeldIn
<1>2. /\ h1 \in HeapType
      /\ h1.span[s].live = h.span[s].live
      /\ h1.span[s].is_free = TRUE
      /\ h1.span[s].size = 0
      /\ h1.span[s].start = h.span[s].start
      /\ h1.span[s].num_pages = h.span[s].num_pages
      /\ \A t \in Span \ {s} : h1.span[t] = h.span[t]
      /\ h1.page_map = h.page_map
      /\ h1.free_lists = h.free_lists
  <2>1. h \in HeapType /\ 0 \in Nat
    BY <1>1
  <2>2. UseSet(h, h1, s, TRUE, 0)
    BY <2>1, SetUse
  <2> HIDE DEF h1
  <2> QED
    BY <2>2 DEF UseSet
<1> HIDE DEF h1
<1>3. Good(h1, {s})
  <2>1. LengthsOK(h1, {s})
    BY <1>1, <1>2 DEF LengthsOK
  <2>2. \A t \in Span : /\ PagesOf(h1, t) = PagesOf(h, t)
                        /\ h1.span[t].live = h.span[t].live
    BY <1>2 DEF PagesOf
  <2>3. MapOK(h1)
    BY <1>1, <1>2, <2>2 DEF MapOK
  <2>4. ListsOK(h1, {s})
    BY <1>1, <1>2 DEF ListsOK
  <2>5. SizesOK(h1)
    BY <1>1, <1>2 DEF SizesOK
  <2> QED
    BY <1>2, <2>1, <2>3, <2>4, <2>5 DEF Good
<1>4. Grown(h1, h2, s, 2 * MAX_PAGES)
  BY <1>1, <1>2, <1>3, CoalesceGood
<1> HIDE DEF h2
<1>5. Good(h2, {s}) /\ Reshaped(h1, h2, s)
  BY <1>4 DEF Grown
<1>6. h2.span[s].live /\ h2.span[s].is_free
  BY <1>1, <1>2, <1>5 DEF Reshaped
<1>7. h2.span[s].num_pages <= 3 * MAX_PAGES
  <2>1. h.span[s].num_pages <= MAX_PAGES
    BY <1>1 DEF LengthsOK
  <2>2. /\ h.span[s].num_pages \in Nat /\ h2.span[s].num_pages \in Nat
        /\ MAX_PAGES \in Nat
    BY <1>1, <1>5, SpanFields, PageHeapAssumption DEF Good
  <2>3. h2.span[s].num_pages <= h.span[s].num_pages + 2 * MAX_PAGES
    BY <1>2, <1>4 DEF Grown
  <2> QED
    BY <2>1, <2>2, <2>3
<1>8. HasFresh(h2)
  <2>1. PICK a \in Fresh(h), b \in Fresh(h) : a # b
    BY DEF HasFresh
  <2>2. a \in Fresh(h1) /\ b \in Fresh(h1)
    BY <1>1, <1>2 DEF Fresh
  <2> QED
    BY <1>4, <2>1, <2>2 DEF Grown, HasFresh
<1>9. /\ Good(h3, {s}) /\ Reshaped(h2, h3, s)
      /\ h3.span[s].num_pages <= MAX_PAGES
  BY <1>5, <1>6, <1>7, <1>8, CarveGood
<1> HIDE DEF h3
<1>10. h3.span[s].live /\ h3.span[s].is_free
  BY <1>6, <1>9 DEF Reshaped
<1>11. Good(g, {}) /\ Reshaped(h3, g, s)
  BY <1>9, <1>10, InsertGood
<1>12. g = returned(h, s)
  BY DEF returned, h1, h2, h3
<1> HIDE DEF g
<1>13. Reshaped(h1, h3, s)
  BY <1>5, <1>9, ReshapedTrans
<1>14. Reshaped(h1, g, s)
  BY <1>11, <1>13, ReshapedTrans
<1>15. Reused(h, g, s)
  <2>1. SamePages(h, g)
    BY <1>2, <1>14 DEF Reshaped, SamePages
  <2>2. \A t \in Span \ {s} : HeldIn(h, t) \/ HeldIn(g, t) => g.span[t] = h.span[t]
    BY <1>2, <1>14 DEF Reshaped, HeldIn
  <2> QED
    BY <2>1, <2>2 DEF Reused
<1>16. g.span[s].live /\ g.span[s].is_free
  BY <1>10, <1>11 DEF Reshaped
<1> QED
  BY <1>11, <1>12, <1>15, <1>16

-----------------------------------------------------------------------------
(* The inductive invariant: a good heap with no span in the middle of an   *)
(* operation, and the OS's view of the pages.                              *)
Accounted ==
    /\ mapped \subseteq Page
    /\ abandoned \subseteq mapped
    /\ \A p \in mapped : page_map[p] = NULL <=> p \in abandoned
    /\ \A p \in Page \ mapped : page_map[p] = NULL

IInv == Good(Heap, {}) /\ Accounted

(* The components of the record Heap are the variables.                    *)
LEMMA HeapFields ==
    /\ Heap.span = span
    /\ Heap.page_map = page_map
    /\ Heap.free_lists = free_lists
BY DEF Heap

(* After BecomesHeap(g) the state is g.                                    *)
LEMMA NextHeap ==
    ASSUME NEW g \in HeapType, BecomesHeap(g)
    PROVE  Heap' = g
<1>1. Heap' = [span |-> g.span, page_map |-> g.page_map,
               free_lists |-> g.free_lists]
  BY DEF Heap, BecomesHeap
<1>2. g = [span |-> g.span, page_map |-> g.page_map,
           free_lists |-> g.free_lists]
  BY DEF HeapType
<1> QED
  BY <1>1, <1>2

(* An operation that keeps the pages and the OS state keeps the accounts.  *)
LEMMA AccountsKept ==
    ASSUME Accounted, NEW g \in HeapType, BecomesHeap(g),
           SamePages(Heap, g), UNCHANGED <<mapped, abandoned>>
    PROVE  Accounted'
<1>1. page_map' = g.page_map
  BY DEF BecomesHeap
<1>2. \A p \in Page : page_map'[p] = NULL <=> page_map[p] = NULL
  BY <1>1, HeapFields DEF SamePages
<1> QED
  BY <1>2 DEF Accounted, Page

(* The invariant holds when the page heap is constructed.                  *)
LEMMA InitIInv == Init => IInv
<1> SUFFICES ASSUME Init PROVE IInv
  OBVIOUS
<1>1. Heap \in HeapType
  BY PageHeapAssumption DEF Init, Heap, HeapType, SpanRecord, Deleted
<1>2. /\ span = [s \in Span |-> Deleted] /\ page_map = [p \in Page |-> NULL]
      /\ free_lists = [n \in 0 .. MAX_PAGES |-> {}]
      /\ mapped = {} /\ abandoned = {}
  BY DEF Init
<1>3. \A s \in Span : ~Heap.span[s].live
  <2>1. Deleted.live = FALSE
    BY DEF Deleted
  <2>2. \A s \in Span : Heap.span[s] = Deleted
    BY <1>2, HeapFields
  <2> QED
    BY <2>1, <2>2
<1>4. LengthsOK(Heap, {}) /\ SizesOK(Heap)
  BY <1>3 DEF LengthsOK, SizesOK
<1>5. MapOK(Heap)
  BY <1>2, <1>3, HeapFields, PageHeapAssumption DEF MapOK
<1>6. ListsOK(Heap, {})
  BY <1>2, <1>3, HeapFields DEF ListsOK
<1>7. Accounted
  BY <1>2 DEF Accounted
<1> QED
  BY <1>1, <1>4, <1>5, <1>6, <1>7 DEF Good, IInv

(* return_span preserves the invariant.                                    *)
LEMMA ReturnStep ==
    ASSUME IInv, NEW s \in Span, return_span(s)
    PROVE  IInv' /\ Heap' = returned(Heap, s)
<1> DEFINE g == returned(Heap, s)
<1>1. /\ Good(Heap, {}) /\ HeldIn(Heap, s) /\ HasFresh(Heap)
      /\ BecomesHeap(g) /\ UNCHANGED <<mapped, abandoned>>
  BY HeapFields DEF return_span, IInv, HeldIn
<1>2. Good(g, {}) /\ Reused(Heap, g, s)
  BY <1>1, ReturnedGood
<1> HIDE DEF g
<1>3. g \in HeapType /\ SamePages(Heap, g)
  BY <1>2 DEF Good, Reused
<1>4. Heap' = g
  BY <1>1, <1>3, NextHeap
<1>5. Accounted'
  BY <1>1, <1>3, AccountsKept DEF IInv
<1>6. Good(Heap, {})'
  BY <1>2, <1>4
<1> QED
  BY <1>4, <1>5, <1>6 DEF IInv, g

(* A span that is not free is on no list, in the middle of an operation    *)
(* or not.                                                                 *)
LEMMA NotFreeGood ==
    ASSUME NEW h, NEW s \in Span, ~h.span[s].is_free,
           h.span[s].num_pages <= MAX_PAGES
    PROVE  Good(h, {s}) <=> Good(h, {})
<1>1. LengthsOK(h, {s}) <=> LengthsOK(h, {})
  BY DEF LengthsOK
<1>2. ListsOK(h, {s}) <=> ListsOK(h, {})
  BY DEF ListsOK
<1> QED
  BY <1>1, <1>2 DEF Good

(* The span taken off its free list is marked as used.                     *)
Taken(h, s, size) == set_use(remove_from_free_list(h, s), s, FALSE, size)

(* Taking a free span off its list keeps the heap good.                    *)
LEMMA TakenGood ==
    ASSUME NEW h, NEW s \in Span, NEW size \in Nat, Good(h, {}),
           h.span[s].live, h.span[s].is_free
    PROVE  LET g == Taken(h, s, size) IN
           /\ Good(g, {}) /\ Reused(h, g, s)
           /\ HeldIn(g, s)
           /\ g.span[s].start = h.span[s].start
           /\ g.span[s].num_pages = h.span[s].num_pages
           /\ g.span[s].size = size
           /\ Fresh(g) = Fresh(h)
<1> DEFINE h1 == remove_from_free_list(h, s)
           g  == set_use(h1, s, FALSE, size)
<1>1. /\ h \in HeapType
      /\ LengthsOK(h, {}) /\ MapOK(h) /\ ListsOK(h, {}) /\ SizesOK(h)
  BY DEF Good
<1>2. h.span[s].num_pages <= MAX_PAGES
  BY <1>1 DEF LengthsOK
<1>3. /\ h1 \in HeapType
      /\ h1.span[s].live = h.span[s].live
      /\ h1.span[s].start = h.span[s].start
      /\ h1.span[s].num_pages = h.span[s].num_pages
      /\ \A t \in Span \ {s} : h1.span[t] = h.span[t]
      /\ h1.page_map = h.page_map
      /\ \A k \in 0 .. MAX_PAGES : h1.free_lists[k] =
             IF k = h.span[s].num_pages
             THEN h.free_lists[k] \ {s} ELSE h.free_lists[k]
  BY <1>1, <1>2, RemoveEffect
<1> HIDE DEF h1
<1>4. UseSet(h1, g, s, FALSE, size)
  BY <1>3, SetUse
<1>5. g = Taken(h, s, size)
  BY DEF Taken, h1
<1> HIDE DEF g
<1>6. /\ g \in HeapType
      /\ g.span[s].live /\ ~g.span[s].is_free
      /\ g.span[s].start = h.span[s].start
      /\ g.span[s].num_pages = h.span[s].num_pages
      /\ g.span[s].size = size
      /\ g.page_map = h.page_map
  BY <1>3, <1>4 DEF UseSet
<1>7. \A t \in Span \ {s} : g.span[t] = h.span[t]
  BY <1>3, <1>4 DEF UseSet
<1>8. \A k \in 0 .. MAX_PAGES : g.free_lists[k] =
             IF k = h.span[s].num_pages
             THEN h.free_lists[k] \ {s} ELSE h.free_lists[k]
  BY <1>3, <1>4 DEF UseSet
<1>9. \A t \in Span : PagesOf(g, t) = PagesOf(h, t)
  BY <1>6, <1>7 DEF PagesOf
<1>10. \A t \in Span : g.span[t].live = h.span[t].live
  <2> SUFFICES ASSUME NEW t \in Span PROVE g.span[t].live = h.span[t].live
    OBVIOUS
  <2>1. CASE t = s
    BY <1>3, <1>4, <2>1 DEF UseSet
  <2>2. CASE t # s
    BY <1>7, <2>2
  <2> QED
    BY <2>1, <2>2
<1>11. LengthsOK(g, {})
  BY <1>1, <1>6, <1>7 DEF LengthsOK
<1>12. MapOK(g)
  BY <1>1, <1>6, <1>9, <1>10 DEF MapOK
<1>13. ListsOK(g, {})
  <2> SUFFICES ASSUME NEW k \in 0 .. MAX_PAGES, NEW t \in Span
               PROVE  t \in g.free_lists[k] <=>
                         /\ g.span[t].live /\ g.span[t].is_free
                         /\ g.span[t].num_pages = k
    BY DEF ListsOK
  <2>1. t \in h.free_lists[k] <=>
            /\ h.span[t].live /\ h.span[t].is_free
            /\ h.span[t].num_pages = k
    BY <1>1 DEF ListsOK
  <2>2. CASE t = s
    BY <2>1, <2>2, <1>6, <1>8
  <2>3. CASE t # s
    <3>1. g.span[t] = h.span[t]
      BY <1>7, <2>3
    <3> QED
      BY <2>1, <2>3, <3>1, <1>8
  <2> QED
    BY <2>2, <2>3
<1>14. SizesOK(g)
  BY <1>1, <1>6, <1>7 DEF SizesOK
<1>15. Good(g, {})
  BY <1>6, <1>11, <1>12, <1>13, <1>14 DEF Good
<1>16. Reused(h, g, s)
  BY <1>6, <1>7 DEF Reused, SamePages
<1>17. Fresh(g) = Fresh(h)
  BY <1>10 DEF Fresh
<1> QED
  BY <1>5, <1>6, <1>15, <1>16, <1>17 DEF HeldIn

(* A span longer than asked for is split.                                  *)
Given(h, s, n) == IF h.span[s].num_pages > n THEN split(h, s, n) ELSE h

(* Splitting off what was not asked for keeps the heap good.               *)
LEMMA GivenGood ==
    ASSUME NEW h, NEW s \in Span, NEW n \in 1 .. MAX_PAGES, Good(h, {}),
           HeldIn(h, s), h.span[s].num_pages >= n, Fresh(h) # {}
    PROVE  LET g == Given(h, s, n) IN
           /\ Good(g, {}) /\ Reused(h, g, s)
           /\ HeldIn(g, s) /\ g.span[s].num_pages = n
           /\ g.span[s].size = h.span[s].size
<1>1. /\ h \in HeapType /\ h.span[s].live /\ ~h.span[s].is_free
      /\ LengthsOK(h, {})
  BY DEF Good, HeldIn
<1>2. /\ h.span[s].num_pages <= MAX_PAGES
      /\ h.span[s].num_pages \in Nat /\ h.span[s].start \in Nat
      /\ MAX_PAGES \in Nat /\ n \in Nat /\ n >= 1 /\ n <= MAX_PAGES
  BY <1>1, SpanFields, PageHeapAssumption DEF LengthsOK
<1>3. CASE h.span[s].num_pages > n
  <2> DEFINE o == new_span(h)
             fo == h.span[s].start + n
             no == h.span[s].num_pages - n
             g == Divide(h, s, o, h.span[s].start, n, fo, no)
  <2>1. o \in Span /\ ~h.span[o].live /\ o # s
    BY <1>1, FreshNotIn DEF Fresh
  <2>2. Given(h, s, n) = g
    BY <1>3 DEF Given, split, Divide
  <2> HIDE DEF o
  <2>3. /\ fo \in Nat /\ no \in Nat /\ no >= 1 /\ no <= MAX_PAGES
        /\ no + n = h.span[s].num_pages
        /\ fo = h.span[s].start + n
    BY <1>2, <1>3
  <2> HIDE DEF fo, no
  <2>4. Good(h, {s})
    BY <1>1, <1>2, NotFreeGood
  <2>5. Cut(h, g, s, o, n)
    BY <1>1, <1>2, <2>1, <2>3, <2>4, DivideGood
  <2> HIDE DEF g
  <2>6. /\ Good(g, {s}) /\ Reshaped(h, g, s) /\ g.span[s].num_pages = n
    BY <2>5 DEF Cut
  <2>7. HeldIn(g, s) /\ ~g.span[s].is_free
    BY <1>1, <2>6 DEF HeldIn, Reshaped
  <2>8. Good(g, {})
    BY <1>2, <2>6, <2>7, NotFreeGood
  <2>9. Reused(h, g, s) /\ g.span[s].size = h.span[s].size
    BY <2>6 DEF Reused, Reshaped
  <2> QED
    BY <2>2, <2>6, <2>7, <2>8, <2>9
<1>4. CASE ~(h.span[s].num_pages > n)
  <2>1. Given(h, s, n) = h
    BY <1>4 DEF Given
  <2>2. h.span[s].num_pages = n
    BY <1>2, <1>4
  <2> QED
    BY <2>1, <2>2 DEF Reused, SamePages
<1> QED
  BY <1>3, <1>4

(* Span s is what allocate_span(n, size) promises.                         *)
ForRequest(h, s, n, size) == h.span[s].num_pages = n /\ h.span[s].size = size

(* allocate_span preserves the invariant when it reuses a free span.       *)
LEMMA ReuseStep ==
    ASSUME IInv, NEW n, NEW size \in Sizes, NEW ret,
           allocate_span_reuse(n, size, ret)
    PROVE  /\ IInv' /\ ret \in Span
           /\ Reused(Heap, Heap', ret)
           /\ ~HeldIn(Heap, ret)
           /\ HeldIn(Heap', ret) /\ ForRequest(Heap', ret, n, size)
<1> DEFINE h == Taken(Heap, ret, size)
           g == Given(h, ret, n)
<1>1. /\ n \in 1 .. MAX_PAGES /\ HasFresh(Heap) /\ best_span(n, size, ret)
      /\ UNCHANGED <<mapped, abandoned>>
      /\ BecomesHeap(g)
  BY DEF allocate_span_reuse, Given, Taken
<1>2. Good(Heap, {}) /\ ListsOK(Heap, {}) /\ Heap \in HeapType /\ Accounted
  BY DEF IInv, Good
<1>3. PICK i \in n .. MAX_PAGES : ret \in free_lists[i]
  BY <1>1 DEF best_span, suitable_lists
<1>4. i \in 0 .. MAX_PAGES
  BY <1>1, PageHeapAssumption
<1>5. ret \in Span
  BY <1>2, <1>3, <1>4, HeapFields DEF HeapType
<1>6. /\ Heap.span[ret].live /\ Heap.span[ret].is_free
      /\ Heap.span[ret].num_pages = i
  BY <1>2, <1>3, <1>4, <1>5, HeapFields DEF ListsOK
<1>7. size \in Nat
  BY PageHeapAssumption
<1>8. /\ Good(h, {}) /\ Reused(Heap, h, ret) /\ HeldIn(h, ret)
      /\ h.span[ret].num_pages = Heap.span[ret].num_pages
      /\ h.span[ret].size = size /\ Fresh(h) = Fresh(Heap)
  BY <1>2, <1>5, <1>6, <1>7, TakenGood
<1> HIDE DEF h
<1>9. Fresh(h) # {}
  BY <1>1, <1>8 DEF HasFresh
<1>10. h.span[ret].num_pages >= n
  BY <1>1, <1>3, <1>6, <1>8
<1>11. /\ Good(g, {}) /\ Reused(h, g, ret)
       /\ HeldIn(g, ret) /\ g.span[ret].num_pages = n
       /\ g.span[ret].size = size
  BY <1>1, <1>5, <1>8, <1>9, <1>10, GivenGood
<1> HIDE DEF g
<1>12. Reused(Heap, g, ret)
  BY <1>8, <1>11 DEF Reused, SamePages, HeldIn
<1>13. g \in HeapType /\ SamePages(Heap, g)
  BY <1>11, <1>12 DEF Good, Reused
<1>14. Heap' = g
  BY <1>1, <1>13, NextHeap
<1>15. Accounted'
  BY <1>1, <1>2, <1>13, AccountsKept
<1>16. Good(Heap, {})'
  BY <1>11, <1>14
<1>17. ~HeldIn(Heap, ret)
  BY <1>6 DEF HeldIn
<1> QED
  BY <1>5, <1>11, <1>12, <1>14, <1>15, <1>16, <1>17 DEF IInv, ForRequest

(* A span made of pages that nobody owned.                                 *)
Mapped(h, s, first, n, size) ==
    register_span(new_extent(h, s, first, n, size, FALSE), s)

(* A new span over pages that no span owns keeps the heap good.            *)
LEMMA MappedGood ==
    ASSUME NEW h, NEW s \in Span, NEW first \in Page, NEW n \in 1 .. MAX_PAGES,
           NEW size \in Nat, Good(h, {}), ~h.span[s].live,
           first + n - 1 \in Page,
           \A p \in first .. first + n - 1 : h.page_map[p] = NULL
    PROVE  LET g == Mapped(h, s, first, n, size) IN
           /\ Good(g, {})
           /\ HeldIn(g, s)
           /\ g.span[s].start = first /\ g.span[s].num_pages = n
           /\ g.span[s].size = size
           /\ \A t \in Span \ {s} : g.span[t] = h.span[t]
           /\ \A p \in Page : g.page_map[p] =
                 IF p \in first .. first + n - 1 THEN s ELSE h.page_map[p]
<1> DEFINE r == [live |-> TRUE, start |-> first, num_pages |-> n,
                 size |-> size, is_free |-> FALSE]
           h1 == set_span(h, s, r)
           g == register_span(h1, s)
<1>1. /\ h \in HeapType
      /\ LengthsOK(h, {}) /\ MapOK(h) /\ ListsOK(h, {}) /\ SizesOK(h)
  BY DEF Good
<1>2. /\ first \in Nat /\ n \in Nat /\ first >= 1 /\ n >= 1 /\ n <= MAX_PAGES
      /\ first + n - 1 <= NumPages
  BY PageHeapAssumption DEF Page
<1>3. /\ r \in SpanRecord /\ r.live /\ r.start = first /\ r.num_pages = n
      /\ ~r.is_free /\ r.size = size
  BY <1>2 DEF SpanRecord
<1> HIDE DEF r
<1>4. /\ h1 \in HeapType /\ h1.span[s] = r
      /\ \A t \in Span \ {s} : h1.span[t] = h.span[t]
      /\ h1.page_map = h.page_map /\ h1.free_lists = h.free_lists
  BY <1>1, <1>3, SetSpan
<1> HIDE DEF h1
<1>5. /\ g \in HeapType /\ g.span = h1.span
      /\ g.free_lists = h1.free_lists
      /\ \A p \in Page : g.page_map[p] =
             IF p \in PagesOf(h1, s) THEN s ELSE h1.page_map[p]
  BY <1>4, RegisterEffect
<1>6. g = Mapped(h, s, first, n, size)
  BY DEF Mapped, new_extent, r, h1
<1> HIDE DEF g
<1>7. g.span[s] = r /\ \A t \in Span \ {s} : g.span[t] = h.span[t]
  BY <1>4, <1>5
<1>8. /\ PagesOf(h1, s) = first .. first + n - 1
      /\ PagesOf(g, s) = first .. first + n - 1
      /\ \A t \in Span \ {s} : PagesOf(g, t) = PagesOf(h, t)
  BY <1>3, <1>4, <1>7 DEF PagesOf
<1>9. \A p \in Page : g.page_map[p] =
          IF p \in first .. first + n - 1 THEN s ELSE h.page_map[p]
  BY <1>4, <1>5, <1>8
<1>10. LengthsOK(g, {})
  BY <1>1, <1>2, <1>3, <1>7 DEF LengthsOK
<1>11. MapOK(g)
  <2> SUFFICES ASSUME NEW p \in Page, NEW t \in Span
               PROVE  g.page_map[p] = t <=> g.span[t].live /\ p \in PagesOf(g, t)
    BY DEF MapOK
  <2>1. h.page_map[p] = t <=> h.span[t].live /\ p \in PagesOf(h, t)
    BY <1>1 DEF MapOK
  <2>2. p \in first .. first + n - 1 => h.page_map[p] = NULL
    OBVIOUS
  <2>3. CASE t = s
    BY <2>1, <2>3, <1>3, <1>7, <1>8, <1>9
  <2>4. CASE t # s
    BY <2>1, <2>2, <2>4, <1>7, <1>8, <1>9, PageHeapAssumption
  <2> QED
    BY <2>3, <2>4
<1>12. ListsOK(g, {})
  BY <1>1, <1>3, <1>4, <1>5, <1>7 DEF ListsOK
<1>13. SizesOK(g)
  BY <1>1, <1>3, <1>7 DEF SizesOK
<1>14. Good(g, {})
  BY <1>5, <1>10, <1>11, <1>12, <1>13 DEF Good
<1>15. /\ HeldIn(g, s) /\ g.span[s].start = first /\ g.span[s].num_pages = n
       /\ g.span[s].size = size
  BY <1>3, <1>7 DEF HeldIn
<1> QED
  BY <1>6, <1>7, <1>9, <1>14, <1>15

(* allocate_span preserves the invariant when it maps new pages.           *)
LEMMA MmapStep ==
    ASSUME IInv, NEW n, NEW size \in Sizes, NEW ret,
           allocate_span_mmap(n, size, ret)
    PROVE  /\ IInv' /\ ret \in Span
           /\ \A t \in Span \ {ret} : Heap'.span[t] = Heap.span[t]
           /\ ~Heap.span[ret].live
           /\ HeldIn(Heap', ret) /\ ForRequest(Heap', ret, n, size)
           /\ mapped \cap PagesOf(Heap', ret) = {}
           /\ mapped' = mapped \cup PagesOf(Heap', ret)
<1>1. PICK first \in Page :
          /\ first .. first + n - 1 \subseteq Page \ mapped
          /\ mapped' = mapped \cup first .. first + n - 1
          /\ BecomesHeap(Mapped(Heap, ret, first, n, size))
  BY DEF allocate_span_mmap, Mapped
<1> DEFINE g == Mapped(Heap, ret, first, n, size)
<1>2. /\ n \in 1 .. MAX_PAGES /\ HasFresh(Heap) /\ ret = new_span(Heap)
      /\ abandoned' = abandoned
  BY DEF allocate_span_mmap
<1>3. Good(Heap, {}) /\ Accounted /\ size \in Nat
  BY PageHeapAssumption DEF IInv
<1>4. ret \in Span /\ ~Heap.span[ret].live
  BY <1>2, FreshNotIn DEF HasFresh, Fresh
<1>5. first + n - 1 \in Page
  <2>1. first + n - 1 \in first .. first + n - 1
    BY <1>2, PageHeapAssumption DEF Page
  <2> QED
    BY <1>1, <2>1
<1>6. \A p \in first .. first + n - 1 : Heap.page_map[p] = NULL
  BY <1>1, <1>3, HeapFields DEF Accounted
<1>7. /\ Good(g, {}) /\ HeldIn(g, ret)
      /\ g.span[ret].start = first /\ g.span[ret].num_pages = n
      /\ g.span[ret].size = size
      /\ \A t \in Span \ {ret} : g.span[t] = Heap.span[t]
      /\ \A p \in Page : g.page_map[p] =
            IF p \in first .. first + n - 1 THEN ret ELSE Heap.page_map[p]
  BY <1>2, <1>3, <1>4, <1>5, <1>6, MappedGood
<1>8. BecomesHeap(g)
  BY <1>1
<1> HIDE DEF g
<1>9. Heap' = g
  BY <1>7, <1>8, NextHeap DEF Good
<1>10. PagesOf(g, ret) = first .. first + n - 1
  BY <1>7 DEF PagesOf
<1>11. page_map' = g.page_map
  BY <1>8 DEF BecomesHeap
<1>12. Accounted'
  <2>1. mapped' \subseteq Page /\ abandoned' \subseteq mapped'
    BY <1>1, <1>2, <1>3 DEF Accounted
  <2>2. \A p \in mapped' : page_map'[p] = NULL <=> p \in abandoned'
    BY <1>1, <1>2, <1>3, <1>4, <1>7, <1>11, HeapFields, PageHeapAssumption
    DEF Accounted
  <2>3. \A p \in Page \ mapped' : page_map'[p] = NULL
    BY <1>1, <1>3, <1>7, <1>11, HeapFields DEF Accounted
  <2> QED
    BY <2>1, <2>2, <2>3 DEF Accounted, Page
<1>13. Good(Heap, {})'
  BY <1>7, <1>9
<1> QED
  BY <1>1, <1>4, <1>7, <1>9, <1>10, <1>12, <1>13 DEF IInv, ForRequest

(* Unmapping takes one span, free or held, out of the heap.                *)
LEMMA UnmappedGood ==
    ASSUME NEW h, NEW s \in Span, Good(h, {}), h.span[s].live
    PROVE  LET g == unmapped(h, s) IN
           /\ Good(g, {})
           /\ ~g.span[s].live
           /\ \A t \in Span \ {s} : g.span[t] = h.span[t]
           /\ \A p \in Page : g.page_map[p] =
                 IF p \in PagesOf(h, s) THEN NULL ELSE h.page_map[p]
<1> DEFINE h1 == IF h.span[s].is_free THEN remove_from_free_list(h, s) ELSE h
           h2 == unregister_span(h1, s)
           g  == set_span(h2, s, Deleted)
<1>1. /\ h \in HeapType
      /\ LengthsOK(h, {}) /\ MapOK(h) /\ ListsOK(h, {}) /\ SizesOK(h)
  BY DEF Good
<1>2. /\ h.span[s].num_pages <= MAX_PAGES
      /\ h.span[s].num_pages \in 0 .. MAX_PAGES
  BY <1>1, SpanFields, PageHeapAssumption DEF LengthsOK
<1>3. /\ h1 \in HeapType
      /\ h1.span[s].start = h.span[s].start
      /\ h1.span[s].num_pages = h.span[s].num_pages
      /\ \A t \in Span \ {s} : h1.span[t] = h.span[t]
      /\ h1.page_map = h.page_map
      /\ \A k \in 0 .. MAX_PAGES : h1.free_lists[k] = h.free_lists[k] \ {s}
  <2>1. \A k \in 0 .. MAX_PAGES :
            s \in h.free_lists[k] => k = h.span[s].num_pages /\ h.span[s].is_free
    BY <1>1 DEF ListsOK
  <2>2. CASE h.span[s].is_free
    <3> DEFINE k1 == remove_from_free_list(h, s)
    <3>1. /\ k1 \in HeapType
          /\ k1.span[s].start = h.span[s].start
          /\ k1.span[s].num_pages = h.span[s].num_pages
          /\ \A t \in Span \ {s} : k1.span[t] = h.span[t]
          /\ k1.page_map = h.page_map
          /\ \A k \in 0 .. MAX_PAGES : k1.free_lists[k] =
                 IF k = h.span[s].num_pages
                 THEN h.free_lists[k] \ {s} ELSE h.free_lists[k]
      BY <1>1, <1>2, RemoveEffect
    <3>2. h1 = k1
      BY <2>2
    <3> HIDE DEF k1, h1
    <3>3. \A k \in 0 .. MAX_PAGES : k1.free_lists[k] = h.free_lists[k] \ {s}
      BY <2>1, <3>1
    <3> QED
      BY <3>1, <3>2, <3>3
  <2>3. CASE ~h.span[s].is_free
    <3>1. h1 = h
      BY <2>3
    <3> HIDE DEF h1
    <3> QED
      BY <1>1, <2>1, <2>3, <3>1
  <2> QED
    BY <2>2, <2>3
<1> HIDE DEF h1
<1>4. /\ h2 \in HeapType /\ h2.span = h1.span
      /\ h2.free_lists = h1.free_lists
      /\ \A p \in Page : h2.page_map[p] =
             IF p \in PagesOf(h1, s) THEN NULL ELSE h1.page_map[p]
  BY <1>3, UnregisterEffect
<1> HIDE DEF h2
<1>5. /\ g \in HeapType /\ g.span[s] = Deleted
      /\ \A t \in Span \ {s} : g.span[t] = h2.span[t]
      /\ g.page_map = h2.page_map /\ g.free_lists = h2.free_lists
  <2>1. Deleted \in SpanRecord
    BY DEF Deleted, SpanRecord
  <2> QED
    BY <1>4, <2>1, SetSpan
<1>6. g = unmapped(h, s)
  BY DEF unmapped, delete_span, h1, h2
<1> HIDE DEF g
<1>7. /\ ~g.span[s].live
      /\ \A t \in Span \ {s} : g.span[t] = h.span[t]
  BY <1>3, <1>4, <1>5 DEF Deleted
<1>8. /\ PagesOf(h1, s) = PagesOf(h, s)
      /\ \A t \in Span \ {s} : PagesOf(g, t) = PagesOf(h, t)
  BY <1>3, <1>7 DEF PagesOf
<1>9. \A p \in Page : g.page_map[p] =
          IF p \in PagesOf(h, s) THEN NULL ELSE h.page_map[p]
  BY <1>3, <1>4, <1>5, <1>8
<1>10. \A k \in 0 .. MAX_PAGES : g.free_lists[k] = h.free_lists[k] \ {s}
  BY <1>3, <1>4, <1>5
<1>11. LengthsOK(g, {})
  BY <1>1, <1>7 DEF LengthsOK
<1>12. MapOK(g)
  <2> SUFFICES ASSUME NEW p \in Page, NEW t \in Span
               PROVE  g.page_map[p] = t <=> g.span[t].live /\ p \in PagesOf(g, t)
    BY DEF MapOK
  <2>1. h.page_map[p] = t <=> h.span[t].live /\ p \in PagesOf(h, t)
    BY <1>1 DEF MapOK
  <2>2. h.page_map[p] = s <=> p \in PagesOf(h, s)
    BY <1>1 DEF MapOK
  <2>3. CASE t = s
    BY <2>2, <2>3, <1>7, <1>9, PageHeapAssumption
  <2>4. CASE t # s
    BY <2>1, <2>2, <2>4, <1>7, <1>8, <1>9, PageHeapAssumption
  <2> QED
    BY <2>3, <2>4
<1>13. ListsOK(g, {})
  BY <1>1, <1>7, <1>10 DEF ListsOK
<1>14. SizesOK(g)
  BY <1>1, <1>7 DEF SizesOK
<1>15. Good(g, {})
  BY <1>5, <1>11, <1>12, <1>13, <1>14 DEF Good
<1> QED
  BY <1>6, <1>7, <1>9, <1>15

(* deallocate_span preserves the invariant, whether munmap fails or not.   *)
LEMMA DeallocateStep ==
    ASSUME IInv, NEW s \in Span, NEW ok \in BOOLEAN, deallocate_span(s, ok)
    PROVE  /\ IInv'
           /\ ~Heap'.span[s].live
           /\ \A t \in Span \ {s} : Heap'.span[t] = Heap.span[t]
<1> DEFINE g == unmapped(Heap, s)
<1>1. /\ Heap.span[s].live /\ BecomesHeap(g)
      /\ mapped' = IF ok THEN mapped \ PagesOf(Heap, s) ELSE mapped
      /\ abandoned' = IF ok THEN abandoned
                      ELSE abandoned \cup PagesOf(Heap, s)
  BY HeapFields DEF deallocate_span
<1>2. Good(Heap, {}) /\ Accounted /\ MapOK(Heap) /\ LengthsOK(Heap, {})
      /\ Heap \in HeapType
  BY DEF IInv, Good
<1>3. /\ Good(g, {}) /\ ~g.span[s].live
      /\ \A t \in Span \ {s} : g.span[t] = Heap.span[t]
      /\ \A p \in Page : g.page_map[p] =
            IF p \in PagesOf(Heap, s) THEN NULL ELSE Heap.page_map[p]
  BY <1>1, <1>2, UnmappedGood
<1> HIDE DEF g
<1>4. Heap' = g
  BY <1>1, <1>3, NextHeap DEF Good
<1>5. page_map' = g.page_map
  BY <1>1 DEF BecomesHeap
<1>6. PagesOf(Heap, s) \subseteq Page
  BY <1>1, <1>2, SpanFields, PageHeapAssumption DEF LengthsOK, PagesOf, Page
<1>7. \A p \in PagesOf(Heap, s) : page_map[p] = s
  BY <1>1, <1>2, <1>6, HeapFields DEF MapOK
<1>8. PagesOf(Heap, s) \subseteq mapped \ abandoned
  BY <1>2, <1>6, <1>7, PageHeapAssumption DEF Accounted
<1>9. \A p \in Page : page_map'[p] =
         IF p \in PagesOf(Heap, s) THEN NULL ELSE page_map[p]
  BY <1>3, <1>5, HeapFields
<1>10. Accounted'
  <2>1. mapped' \subseteq Page /\ abandoned' \subseteq mapped'
    BY <1>1, <1>2, <1>8 DEF Accounted
  <2>2. \A p \in mapped' : page_map'[p] = NULL <=> p \in abandoned'
    BY <1>1, <1>2, <1>8, <1>9 DEF Accounted
  <2>3. \A p \in Page \ mapped' : page_map'[p] = NULL
    BY <1>1, <1>2, <1>8, <1>9 DEF Accounted
  <2> QED
    BY <2>1, <2>2, <2>3 DEF Accounted, Page
<1>11. Good(Heap, {})'
  BY <1>3, <1>4
<1> QED
  BY <1>3, <1>4, <1>10, <1>11 DEF IInv

(* The destructor runs when only free spans are left; all of them are on   *)
(* the free lists, so nothing survives it.                                 *)
LEMMA DestroyStep ==
    ASSUME IInv, NEW unmap_failed \in SUBSET Span, destroy(unmap_failed)
    PROVE  IInv' /\ \A s \in Span : ~HeldIn(Heap, s) /\ ~HeldIn(Heap', s)
<1> DEFINE listed == UNION {free_lists[n] : n \in 0 .. MAX_PAGES}
           pages(S) == UNION {PagesOf(Heap, s) : s \in S}
<1>1. /\ \A s \in Span : span[s].live => span[s].is_free
      /\ unmap_failed \subseteq listed
      /\ span' = [s \in Span |-> IF s \in listed THEN Deleted ELSE span[s]]
      /\ page_map' = [p \in Page |-> NULL]
      /\ free_lists' = [n \in 0 .. MAX_PAGES |-> {}]
      /\ mapped' = mapped \ pages(listed \ unmap_failed)
      /\ abandoned' = abandoned \cup pages(unmap_failed)
  BY DEF destroy
<1>2. /\ Accounted /\ MapOK(Heap) /\ LengthsOK(Heap, {}) /\ ListsOK(Heap, {})
      /\ Heap \in HeapType
  BY DEF IInv, Good
<1>3. \A s \in Span : s \in listed <=> span[s].live
  <2> SUFFICES ASSUME NEW s \in Span PROVE s \in listed <=> span[s].live
    OBVIOUS
  <2>1. ASSUME span[s].live PROVE s \in listed
    <3>1. span[s].is_free /\ span[s].num_pages \in 0 .. MAX_PAGES
      BY <1>1, <1>2, <2>1, SpanFields, HeapFields, PageHeapAssumption
      DEF LengthsOK
    <3>2. s \in free_lists[span[s].num_pages]
      BY <1>2, <2>1, <3>1, HeapFields DEF ListsOK
    <3> QED
      BY <3>1, <3>2
  <2>2. ASSUME s \in listed PROVE span[s].live
    <3>1. PICK n \in 0 .. MAX_PAGES : s \in free_lists[n]
      BY <2>2
    <3> QED
      BY <1>2, <3>1, HeapFields DEF ListsOK
  <2> QED
    BY <2>1, <2>2
<1>4. listed \subseteq Span
  <2>1. \A n \in 0 .. MAX_PAGES : free_lists[n] \subseteq Span
    BY <1>2, HeapFields DEF HeapType
  <2> QED
    BY <2>1
<1> HIDE DEF listed
<1>5. \A s \in Span : ~span'[s].live
  <2>1. Deleted.live = FALSE
    BY DEF Deleted
  <2> QED
    BY <1>1, <1>3, <2>1
<1>6. \A p \in Page : p \in mapped \ abandoned <=> p \in pages(listed)
  <2> SUFFICES ASSUME NEW p \in Page
               PROVE  p \in mapped \ abandoned <=> p \in pages(listed)
    OBVIOUS
  <2>1. ASSUME p \in mapped \ abandoned PROVE p \in pages(listed)
    <3>1. page_map[p] \in Span
      BY <1>2, <2>1, HeapFields DEF Accounted, HeapType
    <3>2. span[page_map[p]].live /\ p \in PagesOf(Heap, page_map[p])
      BY <1>2, <3>1, HeapFields DEF MapOK
    <3> QED
      BY <1>3, <3>1, <3>2
  <2>2. ASSUME p \in pages(listed) PROVE p \in mapped \ abandoned
    <3>1. PICK s \in listed : p \in PagesOf(Heap, s)
      BY <2>2
    <3>2. page_map[p] = s
      BY <1>2, <1>3, <1>4, <3>1, HeapFields DEF MapOK
    <3> QED
      BY <1>2, <1>4, <3>2, PageHeapAssumption DEF Accounted
  <2> QED
    BY <2>1, <2>2
<1>7. \A S, T \in SUBSET listed : pages(S) \cap pages(T) # {} => S \cap T # {}
  <2> SUFFICES ASSUME NEW S \in SUBSET listed, NEW T \in SUBSET listed,
                      NEW p \in pages(S), p \in pages(T)
               PROVE  S \cap T # {}
    OBVIOUS
  <2>1. PICK s \in S, u \in T : p \in PagesOf(Heap, s) /\ p \in PagesOf(Heap, u)
    OBVIOUS
  <2>2. s \in Span /\ u \in Span /\ span[s].live /\ span[u].live
    BY <1>3, <1>4
  <2>3. p \in Page
    BY <1>2, <2>1, <2>2, SpanFields, HeapFields, PageHeapAssumption
    DEF LengthsOK, PagesOf, Page
  <2>4. page_map[p] = s /\ page_map[p] = u
    BY <1>2, <2>1, <2>2, <2>3, HeapFields DEF MapOK
  <2> QED
    BY <2>4
<1>8. pages(unmap_failed) \subseteq pages(listed)
  BY <1>1
<1>9. pages(listed) = pages(unmap_failed) \cup pages(listed \ unmap_failed)
  BY <1>1
<1>10. pages(unmap_failed) \cap pages(listed \ unmap_failed) = {}
  <2>1. unmap_failed \in SUBSET listed /\ listed \ unmap_failed \in SUBSET listed
    BY <1>1
  <2>2. unmap_failed \cap (listed \ unmap_failed) = {}
    OBVIOUS
  <2> HIDE DEF pages
  <2> QED
    BY <1>7, <2>1, <2>2
<1>11. pages(listed) \subseteq Page
  <2> SUFFICES ASSUME NEW s \in listed PROVE PagesOf(Heap, s) \subseteq Page
    OBVIOUS
  <2>1. s \in Span /\ Heap.span[s].live
    BY <1>3, <1>4, HeapFields
  <2> QED
    BY <1>2, <2>1, SpanFields, PageHeapAssumption DEF LengthsOK, PagesOf, Page
<1> HIDE DEF pages
<1>12. mapped \subseteq Page /\ abandoned \subseteq mapped
  BY <1>2 DEF Accounted
<1>13. mapped' = abandoned'
  <2>1. pages(listed) = mapped \ abandoned
    BY <1>6, <1>11, <1>12
  <2>2. pages(listed \ unmap_failed) = pages(listed) \ pages(unmap_failed)
    BY <1>9, <1>10
  <2> QED
    BY <1>1, <1>8, <1>12, <2>1, <2>2
<1>14. Accounted'
  <2>1. mapped' \subseteq Page
    BY <1>1, <1>12
  <2>2. \A p \in Page : page_map'[p] = NULL
    BY <1>1
  <2> QED
    BY <1>13, <2>1, <2>2 DEF Accounted, Page
<1>15. Good(Heap, {})'
  <2>1. Heap' = [span |-> span', page_map |-> page_map',
                 free_lists |-> free_lists']
    BY DEF Heap
  <2>2. span' \in [Span -> SpanRecord]
    <3>1. Deleted \in SpanRecord
      BY DEF Deleted, SpanRecord
    <3>2. span \in [Span -> SpanRecord]
      BY <1>2, HeapFields DEF HeapType
    <3> QED
      BY <1>1, <3>1, <3>2
  <2>3. Heap' \in HeapType
    BY <1>1, <2>1, <2>2 DEF HeapType
  <2>4. /\ Heap'.span = span' /\ Heap'.page_map = page_map'
        /\ Heap'.free_lists = free_lists'
    BY <2>1
  <2>5. LengthsOK(Heap', {}) /\ SizesOK(Heap')
    BY <1>5, <2>4 DEF LengthsOK, SizesOK
  <2>6. MapOK(Heap')
    BY <1>1, <1>5, <2>4, PageHeapAssumption DEF MapOK
  <2>7. ListsOK(Heap', {})
    BY <1>1, <1>5, <2>4 DEF ListsOK
  <2>8. Good(Heap', {})
    BY <2>3, <2>5, <2>6, <2>7 DEF Good
  <2> QED
    BY <2>8
<1>16. \A s \in Span : ~HeldIn(Heap, s) /\ ~HeldIn(Heap', s)
  <2>1. Heap'.span = span'
    BY DEF Heap
  <2> QED
    BY <1>1, <1>5, <2>1, HeapFields DEF HeldIn
<1> QED
  BY <1>14, <1>15, <1>16 DEF IInv

(* A step that changes nothing preserves the invariant.                    *)
LEMMA IInvUnchanged ==
    ASSUME IInv, UNCHANGED vars
    PROVE  IInv' /\ Heap' = Heap
<1>1. Heap' = Heap
  BY DEF vars, Heap
<1>2. Good(Heap, {})'
  BY <1>1 DEF IInv
<1>3. Accounted'
  BY DEF IInv, Accounted, vars, Page
<1> QED
  BY <1>1, <1>2, <1>3 DEF IInv

(* IInv is inductive, one step per operation.                              *)
LEMMA NextIInv == IInv /\ [Next]_vars => IInv'
<1> SUFFICES ASSUME IInv, [Next]_vars PROVE IInv'
  OBVIOUS
<1>1. ASSUME NEW n \in 0 .. MAX_PAGES + 1, NEW size \in Sizes,
             NEW ret \in Span \cup {NULL}, allocate_span(n, size, ret)
      PROVE  IInv'
  <2>1. CASE allocate_span_refused(n, ret)
    BY <2>1, IInvUnchanged DEF allocate_span_refused
  <2>2. CASE allocate_span_reuse(n, size, ret)
    BY <2>2, ReuseStep
  <2>3. CASE allocate_span_mmap(n, size, ret)
    BY <2>3, MmapStep
  <2>4. CASE allocate_span_mmap_failed(n, ret)
    BY <2>4, IInvUnchanged DEF allocate_span_mmap_failed
  <2> QED
    BY <1>1, <2>1, <2>2, <2>3, <2>4 DEF allocate_span
<1>2. ASSUME NEW s \in Span, return_span(s) PROVE IInv'
  BY <1>2, ReturnStep
<1>3. ASSUME NEW s \in Span, NEW ok \in BOOLEAN, deallocate_span(s, ok)
      PROVE  IInv'
  BY <1>3, DeallocateStep
<1>4. ASSUME NEW unmap_failed \in SUBSET Span, destroy(unmap_failed)
      PROVE  IInv'
  BY <1>4, DestroyStep
<1>5. CASE UNCHANGED vars
  BY <1>5, IInvUnchanged
<1> QED
  BY <1>1, <1>2, <1>3, <1>4, <1>5 DEF Next

(* The inductive invariant holds in every reachable state of the page      *)
(* heap.                                                                   *)
THEOREM Invariant == Spec => []IInv
BY InitIInv, NextIInv, PTL DEF Spec

-----------------------------------------------------------------------------
(* What the invariant says about the variables themselves.                 *)
LEMMA IInvTypeOK == IInv => TypeOK
<1> SUFFICES ASSUME IInv PROVE TypeOK
  OBVIOUS
<1>1. Heap \in HeapType /\ LengthsOK(Heap, {}) /\ Accounted
  BY DEF IInv, Good
<1>2. /\ span \in [Span -> SpanRecord]
      /\ page_map \in [Page -> Span \cup {NULL}]
      /\ free_lists \in [0 .. MAX_PAGES -> SUBSET Span]
  BY <1>1, HeapFields DEF HeapType
<1>3. ASSUME NEW s \in Span, span[s].live
      PROVE  /\ span[s].start \in Page
             /\ span[s].num_pages \in 1 .. MAX_PAGES
             /\ span[s].start + span[s].num_pages - 1 \in Page
  BY <1>1, <1>3, SpanFields, HeapFields, PageHeapAssumption
  DEF LengthsOK, Page
<1> QED
  BY <1>1, <1>2, <1>3 DEF TypeOK, Accounted

(* The accounts of the invariant, stated with spans instead of the page    *)
(* map.                                                                    *)
LEMMA IInvNoLostPages == IInv => NoLostPages
<1> SUFFICES ASSUME IInv PROVE NoLostPages
  OBVIOUS
<1> DEFINE owned == UNION {PagesOf(Heap, s) : s \in {t \in Span : span[t].live}}
<1>1. /\ Heap \in HeapType /\ MapOK(Heap) /\ LengthsOK(Heap, {}) /\ Accounted
  BY DEF IInv, Good
<1>2. owned \subseteq Page
  <2> SUFFICES ASSUME NEW s \in Span, span[s].live
               PROVE  PagesOf(Heap, s) \subseteq Page
    OBVIOUS
  <2> QED
    BY <1>1, SpanFields, HeapFields, PageHeapAssumption
    DEF LengthsOK, PagesOf, Page
<1>3. \A p \in Page : p \in owned <=> page_map[p] # NULL
  <2> SUFFICES ASSUME NEW p \in Page
               PROVE  p \in owned <=> page_map[p] # NULL
    OBVIOUS
  <2>1. ASSUME p \in owned PROVE page_map[p] # NULL
    <3>1. PICK s \in Span : span[s].live /\ p \in PagesOf(Heap, s)
      BY <2>1
    <3> QED
      BY <1>1, <3>1, HeapFields, PageHeapAssumption DEF MapOK
  <2>2. ASSUME page_map[p] # NULL PROVE p \in owned
    <3>1. page_map[p] \in Span
      BY <1>1, <2>2, HeapFields DEF HeapType
    <3>2. span[page_map[p]].live /\ p \in PagesOf(Heap, page_map[p])
      BY <1>1, <3>1, HeapFields DEF MapOK
    <3> QED
      BY <3>1, <3>2
  <2> QED
    BY <2>1, <2>2
<1> HIDE DEF owned
<1>4. mapped = abandoned \cup owned /\ abandoned \cap owned = {}
  BY <1>1, <1>2, <1>3 DEF Accounted
<1> QED
  BY <1>4 DEF NoLostPages, owned

(* The state always has its types, and every live span, whatever was       *)
(* merged into it or carved off it, is between 1 and MAX_PAGES pages long. *)
THEOREM TypeCorrect == Spec => []TypeOK
BY Invariant, IInvTypeOK, PTL

(* span_for finds the one live span that owns a page, and live spans never *)
(* overlap.                                                                *)
THEOREM PageMapCorrect == Spec => []PageMapExact
<1>1. IInv => PageMapExact
  BY HeapFields DEF IInv, Good, MapOK, PageMapExact
<1> QED
  BY <1>1, Invariant, PTL

(* The free lists hold exactly the live free spans, each on the list of    *)
(* its length.                                                             *)
THEOREM FreeListsCorrect == Spec => []FreeListsExact
<1>1. IInv => FreeListsExact
  BY HeapFields DEF IInv, Good, ListsOK, FreeListsExact
<1> QED
  BY <1>1, Invariant, PTL

(* A free span never carries the object size of its last use.              *)
THEOREM FreeSizesCorrect == Spec => []FreeSpansHaveNoSize
<1>1. IInv => FreeSpansHaveNoSize
  BY HeapFields DEF IInv, Good, SizesOK, FreeSpansHaveNoSize
<1> QED
  BY <1>1, Invariant, PTL

(* Every mapped page is owned by exactly one live span or was abandoned by *)
(* a failed munmap.                                                        *)
THEOREM PagesAccountedFor == Spec => []NoLostPages
BY Invariant, IInvNoLostPages, PTL

-----------------------------------------------------------------------------
(* What merging does to the border pages of a returned span.               *)
EndIn(h, s) == h.span[s].start + h.span[s].num_pages

(* s keeps its end and takes over a free span below.                       *)
LeftMerged(h, g, s) ==
    /\ EndIn(g, s) = EndIn(h, s)
    /\ g.span[s].start <= h.span[s].start
    /\ \A t \in Span :
          LET p == h.span[s].start - 1
          IN  p \in Page /\ h.page_map[p] = t /\ h.span[t].is_free =>
                  g.span[s].start <= p
    /\ \A t \in Span :
          LET p == EndIn(h, s)
          IN  p \in Page /\ h.page_map[p] = t =>
                  g.page_map[p] = t /\ g.span[t] = h.span[t]

(* s keeps its start and takes over a free span behind.                    *)
RightMerged(h, g, s) ==
    /\ g.span[s].start = h.span[s].start
    /\ EndIn(h, s) <= EndIn(g, s)
    /\ \A t \in Span :
          LET p == EndIn(h, s)
          IN  p \in Page /\ h.page_map[p] = t /\ h.span[t].is_free =>
                  p < EndIn(g, s)

LEMMA MergesLeft ==
    ASSUME NEW h, NEW s \in Span, Good(h, {s}),
           h.span[s].live, h.span[s].is_free
    PROVE  LeftMerged(h, coalesce_left(h, s), s)
<1> DEFINE left == lookup(h, h.span[s].start - 1)
           g == absorb(h, s, left, h.span[left].start)
           e == EndIn(h, s)
<1>1. h \in HeapType /\ LengthsOK(h, {s}) /\ MapOK(h)
  BY DEF Good
<1>2. /\ h.span[s].start \in Nat /\ h.span[s].num_pages \in Nat
      /\ h.span[s].start >= 1 /\ h.span[s].num_pages >= 1
      /\ e \in Nat
  BY <1>1, SpanFields DEF LengthsOK, EndIn
<1>3. h.span[s].start - 1 \notin PagesOf(h, s) /\ e \notin PagesOf(h, s)
  BY <1>2 DEF PagesOf, EndIn
<1>4. CASE h.span[s].start > 0 /\ mergeable(h, s, left)
  <2>1. left # NULL /\ left # s /\ h.span[left].is_free
    BY <1>4 DEF mergeable
  <2>2. left \in Span /\ h.span[s].start - 1 \in Page
        /\ h.page_map[h.span[s].start - 1] = left
    BY <1>1, <2>1 DEF lookup, HeapType
  <2>3. coalesce_left(h, s) = g
    BY <1>4 DEF coalesce_left
  <2> HIDE DEF left
  <2>4. h.span[left].live /\ h.span[s].start - 1 \in PagesOf(h, left)
    BY <1>1, <2>2 DEF MapOK
  <2>5. /\ h.span[left].num_pages \in Nat /\ h.span[left].start \in Nat
        /\ h.span[left].num_pages <= MAX_PAGES /\ h.span[left].num_pages >= 1
    BY <1>1, <2>1, <2>2, <2>4, SpanFields DEF LengthsOK
  <2>6. h.span[s].start \in Page /\ h.span[s].start \in PagesOf(h, s)
    <3>1. h.span[s].start + h.span[s].num_pages - 1 <= NumPages
      BY <1>1 DEF LengthsOK
    <3> QED
      BY <1>2, <3>1, PageHeapAssumption DEF Page, PagesOf
  <2>7. h.span[s].start \notin PagesOf(h, left)
    BY <1>1, <2>1, <2>2, <2>4, <2>6 DEF MapOK
  <2>8. h.span[left].start + h.span[left].num_pages = h.span[s].start
    BY <1>2, <2>4, <2>5, <2>7 DEF PagesOf
  <2>9. Absorbed(h, g, s, left, h.span[left].start)
    BY <1>1, <2>1, <2>2, <2>5, AbsorbEffect
  <2> HIDE DEF g
  <2>10. /\ g.span[s].start = h.span[left].start
         /\ g.span[s].num_pages = h.span[s].num_pages + h.span[left].num_pages
         /\ \A t \in Span \ {s, left} : g.span[t] = h.span[t]
         /\ \A p \in Page :
              g.page_map[p] =
                IF p \in h.span[left].start ..
                            h.span[left].start
                              + (h.span[s].num_pages + h.span[left].num_pages) - 1
                THEN s
                ELSE IF p \in PagesOf(h, s) \/ p \in PagesOf(h, left)
                THEN NULL ELSE h.page_map[p]
    BY <2>9 DEF Absorbed
  <2>11. EndIn(g, s) = e /\ g.span[s].start <= h.span[s].start - 1
    BY <1>2, <2>5, <2>8, <2>10 DEF EndIn
  <2>12. e \notin PagesOf(h, left)
         /\ e \notin h.span[left].start ..
                       h.span[left].start
                         + (h.span[s].num_pages + h.span[left].num_pages) - 1
    BY <1>2, <2>5, <2>8 DEF EndIn, PagesOf
  <2>13. ASSUME NEW t \in Span, e \in Page, h.page_map[e] = t
         PROVE  g.page_map[e] = t /\ g.span[t] = h.span[t]
    <3>1. e \in PagesOf(h, t)
      BY <1>1, <2>13 DEF MapOK
    <3>2. t # s /\ t # left
      BY <1>3, <2>12, <3>1
    <3> HIDE DEF e
    <3>3. g.page_map[e] = h.page_map[e]
      BY <1>3, <2>10, <2>12, <2>13
    <3> QED
      BY <2>10, <2>13, <3>2, <3>3
  <2>14. g.span[s].start <= h.span[s].start
    BY <1>2, <2>5, <2>8, <2>10
  <2> QED
    BY <2>3, <2>11, <2>13, <2>14 DEF LeftMerged
<1>5. CASE ~(h.span[s].start > 0 /\ mergeable(h, s, left))
  <2>1. coalesce_left(h, s) = h
    BY <1>5 DEF coalesce_left
  <2>2. ASSUME NEW t \in Span, h.span[s].start - 1 \in Page,
               h.page_map[h.span[s].start - 1] = t, h.span[t].is_free
        PROVE  FALSE
    <3>1. left = t /\ t # NULL
      BY <2>2, PageHeapAssumption DEF lookup
    <3>2. h.span[s].start - 1 \in PagesOf(h, t)
      BY <1>1, <2>2 DEF MapOK
    <3>3. t # s
      BY <1>3, <3>2
    <3> QED
      BY <1>2, <1>5, <2>2, <3>1, <3>3 DEF mergeable
  <2> QED
    BY <1>2, <2>1, <2>2 DEF LeftMerged
<1> QED
  BY <1>4, <1>5

LEMMA MergesRight ==
    ASSUME NEW h, NEW s \in Span, Good(h, {s}),
           h.span[s].live, h.span[s].is_free
    PROVE  RightMerged(h, coalesce_right(h, s), s)
<1> DEFINE right == lookup(h, h.span[s].start + h.span[s].num_pages)
           g == absorb(h, s, right, h.span[s].start)
           e == EndIn(h, s)
<1>1. h \in HeapType /\ LengthsOK(h, {s}) /\ MapOK(h)
  BY DEF Good
<1>2. /\ h.span[s].start \in Nat /\ h.span[s].num_pages \in Nat
      /\ e \in Nat /\ e = h.span[s].start + h.span[s].num_pages
  BY <1>1, SpanFields DEF EndIn
<1>3. e \notin PagesOf(h, s)
  BY <1>2 DEF PagesOf
<1>4. CASE mergeable(h, s, right)
  <2>1. right # NULL /\ right # s /\ h.span[right].is_free
    BY <1>4 DEF mergeable
  <2>2. right \in Span /\ e \in Page /\ h.page_map[e] = right
    BY <1>1, <1>2, <2>1 DEF lookup, HeapType
  <2>3. coalesce_right(h, s) = g
    BY <1>4 DEF coalesce_right
  <2> HIDE DEF right
  <2>4. h.span[right].live
    BY <1>1, <2>2 DEF MapOK
  <2>5. /\ h.span[right].num_pages \in Nat /\ h.span[right].num_pages >= 1
        /\ h.span[right].num_pages <= MAX_PAGES
    BY <1>1, <2>1, <2>2, <2>4, SpanFields DEF LengthsOK
  <2>6. Absorbed(h, g, s, right, h.span[s].start)
    BY <1>1, <1>2, <2>1, <2>2, <2>5, AbsorbEffect
  <2> HIDE DEF g
  <2>7. /\ g.span[s].start = h.span[s].start
        /\ g.span[s].num_pages = h.span[s].num_pages + h.span[right].num_pages
    BY <2>6 DEF Absorbed
  <2>8. e < EndIn(g, s) /\ e <= EndIn(g, s)
    BY <1>2, <2>5, <2>7 DEF EndIn
  <2> QED
    BY <2>3, <2>7, <2>8 DEF RightMerged
<1>5. CASE ~mergeable(h, s, right)
  <2>1. coalesce_right(h, s) = h
    BY <1>5 DEF coalesce_right
  <2>2. ASSUME NEW t \in Span, e \in Page, h.page_map[e] = t, h.span[t].is_free
        PROVE  FALSE
    <3>1. right = t /\ t # NULL
      BY <1>2, <2>2, PageHeapAssumption DEF lookup
    <3>2. e \in PagesOf(h, t)
      BY <1>1, <2>2 DEF MapOK
    <3>3. t # s
      BY <1>3, <3>2
    <3> QED
      BY <1>5, <2>2, <3>1, <3>3 DEF mergeable
  <2> QED
    BY <1>2, <2>1, <2>2 DEF RightMerged
<1> QED
  BY <1>4, <1>5

(* The pages p and p + 1 are in s, or cut apart where a span of MAX_PAGES  *)
(* pages ends.                                                             *)
Joined(h, s, p) ==
    \/ {p, p + 1} \subseteq PagesOf(h, s)
    \/ \E o \in Span \ {s} : /\ h.span[o].live /\ p \in PagesOf(h, o)
                             /\ h.span[o].num_pages = MAX_PAGES

LEMMA CarveJoins ==
    ASSUME NEW h, NEW s \in Span, Good(h, {s}), h.span[s].live,
           Fresh(h) # {}, NEW p \in Nat, Joined(h, s, p)
    PROVE  Joined(carve_step(h, s), s, p)
<1> DEFINE o == new_span(h)
           fs == h.span[s].start + MAX_PAGES
           ns == h.span[s].num_pages - MAX_PAGES
           g == Divide(h, s, o, fs, ns, h.span[s].start, MAX_PAGES)
<1>1. /\ h \in HeapType
      /\ h.span[s].start \in Nat /\ h.span[s].num_pages \in Nat
      /\ MAX_PAGES \in Nat /\ MAX_PAGES >= 1
  BY SpanFields, PageHeapAssumption DEF Good
<1>2. CASE h.span[s].num_pages > MAX_PAGES
  <2>1. o \in Span /\ ~h.span[o].live /\ o # s
    BY FreshNotIn DEF Fresh
  <2>2. carve_step(h, s) = g
    BY <1>2 DEF carve_step, carve_front, Divide
  <2> HIDE DEF o
  <2>3. fs \in Nat /\ ns \in Nat
    BY <1>1, <1>2
  <2>4. Divided(h, g, s, o, fs, ns, h.span[s].start, MAX_PAGES)
    BY <1>1, <2>1, <2>3, DivideEffect
  <2> HIDE DEF g
  <2>5. /\ g.span[s].start = fs /\ g.span[s].num_pages = ns
        /\ g.span[o].live /\ g.span[o].start = h.span[s].start
        /\ g.span[o].num_pages = MAX_PAGES
        /\ \A t \in Span \ {s, o} : g.span[t] = h.span[t]
    BY <2>4 DEF Divided
  <2>6. CASE {p, p + 1} \subseteq PagesOf(h, s)
    <3>1. p \in PagesOf(g, o) \/ {p, p + 1} \subseteq PagesOf(g, s)
      BY <1>1, <1>2, <2>5, <2>6 DEF PagesOf
    <3> QED
      BY <2>1, <2>2, <2>5, <3>1 DEF Joined
  <2>7. ASSUME NEW t \in Span \ {s}, h.span[t].live, p \in PagesOf(h, t),
               h.span[t].num_pages = MAX_PAGES
        PROVE  Joined(g, s, p)
    <3>1. g.span[t] = h.span[t]
      BY <2>1, <2>5, <2>7
    <3> QED
      BY <2>7, <3>1 DEF Joined, PagesOf
  <2> QED
    BY <2>2, <2>6, <2>7 DEF Joined
<1>3. CASE ~(h.span[s].num_pages > MAX_PAGES)
  BY <1>3 DEF carve_step
<1> QED
  BY <1>2, <1>3

(* Listing a span moves no border.                                         *)
LEMMA InsertKeepsExtents ==
    ASSUME NEW h \in HeapType, NEW s \in Span, h.span[s].num_pages <= MAX_PAGES
    PROVE  LET g == insert(h, s)
           IN  /\ g.span[s].start = h.span[s].start
               /\ g.span[s].num_pages = h.span[s].num_pages
               /\ \A t \in Span \ {s} : g.span[t] = h.span[t]
<1> DEFINE g == insert(h, s)
<1>1. /\ g \in HeapType
      /\ g.span[s].live = h.span[s].live
      /\ g.span[s].is_free = TRUE
      /\ g.span[s].size = h.span[s].size
      /\ g.span[s].start = h.span[s].start
      /\ g.span[s].num_pages = h.span[s].num_pages
      /\ \A t \in Span \ {s} : g.span[t] = h.span[t]
      /\ g.page_map = h.page_map
      /\ \A k \in 0 .. MAX_PAGES : g.free_lists[k] =
             IF k = h.span[s].num_pages
             THEN h.free_lists[k] \cup {s} ELSE h.free_lists[k]
  BY InsertEffect
<1> HIDE DEF g
<1>2. /\ g.span[s].start = h.span[s].start
      /\ g.span[s].num_pages = h.span[s].num_pages
      /\ \A t \in Span \ {s} : g.span[t] = h.span[t]
  BY <1>1
<1> QED
  BY <1>2 DEF g

(* Where the returned span met a free neighbour, the border pages end up   *)
(* joined.                                                                 *)
LEMMA ReturnedJoins ==
    ASSUME NEW h, NEW s \in Span, Good(h, {}), HeldIn(h, s), HasFresh(h),
           NEW p \in Page, NEW q \in Page, NEW t \in Span \ {s},
           h.page_map[q] = t, h.span[t].is_free,
           \/ p = h.span[s].start - 1 /\ q = p
           \/ p = EndIn(h, s) - 1 /\ q = p + 1
    PROVE  Joined(returned(h, s), s, p)
<1> DEFINE h1 == set_use(h, s, TRUE, 0)
           h2 == coalesce_left(h1, s)
           h3 == coalesce_right(h2, s)
           h4 == carve_step(h3, s)
           h5 == carve_step(h4, s)
           g  == insert(h5, s)
<1>1. /\ h \in HeapType /\ h.span[s].live /\ ~h.span[s].is_free
      /\ LengthsOK(h, {}) /\ MapOK(h) /\ ListsOK(h, {}) /\ SizesOK(h)
  BY DEF Good, HeldIn
<1>2. /\ h1 \in HeapType
      /\ h1.span[s].live = h.span[s].live
      /\ h1.span[s].is_free = TRUE
      /\ h1.span[s].size = 0
      /\ h1.span[s].start = h.span[s].start
      /\ h1.span[s].num_pages = h.span[s].num_pages
      /\ \A u \in Span \ {s} : h1.span[u] = h.span[u]
      /\ h1.page_map = h.page_map
      /\ h1.free_lists = h.free_lists
  <2>1. h \in HeapType /\ 0 \in Nat
    BY <1>1
  <2>2. UseSet(h, h1, s, TRUE, 0)
    BY <2>1, SetUse
  <2> HIDE DEF h1
  <2> QED
    BY <2>2 DEF UseSet
<1> HIDE DEF h1
<1>3. Good(h1, {s}) /\ h1.span[s].live /\ h1.span[s].is_free
  <2>1. LengthsOK(h1, {s})
    BY <1>1, <1>2 DEF LengthsOK
  <2>2. \A u \in Span : /\ PagesOf(h1, u) = PagesOf(h, u)
                        /\ h1.span[u].live = h.span[u].live
    BY <1>2 DEF PagesOf
  <2>3. MapOK(h1)
    BY <1>1, <1>2, <2>2 DEF MapOK
  <2>4. ListsOK(h1, {s})
    BY <1>1, <1>2 DEF ListsOK
  <2>5. SizesOK(h1)
    BY <1>1, <1>2 DEF SizesOK
  <2> QED
    BY <1>1, <1>2, <2>1, <2>3, <2>4, <2>5 DEF Good
<1>4. Grown(h1, h2, s, MAX_PAGES) /\ LeftMerged(h1, h2, s)
  BY <1>3, CoalesceLeft, MergesLeft
<1> HIDE DEF h2
<1>5. Good(h2, {s}) /\ h2.span[s].live /\ h2.span[s].is_free
  BY <1>3, <1>4 DEF Grown, Reshaped
<1>6. Grown(h2, h3, s, MAX_PAGES) /\ RightMerged(h2, h3, s)
  BY <1>5, CoalesceRight, MergesRight
<1> HIDE DEF h3
<1>7. Good(h3, {s}) /\ h3.span[s].live /\ h3.span[s].is_free
  BY <1>5, <1>6 DEF Grown, Reshaped
<1>8. PICK a \in Fresh(h3), b \in Fresh(h3) : a # b
  <2>1. PICK a \in Fresh(h), b \in Fresh(h) : a # b
    BY DEF HasFresh
  <2>2. a \in Fresh(h1) /\ b \in Fresh(h1)
    BY <1>1, <1>2 DEF Fresh
  <2> QED
    BY <1>4, <1>6, <2>1, <2>2 DEF Grown
<1>9. /\ h.span[s].start \in Nat /\ h.span[s].num_pages \in Nat
      /\ h2.span[s].start \in Nat /\ h2.span[s].num_pages \in Nat
      /\ h3.span[s].start \in Nat /\ h3.span[s].num_pages \in Nat
      /\ h.span[s].num_pages >= 1 /\ h.span[s].start >= 1
  BY <1>1, <1>5, <1>7, SpanFields DEF Good, LengthsOK
<1>10. EndIn(h1, s) = EndIn(h, s) /\ h1.span[t] = h.span[t]
  BY <1>2 DEF EndIn
<1>11. Joined(h3, s, p)
  <2>1. /\ EndIn(h2, s) = EndIn(h, s) /\ h2.span[s].start <= h.span[s].start
        /\ h3.span[s].start = h2.span[s].start /\ EndIn(h2, s) <= EndIn(h3, s)
    BY <1>2, <1>4, <1>6, <1>10 DEF LeftMerged, RightMerged
  <2>2. CASE p = h.span[s].start - 1 /\ q = p
    <3>1. h2.span[s].start <= p
      BY <1>2, <1>4, <1>10, <2>2 DEF LeftMerged
    <3>2. p \in PagesOf(h3, s) /\ p + 1 \in PagesOf(h3, s)
      BY <1>9, <2>1, <2>2, <3>1 DEF PagesOf, EndIn
    <3> QED
      BY <3>2 DEF Joined
  <2>3. CASE p = EndIn(h, s) - 1 /\ q = p + 1
    <3>1. q = EndIn(h, s)
      BY <1>9, <2>3 DEF EndIn
    <3>2. h2.page_map[q] = t /\ h2.span[t] = h1.span[t]
      BY <1>2, <1>4, <1>10, <3>1 DEF LeftMerged
    <3>3. q < EndIn(h3, s)
      BY <1>6, <1>10, <2>1, <3>1, <3>2 DEF RightMerged
    <3>4. p \in PagesOf(h3, s) /\ p + 1 \in PagesOf(h3, s)
      BY <1>9, <2>1, <2>3, <3>3 DEF PagesOf, EndIn
    <3> QED
      BY <3>4 DEF Joined
  <2> QED
    BY <2>2, <2>3
<1>12. p \in Nat
  BY PageHeapAssumption DEF Page
<1>13. /\ Good(h4, {s}) /\ Reshaped(h3, h4, s) /\ Joined(h4, s, p)
       /\ \A u \in Fresh(h3) \ {new_span(h3)} : u \in Fresh(h4)
       /\ \/ h4.span[s].num_pages = h3.span[s].num_pages - MAX_PAGES
          \/ h4 = h3 /\ h3.span[s].num_pages <= MAX_PAGES
  BY <1>7, <1>8, <1>11, <1>12, CarveStep, CarveJoins
<1> HIDE DEF h4
<1>14. h4.span[s].live /\ Fresh(h4) # {}
  BY <1>7, <1>8, <1>13 DEF Reshaped
<1>15. /\ Good(h5, {s}) /\ Reshaped(h4, h5, s) /\ Joined(h5, s, p)
       /\ \/ h5.span[s].num_pages = h4.span[s].num_pages - MAX_PAGES
          \/ h5 = h4 /\ h4.span[s].num_pages <= MAX_PAGES
  BY <1>12, <1>13, <1>14, CarveStep, CarveJoins
<1> HIDE DEF h5
<1>16. h5.span[s].num_pages <= MAX_PAGES /\ h5 \in HeapType
  <2>1. h.span[s].num_pages <= MAX_PAGES /\ MAX_PAGES \in Nat
    BY <1>1, PageHeapAssumption DEF LengthsOK
  <2>2. h4.span[s].num_pages \in Nat /\ h5.span[s].num_pages \in Nat
        /\ h5 \in HeapType
    BY <1>13, <1>15, SpanFields DEF Good
  <2>3. /\ h2.span[s].num_pages <= h.span[s].num_pages + MAX_PAGES
        /\ h3.span[s].num_pages <= h2.span[s].num_pages + MAX_PAGES
    BY <1>2, <1>4, <1>6 DEF Grown
  <2> QED
    BY <1>9, <1>13, <1>15, <2>1, <2>2, <2>3
<1>17. /\ g.span[s].start = h5.span[s].start
       /\ g.span[s].num_pages = h5.span[s].num_pages
       /\ \A u \in Span \ {s} : g.span[u] = h5.span[u]
  BY <1>16, InsertKeepsExtents
<1>18. g = returned(h, s)
  BY DEF returned, coalesce, carve, h1, h2, h3, h4, h5
<1> HIDE DEF g
<1>19. Joined(g, s, p)
  BY <1>15, <1>17 DEF Joined, PagesOf
<1> QED
  BY <1>18, <1>19

(* The two borders of a span that is returned: a free neighbour there was  *)
(* free before, because a held one keeps its page and its use.             *)
LEMMA BordersMerged ==
    ASSUME NEW h, NEW s \in Span, Good(h, {}), HeldIn(h, s), HasFresh(h),
           NEW p \in Page, p + 1 \in Page,
           p \in {h.span[s].start - 1, EndIn(h, s) - 1},
           NEW g, g = returned(h, s),
           NEW below \in Span, NEW above \in Span,
           g.page_map[p] = below, g.page_map[p + 1] = above,
           g.span[below].is_free, g.span[above].is_free
    PROVE  below = above \/ g.span[below].num_pages = MAX_PAGES
<1>1. /\ h \in HeapType /\ LengthsOK(h, {}) /\ MapOK(h)
      /\ h.span[s].live /\ p \in Nat
      /\ NULL \notin Span
  BY PageHeapAssumption DEF Good, HeldIn, Page
<1>2. /\ h.span[s].start \in Nat /\ h.span[s].num_pages \in Nat
      /\ h.span[s].num_pages >= 1
  BY <1>1, SpanFields DEF LengthsOK
<1>3. Good(g, {}) /\ Reused(h, g, s)
  BY ReturnedGood
<1>4. MapOK(g) /\ SamePages(h, g)
  BY <1>3 DEF Good, Reused
<1>5. Joined(g, s, p)
  <2>1. PICK q \in Page : \/ p = h.span[s].start - 1 /\ q = p
                          \/ p = EndIn(h, s) - 1 /\ q = p + 1
    OBVIOUS
  <2>2. q \notin PagesOf(h, s)
    BY <1>1, <1>2, <2>1 DEF PagesOf, EndIn
  <2>3. g.page_map[q] \in Span /\ g.span[g.page_map[q]].is_free
    BY <2>1
  <2>4. PICK t \in Span : h.page_map[q] = t
    BY <1>1, <1>4, <2>3 DEF SamePages, HeapType
  <2>5. t # s /\ h.span[t].live /\ q \in PagesOf(h, t)
    BY <1>1, <2>2, <2>4 DEF MapOK
  <2>6. h.span[t].is_free
    <3> SUFFICES ASSUME ~h.span[t].is_free PROVE FALSE
      OBVIOUS
    <3>1. g.span[t] = h.span[t]
      BY <1>3, <2>5 DEF Reused, HeldIn
    <3>2. g.page_map[q] = t
      BY <1>4, <2>5, <3>1 DEF MapOK, PagesOf
    <3> QED
      BY <2>3, <3>1, <3>2
  <2> QED
    BY <2>1, <2>4, <2>5, <2>6, ReturnedJoins
<1>6. CASE {p, p + 1} \subseteq PagesOf(g, s)
  <2>1. g.span[s].live
    BY ReturnedGood
  <2> QED
    BY <1>4, <1>6, <2>1 DEF MapOK
<1>7. CASE \E o \in Span \ {s} : /\ g.span[o].live /\ p \in PagesOf(g, o)
                                 /\ g.span[o].num_pages = MAX_PAGES
  BY <1>4, <1>7 DEF MapOK
<1> QED
  BY <1>5, <1>6, <1>7 DEF Joined

-----------------------------------------------------------------------------
(* Every step touches at most one span that is held before or after it.    *)
TouchesOnly(x) ==
    \A t \in Span \ {x} :
        HeldIn(Heap, t) \/ HeldIn(Heap', t) => Heap'.span[t] = Heap.span[t]

(* Every step leaves all held spans but one as they are.                   *)
LEMMA NextTouches ==
    ASSUME IInv, [Next]_vars
    PROVE  \E x : TouchesOnly(x)
<1>1. ASSUME NEW n \in 0 .. MAX_PAGES + 1, NEW size \in Sizes,
             NEW ret \in Span \cup {NULL}, allocate_span(n, size, ret)
      PROVE  TouchesOnly(ret)
  <2>1. CASE allocate_span_refused(n, ret)
    BY <2>1, IInvUnchanged DEF allocate_span_refused, TouchesOnly
  <2>2. CASE allocate_span_reuse(n, size, ret)
    <3>1. Reused(Heap, Heap', ret)
      BY <2>2, ReuseStep
    <3> QED
      BY <3>1 DEF Reused, TouchesOnly
  <2>3. CASE allocate_span_mmap(n, size, ret)
    <3>1. \A t \in Span \ {ret} : Heap'.span[t] = Heap.span[t]
      BY <2>3, MmapStep
    <3> QED
      BY <3>1 DEF TouchesOnly
  <2>4. CASE allocate_span_mmap_failed(n, ret)
    BY <2>4, IInvUnchanged DEF allocate_span_mmap_failed, TouchesOnly
  <2> QED
    BY <1>1, <2>1, <2>2, <2>3, <2>4 DEF allocate_span
<1>2. ASSUME NEW s \in Span, return_span(s) PROVE TouchesOnly(s)
  <2> DEFINE g == returned(Heap, s)
  <2>1. Good(Heap, {}) /\ HeldIn(Heap, s) /\ HasFresh(Heap)
    BY <1>2, HeapFields DEF return_span, IInv, HeldIn
  <2>2. Reused(Heap, g, s)
    BY <2>1, ReturnedGood
  <2>3. Heap' = g
    BY <1>2, ReturnStep
  <2> HIDE DEF g
  <2> QED
    BY <2>2, <2>3 DEF Reused, TouchesOnly
<1>3. ASSUME NEW s \in Span, NEW ok \in BOOLEAN, deallocate_span(s, ok)
      PROVE  TouchesOnly(s)
  BY <1>3, DeallocateStep DEF TouchesOnly
<1>4. ASSUME NEW unmap_failed \in SUBSET Span, destroy(unmap_failed)
      PROVE  TouchesOnly(NULL)
  BY <1>4, DestroyStep DEF TouchesOnly
<1>5. CASE UNCHANGED vars
  BY <1>5, IInvUnchanged DEF TouchesOnly
<1> QED
  BY <1>1, <1>2, <1>3, <1>4, <1>5 DEF Next

(* Coalescing, carving and splitting leave every span alone that a caller  *)
(* holds and did not pass to the operation.                                *)
THEOREM HeldSpansSafe == Spec => HeldSpansUntouched
<1> DEFINE A == \A s, t \in Span :
              s # t /\ Held(s) /\ Held(t) =>
                  \/ Held(s)' /\ Extent(s)' = Extent(s)
                  \/ Held(t)' /\ Extent(t)' = Extent(t)
<1>1. IInv /\ [Next]_vars => [A]_vars
  <2> SUFFICES ASSUME IInv, [Next]_vars,
                      NEW s \in Span, NEW t \in Span, s # t, Held(s), Held(t)
               PROVE  \/ Held(s)' /\ Extent(s)' = Extent(s)
                      \/ Held(t)' /\ Extent(t)' = Extent(t)
    OBVIOUS
  <2>1. PICK x : TouchesOnly(x)
    BY NextTouches
  <2>2. \A u \in Span : Held(u) /\ u # x => span'[u] = span[u]
    <3>1. Heap'.span = span'
      BY DEF Heap
    <3> QED
      BY <2>1, <3>1, HeapFields DEF TouchesOnly, Held, HeldIn
  <2> QED
    BY <2>2 DEF Held, Extent
<1> QED
  BY <1>1, Invariant, PTL DEF Spec, HeldSpansUntouched

(* Only return_span makes a free span of a held one.                       *)
LEMMA FreedByReturn ==
    ASSUME IInv, [Next]_vars, NEW s \in Span, HeldIn(Heap, s),
           Heap'.span[s].live, Heap'.span[s].is_free
    PROVE  return_span(s)
<1>1. ASSUME NEW n \in 0 .. MAX_PAGES + 1, NEW size \in Sizes,
             NEW ret \in Span \cup {NULL}, allocate_span(n, size, ret)
      PROVE  FALSE
  <2>1. CASE allocate_span_refused(n, ret)
    BY <2>1, IInvUnchanged DEF allocate_span_refused, HeldIn
  <2>2. CASE allocate_span_reuse(n, size, ret)
    <3>1. Reused(Heap, Heap', ret) /\ ~HeldIn(Heap, ret)
      BY <2>2, ReuseStep
    <3> QED
      BY <3>1 DEF Reused, HeldIn
  <2>3. CASE allocate_span_mmap(n, size, ret)
    <3>1. /\ \A t \in Span \ {ret} : Heap'.span[t] = Heap.span[t]
          /\ ~Heap.span[ret].live
      BY <2>3, MmapStep
    <3> QED
      BY <3>1 DEF HeldIn
  <2>4. CASE allocate_span_mmap_failed(n, ret)
    BY <2>4, IInvUnchanged DEF allocate_span_mmap_failed, HeldIn
  <2> QED
    BY <1>1, <2>1, <2>2, <2>3, <2>4 DEF allocate_span
<1>2. ASSUME NEW t \in Span, return_span(t) PROVE s = t
  <2> DEFINE g == returned(Heap, t)
  <2>1. Good(Heap, {}) /\ HeldIn(Heap, t) /\ HasFresh(Heap)
    BY <1>2, HeapFields DEF return_span, IInv, HeldIn
  <2>2. Reused(Heap, g, t)
    BY <2>1, ReturnedGood
  <2>3. Heap' = g
    BY <1>2, ReturnStep
  <2> HIDE DEF g
  <2> QED
    BY <2>2, <2>3 DEF Reused, HeldIn
<1>3. ASSUME NEW t \in Span, NEW ok \in BOOLEAN, deallocate_span(t, ok)
      PROVE  FALSE
  <2>1. /\ ~Heap'.span[t].live
        /\ \A u \in Span \ {t} : Heap'.span[u] = Heap.span[u]
    BY <1>3, DeallocateStep
  <2> QED
    BY <2>1 DEF HeldIn
<1>4. ASSUME NEW unmap_failed \in SUBSET Span, destroy(unmap_failed)
      PROVE  FALSE
  BY <1>4, DestroyStep
<1>5. CASE UNCHANGED vars
  BY <1>5, IInvUnchanged DEF HeldIn
<1> QED
  BY <1>1, <1>2, <1>3, <1>4, <1>5 DEF Next

(* Where a returned span meets a free neighbour, coalesce and carve leave  *)
(* one span on both sides of the border, or one of MAX_PAGES pages below.  *)
THEOREM NeighboursMerged == Spec => MergesNeighbours
<1> DEFINE A == \A s \in Span :
          Held(s) /\ span'[s].live /\ span'[s].is_free =>
              \A p \in {span[s].start - 1, span[s].start + span[s].num_pages - 1} :
                  LET below == page_map'[p]
                      above == page_map'[p + 1]
                  IN  /\ {p, p + 1} \subseteq Page
                      /\ NULL \notin {below, above}
                      /\ span'[below].is_free
                      /\ span'[above].is_free
                      => \/ below = above
                         \/ span'[below].num_pages = MAX_PAGES
<1>1. IInv /\ [Next]_vars => [A]_vars
  <2> SUFFICES ASSUME IInv, [Next]_vars,
                      NEW s \in Span, Held(s), span'[s].live, span'[s].is_free,
                      NEW p \in {span[s].start - 1,
                                 span[s].start + span[s].num_pages - 1},
                      {p, p + 1} \subseteq Page,
                      NULL \notin {page_map'[p], page_map'[p + 1]},
                      span'[page_map'[p]].is_free,
                      span'[page_map'[p + 1]].is_free
               PROVE  \/ page_map'[p] = page_map'[p + 1]
                      \/ span'[page_map'[p]].num_pages = MAX_PAGES
    OBVIOUS
  <2>1. Heap'.span = span' /\ Heap'.page_map = page_map'
    BY DEF Heap
  <2>2. HeldIn(Heap, s) /\ p \in {Heap.span[s].start - 1, EndIn(Heap, s) - 1}
    <3>1. Heap.span[s] = span[s]
      BY HeapFields
    <3>2. HeldIn(Heap, s)
      BY <3>1 DEF Held, HeldIn
    <3>3. EndIn(Heap, s) = span[s].start + span[s].num_pages
      BY <3>1 DEF EndIn
    <3>4. Heap.span[s].start \in Nat /\ Heap.span[s].num_pages \in Nat
      BY SpanFields DEF IInv, Good
    <3>5. EndIn(Heap, s) \in Nat
      BY <3>4 DEF EndIn
    <3>6. p \in {Heap.span[s].start - 1, EndIn(Heap, s) - 1}
      BY <3>1, <3>3, <3>4, <3>5
    <3> QED
      BY <3>2, <3>6
  <2>3. return_span(s)
    BY <2>1, <2>2, FreedByReturn
  <2>4. Heap' = returned(Heap, s) /\ IInv'
    BY <2>3, ReturnStep
  <2>5. Good(Heap, {}) /\ HasFresh(Heap)
    BY <2>3 DEF return_span, IInv
  <2>6. Good(Heap', {})
    BY <2>4 DEF IInv
  <2>7. page_map'[p] \in Span /\ page_map'[p + 1] \in Span
    BY <2>1, <2>6 DEF Good, HeapType
  <2> QED
    BY <2>1, <2>2, <2>4, <2>5, <2>7, BordersMerged
<1> QED
  BY <1>1, Invariant, PTL DEF Spec, MergesNeighbours

-----------------------------------------------------------------------------
(* PageHeap implements PageAllocSpec.  The extents the abstract            *)
(* specification calls held are those of the spans that are live and not   *)
(* free.                                                                   *)

HeldExtents == {Extent(s) : s \in {t \in Span : Held(t)}}

ExtentPages(e) == e[1] .. e[1] + e[2] - 1

(* The pages of a span and the pages of its extent are the same.           *)
LEMMA SpanPages ==
    /\ \A s \in Span : ExtentPages(Extent(s)) = PagesOf(Heap, s)
    /\ \A s \in Span : ExtentPages(Extent(s)') = PagesOf(Heap', s)
<1>1. Heap.span = span /\ Heap'.span = span'
  BY DEF Heap
<1> QED
  BY <1>1 DEF ExtentPages, Extent, PagesOf

LEMMA HeldFields ==
    \A s \in Span : (Held(s) <=> HeldIn(Heap, s)) /\ (Held(s)' <=> HeldIn(Heap', s))
<1>1. Heap.span = span /\ Heap'.span = span'
  BY DEF Heap
<1> QED
  BY <1>1 DEF Held, HeldIn

(* The extent of a live span is a nonempty interval of pages.              *)
LiveExtent(h, s) ==
    /\ h.span[s].start \in Page
    /\ h.span[s].num_pages \in 1 .. MAX_PAGES
    /\ PagesOf(h, s) \subseteq Page
    /\ h.span[s].start \in PagesOf(h, s)

LEMMA LiveExtents ==
    ASSUME NEW h, Good(h, {}), NEW s \in Span, h.span[s].live
    PROVE  LiveExtent(h, s)
<1>1. h \in HeapType /\ LengthsOK(h, {})
  BY DEF Good
<1>2. h.span[s].start \in Nat /\ h.span[s].num_pages \in Nat
  BY <1>1, SpanFields
<1>3. /\ h.span[s].start >= 1 /\ h.span[s].num_pages >= 1
      /\ h.span[s].start + h.span[s].num_pages - 1 <= NumPages
      /\ h.span[s].num_pages <= MAX_PAGES
  BY <1>1 DEF LengthsOK
<1> QED
  BY <1>2, <1>3, PageHeapAssumption DEF LiveExtent, PagesOf, Page

(* Two live spans share no page.                                           *)
LEMMA LiveDisjoint ==
    ASSUME NEW h, Good(h, {}), NEW s \in Span, NEW t \in Span, s # t,
           h.span[s].live, h.span[t].live
    PROVE  PagesOf(h, s) \cap PagesOf(h, t) = {}
<1> SUFFICES ASSUME NEW p \in PagesOf(h, s), p \in PagesOf(h, t) PROVE FALSE
  OBVIOUS
<1>1. p \in Page
  BY LiveExtents DEF LiveExtent
<1> QED
  BY <1>1 DEF Good, MapOK

-----------------------------------------------------------------------------
(* What a step that touches one span does to the set of held extents.      *)

(* All held spans but x, with their extents, are the same after the step.  *)
LEMMA OthersHeld ==
    ASSUME NEW x, TouchesOnly(x)
    PROVE  \A t \in Span \ {x} : /\ Held(t) <=> Held(t)'
                                 /\ Held(t) => Extent(t)' = Extent(t)
<1>1. Heap.span = span /\ Heap'.span = span'
  BY DEF Heap
<1> QED
  BY <1>1 DEF TouchesOnly, HeldIn, Held, Extent

LEMMA HeldSame ==
    ASSUME NEW x, TouchesOnly(x),
           x \in Span => ~Held(x) /\ ~Held(x)'
    PROVE  HeldExtents' = HeldExtents
<1>1. \A t \in Span : (Held(t) <=> Held(t)') /\ (Held(t) => Extent(t)' = Extent(t))
  BY OthersHeld
<1> QED
  BY <1>1 DEF HeldExtents

LEMMA HeldAdded ==
    ASSUME NEW x \in Span, TouchesOnly(x), ~Held(x), Held(x)'
    PROVE  HeldExtents' = HeldExtents \cup {Extent(x)'}
<1>1. \A t \in Span \ {x} : /\ Held(t) <=> Held(t)'
                            /\ Held(t) => Extent(t)' = Extent(t)
  BY OthersHeld
<1> QED
  BY <1>1 DEF HeldExtents

(* Held spans have different extents: they share no page.                  *)
LEMMA ExtentsDiffer ==
    ASSUME Good(Heap, {}), NEW s \in Span, NEW t \in Span, s # t,
           Held(s), Held(t)
    PROVE  Extent(s) # Extent(t)
<1>1. Heap.span[s].live /\ Heap.span[t].live
  BY HeldFields DEF HeldIn
<1>2. PagesOf(Heap, s) \cap PagesOf(Heap, t) = {}
  BY <1>1, LiveDisjoint
<1>3. PagesOf(Heap, s) # {}
  BY <1>1, LiveExtents DEF LiveExtent
<1>4. PagesOf(Heap, s) # PagesOf(Heap, t)
  BY <1>2, <1>3
<1> QED
  BY <1>4, SpanPages

LEMMA HeldRemoved ==
    ASSUME Good(Heap, {}), NEW x \in Span, TouchesOnly(x), Held(x), ~Held(x)'
    PROVE  HeldExtents' = HeldExtents \ {Extent(x)}
<1>1. \A t \in Span \ {x} : /\ Held(t) <=> Held(t)'
                            /\ Held(t) => Extent(t)' = Extent(t)
  BY OthersHeld
<1>2. \A t \in Span \ {x} : Held(t) => Extent(t) # Extent(x)
  BY ExtentsDiffer
<1> QED
  BY <1>1, <1>2 DEF HeldExtents

(* No page of s is in an extent held by anyone else.                       *)
LEMMA ApartFromHeld ==
    ASSUME Good(Heap, {}), NEW s \in Span, Heap.span[s].live,
           NEW e \in HeldExtents, Held(s) => e # Extent(s)
    PROVE  PagesOf(Heap, s) \cap ExtentPages(e) = {}
<1>1. PICK t \in Span : Held(t) /\ e = Extent(t)
  BY DEF HeldExtents
<1>2. t # s /\ Heap.span[t].live
  BY <1>1, HeldFields DEF HeldIn
<1>3. PagesOf(Heap, s) \cap PagesOf(Heap, t) = {}
  BY <1>2, LiveDisjoint
<1> QED
  BY <1>1, <1>3, SpanPages

-----------------------------------------------------------------------------
(* Every step of the page heap is a step the promise allows.               *)

(* allocate_span, reusing a free span or mapping a new one: ret is held    *)
(* from now on, and the pages it gets are those of no other held extent.   *)
LEMMA AcquireMaps ==
    ASSUME IInv, IInv', NEW ret \in Span, TouchesOnly(ret),
           ~HeldIn(Heap, ret), HeldIn(Heap', ret),
           mapped' = mapped \cup PagesOf(Heap', ret)
    PROVE  Promise!SpecNext
<1> DEFINE e == Extent(ret)'
<1>1. ~Held(ret) /\ Held(ret)'
  BY HeldFields
<1>2. HeldExtents' = HeldExtents \cup {e}
  BY <1>1, HeldAdded
<1>3. Good(Heap', {})
  BY DEF IInv
<1>4. LiveExtent(Heap', ret)
  BY <1>3, LiveExtents DEF HeldIn
<1>5. e = <<Heap'.span[ret].start, Heap'.span[ret].num_pages>>
  BY DEF Extent, Heap
<1>6. ExtentPages(e) = PagesOf(Heap', ret)
  BY SpanPages
<1> HIDE DEF e
<1>7. \A x \in HeldExtents : ExtentPages(e) \cap ExtentPages(x) = {}
  <2> TAKE x \in HeldExtents
  <2>1. PICK t \in Span : Held(t) /\ x = Extent(t)
    BY DEF HeldExtents
  <2>2. t # ret /\ Held(t)' /\ x = Extent(t)'
    BY <1>1, <2>1, OthersHeld
  <2>3. Heap'.span[t].live /\ Heap'.span[ret].live
    BY <2>2, HeldFields DEF HeldIn
  <2>4. PagesOf(Heap', ret) \cap PagesOf(Heap', t) = {}
    BY <1>3, <2>2, <2>3, LiveDisjoint
  <2> QED
    BY <1>6, <2>2, <2>4, SpanPages
<1>8. Promise!Acquire(e)
  <2>1. ExtentPages(e) \cap UNION {ExtentPages(x) : x \in HeldExtents} = {}
    BY <1>7
  <2> QED
    BY <1>2, <1>6, <2>1
       DEF Promise!Acquire, Promise!HeldPages, Promise!ExtentPages, ExtentPages,
           HeldExtents
<1> QED
  BY <1>4, <1>5, <1>8 DEF Promise!SpecNext, LiveExtent, Page

LEMMA ReleaseMaps ==
    ASSUME IInv, NEW s \in Span, TouchesOnly(s), HeldIn(Heap, s),
           ~HeldIn(Heap', s), UNCHANGED mapped
    PROVE  Promise!SpecNext
<1>1. Held(s) /\ ~Held(s)' /\ Good(Heap, {})
  BY HeldFields DEF IInv
<1>2. HeldExtents' = HeldExtents \ {Extent(s)} /\ Extent(s) \in HeldExtents
  BY <1>1, HeldRemoved DEF HeldExtents
<1>3. Promise!Release(Extent(s))
  BY <1>2 DEF Promise!Release, HeldExtents
<1> QED
  BY <1>2, <1>3 DEF Promise!SpecNext, HeldExtents

(* deallocate_span: of a held span or of a free one, with munmap failing   *)
(* or not.                                                                 *)
LEMMA UnmapMaps ==
    ASSUME IInv, IInv', NEW s \in Span, NEW ok \in BOOLEAN, deallocate_span(s, ok)
    PROVE  Promise!SpecNext
<1>1. /\ ~Heap'.span[s].live
      /\ \A t \in Span \ {s} : Heap'.span[t] = Heap.span[t]
  BY DeallocateStep
<1>2. /\ Heap.span[s].live
      /\ mapped' = IF ok THEN mapped \ PagesOf(Heap, s) ELSE mapped
  BY HeapFields DEF deallocate_span
<1>3. Good(Heap, {}) /\ TouchesOnly(s) /\ ~Held(s)'
  BY <1>1, HeldFields DEF IInv, TouchesOnly, HeldIn
<1> DEFINE e == IF Held(s) THEN Extent(s) ELSE <<0, 0>>
<1> DEFINE gone == IF ok THEN PagesOf(Heap, s) ELSE {}
<1>4. HeldExtents' = HeldExtents \ {e} /\ e \in HeldExtents \cup {<<0, 0>>}
  <2>1. CASE Held(s)
    <3>1. HeldExtents' = HeldExtents \ {Extent(s)} /\ Extent(s) \in HeldExtents
      BY <1>3, <2>1, HeldRemoved DEF HeldExtents
    <3> QED
      BY <2>1, <3>1
  <2>2. CASE ~Held(s)
    <3>1. HeldExtents' = HeldExtents
      BY <1>3, <2>2, HeldSame
    <3>2. <<0, 0>> \notin HeldExtents
      <4> SUFFICES ASSUME NEW t \in Span, Held(t), Extent(t) = <<0, 0>> PROVE FALSE
        BY DEF HeldExtents
      <4>1. Heap.span[t].live
        BY HeldFields DEF HeldIn
      <4>2. Heap.span[t].start \in Page
        BY <1>3, <4>1, LiveExtents DEF LiveExtent
      <4>3. Heap.span[t].start = 0
        BY HeapFields DEF Extent
      <4> QED
        BY <4>2, <4>3 DEF Page
    <3> QED
      BY <2>2, <3>1, <3>2
  <2> QED
    BY <2>1, <2>2
<1>5. \A x \in HeldExtents' : PagesOf(Heap, s) \cap ExtentPages(x) = {}
  <2> TAKE x \in HeldExtents'
  <2>1. x \in HeldExtents /\ (Held(s) => x # Extent(s))
    BY <1>4
  <2> QED
    BY <1>2, <1>3, <2>1, ApartFromHeld
<1>6. PagesOf(Heap, s) \subseteq mapped
  <2>1. \A p \in PagesOf(Heap, s) : p \in Page /\ page_map[p] = s
    BY <1>2, <1>3, LiveExtents, HeapFields DEF LiveExtent, Good, MapOK
  <2>2. s # NULL
    BY PageHeapAssumption
  <2> QED
    BY <2>1, <2>2 DEF IInv, Accounted
<1>7. gone \in SUBSET mapped /\ mapped' = mapped \ gone
  BY <1>2, <1>6
<1>8. gone \cap UNION {ExtentPages(x) : x \in HeldExtents'} = {}
  BY <1>5
<1> HIDE DEF e, gone
<1>9. Promise!Unmap(gone, e)
  BY <1>4, <1>7, <1>8 DEF Promise!Unmap, Promise!ExtentPages, ExtentPages, HeldExtents
<1> QED
  BY <1>4, <1>7, <1>9 DEF Promise!SpecNext, HeldExtents

(* The destructor runs when nothing is held.                               *)
LEMMA DestroyMaps ==
    ASSUME IInv, NEW unmap_failed \in SUBSET Span, destroy(unmap_failed)
    PROVE  Promise!SpecNext
<1>1. \A s \in Span : ~Held(s) /\ ~Held(s)'
  BY DestroyStep, HeldFields
<1>2. HeldExtents = {} /\ HeldExtents' = {}
  BY <1>1 DEF HeldExtents
<1> DEFINE gone == mapped \ mapped'
<1>3. mapped' \subseteq mapped
  BY DEF destroy
<1>4. gone \in SUBSET mapped /\ mapped' = mapped \ gone
  BY <1>3
<1> HIDE DEF gone
<1>5. Promise!Unmap(gone, <<0, 0>>)
  BY <1>2, <1>4 DEF Promise!Unmap, HeldExtents
<1> QED
  BY <1>4, <1>5 DEF Promise!SpecNext

LEMMA NextMaps == IInv /\ IInv' /\ [Next]_vars => [Promise!SpecNext]_(Promise!specvars)
<1> SUFFICES ASSUME IInv, IInv', [Next]_vars
             PROVE  Promise!SpecNext \/ UNCHANGED <<HeldExtents, mapped>>
  BY DEF Promise!specvars, HeldExtents
<1>1. ASSUME UNCHANGED vars PROVE UNCHANGED <<HeldExtents, mapped>>
  BY <1>1 DEF vars, HeldExtents, Held, Extent
<1>2. ASSUME NEW n \in 0 .. MAX_PAGES + 1, NEW size \in Sizes,
             NEW ret \in Span \cup {NULL}, allocate_span(n, size, ret)
      PROVE  Promise!SpecNext \/ UNCHANGED <<HeldExtents, mapped>>
  <2>1. CASE allocate_span_refused(n, ret) \/ allocate_span_mmap_failed(n, ret)
    BY <1>1, <2>1 DEF allocate_span_refused, allocate_span_mmap_failed
  <2>2. CASE allocate_span_reuse(n, size, ret)
    <3>1. /\ ret \in Span /\ Reused(Heap, Heap', ret)
          /\ ~HeldIn(Heap, ret) /\ HeldIn(Heap', ret)
      BY <2>2, ReuseStep
    <3>2. TouchesOnly(ret)
      BY <3>1 DEF Reused, TouchesOnly
    <3>3. mapped' = mapped
      BY <2>2 DEF allocate_span_reuse
    <3>4. PagesOf(Heap', ret) \subseteq mapped
      <4>1. Good(Heap', {}) /\ Heap'.span[ret].live
        BY <3>1 DEF IInv, HeldIn
      <4>2. \A p \in PagesOf(Heap', ret) : p \in Page /\ Heap'.page_map[p] = ret
        BY <3>1, <4>1, LiveExtents DEF LiveExtent, Good, MapOK
      <4>3. Heap'.page_map = page_map' /\ ret # NULL
        BY <3>1, PageHeapAssumption DEF Heap
      <4> QED
        BY <3>3, <4>2, <4>3 DEF IInv, Accounted
    <3> QED
      BY <3>1, <3>2, <3>3, <3>4, AcquireMaps
  <2>3. CASE allocate_span_mmap(n, size, ret)
    <3>1. /\ ret \in Span
          /\ \A t \in Span \ {ret} : Heap'.span[t] = Heap.span[t]
          /\ ~Heap.span[ret].live /\ HeldIn(Heap', ret)
          /\ mapped' = mapped \cup PagesOf(Heap', ret)
      BY <2>3, MmapStep
    <3>2. TouchesOnly(ret) /\ ~HeldIn(Heap, ret)
      BY <3>1 DEF TouchesOnly, HeldIn
    <3> QED
      BY <3>1, <3>2, AcquireMaps
  <2> QED
    BY <1>2, <2>1, <2>2, <2>3 DEF allocate_span
<1>3. ASSUME NEW s \in Span, return_span(s) PROVE Promise!SpecNext
  <2> DEFINE g == returned(Heap, s)
  <2>1. Good(Heap, {}) /\ HeldIn(Heap, s) /\ HasFresh(Heap) /\ mapped' = mapped
    BY <1>3, HeapFields DEF return_span, IInv, HeldIn
  <2>2. Reused(Heap, g, s) /\ g.span[s].live /\ g.span[s].is_free
    BY <2>1, ReturnedGood
  <2>3. Heap' = g
    BY <1>3, ReturnStep
  <2> HIDE DEF g
  <2>4. TouchesOnly(s) /\ ~HeldIn(Heap', s)
    BY <2>2, <2>3 DEF Reused, TouchesOnly, HeldIn
  <2> QED
    BY <2>1, <2>4, ReleaseMaps
<1> QED
  BY <1>1, <1>2, <1>3, UnmapMaps, DestroyMaps DEF Next

(* The page heap implements PageAllocSpec: an extent handed out overlaps   *)
(* no other held extent, and its pages stay mapped until its holder gives  *)
(* it back, whatever is split, merged, carved or unmapped meanwhile.       *)
THEOREM PromiseKept == Spec => KeepsPromise
<1>1. Init => Promise!SpecInit
  <2> SUFFICES ASSUME Init PROVE HeldExtents = {} /\ mapped = {}
    BY DEF Promise!SpecInit, HeldExtents
  <2>1. \A s \in Span : ~Held(s)
    BY DEF Init, Held, Deleted
  <2> QED
    BY <2>1 DEF Init, HeldExtents
<1> QED
  BY <1>1, Invariant, NextMaps, PTL DEF Spec, KeepsPromise, Promise!PromiseSpec

=============================================================================
