----------------------- MODULE CentralFreeListProofs -----------------------
(***************************************************************************)
(* Proofs about CentralFreeList, for any number of spans, pages, classes   *)
(* and threads and any sizes: spans belong to one list, objects are in one *)
(* place, and a deallocate may use the span it looked up before the lock.  *)
(***************************************************************************)
EXTENDS SpanObjectsProofs, PageHeapProofs, WellFoundedInduction

-----------------------------------------------------------------------------
(* The inductive invariant *)

ListType == [span_list : Seq(Span), current_span : Span \cup {NULL},
             num_free : Int]

Call == [class : Class, ptr : Nat, span : Span]

ListsTyped ==
    /\ cfl \in [Class -> ListType]
    /\ carved \in [Span -> Fields]
    /\ held \in [Class -> SUBSET Nat]
    /\ pending \in [Thread -> Call \cup {NoCall}]
    /\ tearing \in BOOLEAN

(* Span s was fetched for class c and divided into objects of its size.    *)
DividedFor(c, s) ==
    /\ SizeClasses[c].size # 0
    /\ span[s].size = SizeClasses[c].size
    /\ span[s].num_pages = SizeClasses[c].pages
    /\ carved[s].total_objects =
          object_count(span[s].num_pages, SizeClasses[c].size)

ObjectAt(c, s, i) ==
    index_to_ptr(i, span_base(span[s].start), SizeClasses[c].size)

(* The objects of class c that were carved and are not free.               *)
InUse(c) == UNION {PtrsOf(c, s, UsedIndexes(carved[s])) : s \in SpanListOf(c)}

FreeObjects(c) ==
    UNION {{s} \X FreeIndexes(carved[s]) : s \in SpanListOf(c)}

(* A pointer on its way back is in no other caller's hands, and the page   *)
(* map still leads to the span that was looked up.                         *)
ReturnedOnce(t) ==
    pending[t] # NoCall =>
        /\ pending[t].ptr \notin held[pending[t].class]
        /\ \A u \in Thread \ {t} :
              pending[u] # NoCall /\ pending[u].class = pending[t].class =>
                  pending[u].ptr # pending[t].ptr
        /\ span_for(pending[t].ptr \div PAGE_SIZE) = pending[t].span

ListExact(c) ==
    /\ Out(c) = InUse(c)
    /\ IsFiniteSet(FreeObjects(c))
    /\ cfl[c].num_free = Cardinality(FreeObjects(c))
    /\ \A s \in SpanListOf(c) :
          carved[s].next_uninitialized = carved[s].total_objects =>
              carved[s].total_objects = 0 \/ UsedIndexes(carved[s]) # {}

Quiet ==
    /\ \A c \in Class : held[c] = {}
    /\ \A t \in Thread : pending[t] = NoCall

ListsInv ==
    /\ IInv
    /\ ListsTyped
    /\ \A s \in Span : FieldsOK(carved[s])
    /\ SpanOwnership
    /\ \A c \in Class : \A s \in SpanListOf(c) : DividedFor(c, s)
    /\ tearing => Quiet
    /\ ~tearing => (\A c \in Class : ListExact(c)) /\ \A t \in Thread : ReturnedOnce(t)

-----------------------------------------------------------------------------
(* Where objects lie *)

LEMMA ConstantTypes ==
    ASSUME NEW c \in Class
    PROVE  /\ SizeClasses[c].size \in Nat /\ SizeClasses[c].pages \in Nat
           /\ SizeClasses[c].size \in Sizes
           /\ PAGE_SIZE \in Nat \ {0} /\ c # NULL
BY CentralFreeListAssumption

(* Object i of a span with n pages from page first on, up to its last      *)
(* byte, is on the pages of the span.                                      *)
LEMMA ObjectPages ==
    ASSUME NEW first \in Nat, NEW n \in Nat, NEW size \in Nat \ {0}, NEW i \in Nat,
           i < object_count(n, size),
           NEW b \in Nat,
           index_to_ptr(i, span_base(first), size) <= b,
           b < index_to_ptr(i, span_base(first), size) + size
    PROVE  b \div PAGE_SIZE \in first .. first + n - 1
<1> DEFINE P == PAGE_SIZE
           m == n * P
           count == m \div size
           q == b \div P
<1>1. P \in Nat \ {0} /\ m \in Nat
  BY CentralFreeListAssumption
<1>2. /\ i < count /\ first * P + i * size <= b
      /\ b < first * P + i * size + size
  BY DEF object_count, index_to_ptr, span_base
<1> HIDE DEF m
<1>3. count \in Nat /\ count * size <= m
  BY <1>1, DivBounds
<1> HIDE DEF count
<1>4. (i + 1) * size <= count * size
  BY <1>2, <1>3, Monotone
<1>5. (i + 1) * size = i * size + size /\ i * size \in Nat
  OBVIOUS
<1>6. first * P \in Nat /\ first * P <= b /\ b < first * P + m
  BY <1>1, <1>2, <1>3, <1>4, <1>5
<1>7. first * P + m = (first + n) * P
  BY <1>1 DEF m
<1>8. q \in Nat /\ q * P <= b /\ b < q * P + P
  BY <1>1, DivBounds
<1> HIDE DEF q, P
<1>9. (q + 1) * P = q * P + P
  BY <1>1, <1>8
<1>10. first < q + 1
  <2> SUFFICES ASSUME q + 1 <= first PROVE FALSE
    BY <1>8
  <2>1. (q + 1) * P <= first * P
    BY <1>1, <1>8, Monotone
  <2> QED
    BY <1>1, <1>6, <1>8, <1>9, <2>1
<1>11. q < first + n
  <2> SUFFICES ASSUME first + n <= q PROVE FALSE
    BY <1>8
  <2>1. (first + n) * P <= q * P
    BY <1>1, <1>8, Monotone
  <2> QED
    BY <1>1, <1>6, <1>7, <1>8, <2>1
<1> QED
  BY <1>8, <1>10, <1>11 DEF q, P

AddressIn(h, c, s, i) ==
    index_to_ptr(i, span_base(h.span[s].start), SizeClasses[c].size)

(* i is an object of a live span s of h, divided for class c.              *)
ObjectIn(h, c, s, i) ==
    /\ s \in Span /\ h.span[s].live /\ i \in Nat
    /\ i < object_count(h.span[s].num_pages, SizeClasses[c].size)

LEMMA AddressType ==
    ASSUME NEW h, h \in HeapType, NEW c \in Class, NEW s \in Span, NEW i \in Nat
    PROVE  AddressIn(h, c, s, i) \in Nat
<1>1. h.span[s].start \in Nat
  BY SpanFields
<1> QED
  BY <1>1, ConstantTypes DEF AddressIn, index_to_ptr, span_base

(* From any byte of an object the page map leads to its span.              *)
LEMMA ByteFound ==
    ASSUME NEW h, Good(h, {}), NEW c \in Class, SizeClasses[c].size # 0,
           NEW s, NEW i, ObjectIn(h, c, s, i), NEW b \in Nat,
           AddressIn(h, c, s, i) <= b,
           b < AddressIn(h, c, s, i) + SizeClasses[c].size
    PROVE  /\ b \div PAGE_SIZE \in Page
           /\ lookup(h, b \div PAGE_SIZE) = s
           /\ h.page_map[b \div PAGE_SIZE] = s
<1>1. h \in HeapType /\ MapOK(h) /\ s \in Span /\ h.span[s].live /\ i \in Nat
  BY DEF Good, ObjectIn
<1>2. h.span[s].start \in Nat /\ h.span[s].num_pages \in Nat
  BY <1>1, SpanFields
<1>3. b \div PAGE_SIZE \in PagesOf(h, s)
  BY <1>1, <1>2, ConstantTypes, ObjectPages DEF ObjectIn, AddressIn, PagesOf
<1>4. b \div PAGE_SIZE \in Page
  BY <1>1, <1>3, LiveExtents DEF LiveExtent
<1> QED
  BY <1>1, <1>3, <1>4 DEF MapOK, lookup

(* In particular from its address.                                         *)
LEMMA AddressFound ==
    ASSUME NEW h, Good(h, {}), NEW c \in Class, SizeClasses[c].size # 0,
           NEW s, NEW i, ObjectIn(h, c, s, i)
    PROVE  lookup(h, AddressIn(h, c, s, i) \div PAGE_SIZE) = s
<1>1. AddressIn(h, c, s, i) \in Nat
  BY AddressType DEF ObjectIn, Good
<1>2. SizeClasses[c].size \in Nat
  BY ConstantTypes
<1> DEFINE b == AddressIn(h, c, s, i)
<1>3. b <= b /\ b < b + SizeClasses[c].size
  BY <1>1, <1>2
<1> QED
  BY <1>1, <1>3, ByteFound

LEMMA SameProduct ==
    ASSUME NEW i \in Nat, NEW j \in Nat, NEW w \in Nat \ {0}, i * w = j * w
    PROVE  i = j
<1>1. i * w + 0 = j * w + 0
  OBVIOUS
<1> QED
  BY <1>1, UniqueQuotient

(* Different objects have different addresses.                             *)
LEMMA SameObject ==
    ASSUME NEW h, Good(h, {}), NEW c \in Class, SizeClasses[c].size # 0,
           NEW s, NEW i, ObjectIn(h, c, s, i),
           NEW t, NEW j, ObjectIn(h, c, t, j),
           AddressIn(h, c, s, i) = AddressIn(h, c, t, j)
    PROVE  s = t /\ i = j
<1>1. s = t
  BY AddressFound
<1>2. h.span[s].start \in Nat /\ i \in Nat /\ j \in Nat
  BY SpanFields DEF ObjectIn, Good
<1> DEFINE size == SizeClasses[c].size
           base == span_base(h.span[s].start)
<1>3. size \in Nat \ {0} /\ base \in Nat
  BY <1>2, ConstantTypes DEF span_base
<1>4. base + i * size = base + j * size
  BY <1>1 DEF AddressIn, index_to_ptr
<1> HIDE DEF size, base
<1>5. i * size = j * size
  <2>1. i * size \in Nat /\ j * size \in Nat
    BY <1>2, <1>3
  <2> QED
    BY <1>3, <1>4, <2>1
<1> QED
  BY <1>1, <1>2, <1>3, <1>5, SameProduct

(* Objects of different spans share no byte.                               *)
LEMMA BytesApart ==
    ASSUME NEW h, Good(h, {}),
           NEW c \in Class, SizeClasses[c].size # 0,
           NEW d \in Class, SizeClasses[d].size # 0,
           NEW s, NEW i, ObjectIn(h, c, s, i),
           NEW t, NEW j, ObjectIn(h, d, t, j), s # t,
           NEW b \in Nat,
           AddressIn(h, c, s, i) <= b, b < AddressIn(h, c, s, i) + SizeClasses[c].size,
           AddressIn(h, d, t, j) <= b, b < AddressIn(h, d, t, j) + SizeClasses[d].size
    PROVE  FALSE
<1>1. lookup(h, b \div PAGE_SIZE) = s
  BY ByteFound
<1>2. lookup(h, b \div PAGE_SIZE) = t
  BY ByteFound
<1> QED
  BY <1>1, <1>2

(* deallocate finds the index that allocate started from: the cast to      *)
(* uint16_t cuts nothing off.                                              *)
LEMMA IndexRecovered ==
    ASSUME NEW h, h \in HeapType, NEW c \in Class, SizeClasses[c].size # 0,
           NEW s \in Span, NEW i \in Nat, i < 65536
    PROVE  ptr_to_index(AddressIn(h, c, s, i), span_base(h.span[s].start),
                        SizeClasses[c].size) = i
<1> DEFINE size == SizeClasses[c].size
           base == span_base(h.span[s].start)
           n == i * size
<1>1. size \in Nat \ {0} /\ base \in Nat
  BY SpanFields, ConstantTypes DEF span_base
<1>2. AddressIn(h, c, s, i) = base + n
  BY DEF AddressIn, index_to_ptr
<1> HIDE DEF base, size
<1>3. n \in Nat
  BY <1>1
<1>4. (base + n) - base = n
  BY <1>1, <1>3
<1>5. ptr_to_index(base + n, base, size) = (n \div size) % 65536
  BY <1>4 DEF ptr_to_index, uint16
<1>6. n \div size = i
  <2> DEFINE q == n \div size
             r == n % size
  <2> HIDE DEF n
  <2>1. r \in 0 .. size - 1 /\ n = q * size + r /\ q \in Nat
    <3>1. r \in 0 .. size - 1 /\ n = q * size + r
      BY <1>1, <1>3, Remainder
    <3>2. q \in Nat
      BY <1>1, <1>3, DivBounds
    <3> QED
      BY <3>1, <3>2
  <2> HIDE DEF q, r
  <2>2. q * size + r = i * size + 0 /\ r < size /\ 0 < size /\ r \in Nat
    BY <1>1, <2>1 DEF n
  <2>3. q = i
    BY <1>1, <2>1, <2>2, UniqueQuotient
  <2> QED
    BY <2>3 DEF q
<1>7. i % 65536 = i
  OBVIOUS
<1> QED
  BY <1>2, <1>5, <1>6, <1>7 DEF base, size

-----------------------------------------------------------------------------
(* What the lists rely on from the page heap *)

(* Every span but x that is held before or after the step is unchanged.    *)
SpansKept(x) ==
    \A t \in Span \ {x} : Held(t) \/ Held(t)' => span'[t] = span[t]

LEMMA HeldKept ==
    ASSUME NEW x, SpansKept(x)
    PROVE  \A t \in Span \ {x} : Held(t)' <=> Held(t)
BY DEF SpansKept, Held

LEMMA TouchesSpans ==
    ASSUME NEW x, TouchesOnly(x)
    PROVE  SpansKept(x)
<1>1. Heap.span = span /\ Heap'.span = span'
  BY DEF Heap
<1> QED
  BY <1>1, HeldFields DEF TouchesOnly, SpansKept

Fetched(s, n, size) ==
    /\ s \in Span /\ ~Held(s) /\ Held(s)'
    /\ span'[s].num_pages = n
    /\ span'[s].size = size
    /\ SpansKept(s)

(* A span that allocate_span returns was not held and is held now, with    *)
(* the size that was asked for.                                            *)
LEMMA FetchStep ==
    ASSUME IInv, NEW n, NEW size \in Sizes, NEW ret, ret # NULL,
           allocate_span(n, size, ret)
    PROVE  IInv' /\ Fetched(ret, n, size)
<1>1. Heap'.span = span'
  BY DEF Heap
<1>2. CASE allocate_span_reuse(n, size, ret)
  <2>1. /\ IInv' /\ ret \in Span /\ Reused(Heap, Heap', ret)
        /\ ~HeldIn(Heap, ret) /\ HeldIn(Heap', ret)
        /\ ForRequest(Heap', ret, n, size)
    BY <1>2, ReuseStep
  <2>2. TouchesOnly(ret)
    BY <2>1 DEF Reused, TouchesOnly
  <2>3. SpansKept(ret)
    BY <2>2, TouchesSpans
  <2> QED
    BY <1>1, <2>1, <2>3, HeldFields DEF Fetched, ForRequest
<1>3. CASE allocate_span_mmap(n, size, ret)
  <2>1. /\ IInv' /\ ret \in Span
        /\ \A t \in Span \ {ret} : Heap'.span[t] = Heap.span[t]
        /\ ~Heap.span[ret].live /\ HeldIn(Heap', ret)
        /\ ForRequest(Heap', ret, n, size)
    BY <1>3, MmapStep
  <2>2. TouchesOnly(ret) /\ ~HeldIn(Heap, ret)
    BY <2>1 DEF TouchesOnly, HeldIn
  <2>3. SpansKept(ret)
    BY <2>2, TouchesSpans
  <2> QED
    BY <1>1, <2>1, <2>2, <2>3, HeldFields DEF Fetched, ForRequest
<1> QED
  BY <1>2, <1>3 DEF allocate_span, allocate_span_refused, allocate_span_mmap_failed

(* A span that is returned was held and no longer is.                      *)
LEMMA ReleaseStep ==
    ASSUME IInv, NEW s \in Span, return_span(s)
    PROVE  IInv' /\ Held(s) /\ ~Held(s)' /\ SpansKept(s)
<1> DEFINE g == returned(Heap, s)
<1>1. Good(Heap, {}) /\ HeldIn(Heap, s) /\ HasFresh(Heap)
  BY HeapFields DEF return_span, IInv, HeldIn
<1>2. Reused(Heap, g, s) /\ g.span[s].live /\ g.span[s].is_free
  BY <1>1, ReturnedGood
<1>3. IInv' /\ Heap' = g
  BY ReturnStep
<1> HIDE DEF g
<1>4. TouchesOnly(s) /\ ~HeldIn(Heap', s)
  BY <1>2, <1>3 DEF Reused, TouchesOnly, HeldIn
<1> QED
  BY <1>1, <1>3, <1>4, HeldFields, TouchesSpans

(* ~PageHeap runs when no span is held.                                    *)
LEMMA UnmapStep ==
    ASSUME IInv, destroy({})
    PROVE  IInv' /\ \A s \in Span : ~Held(s) /\ ~Held(s)'
<1>1. IInv' /\ \A s \in Span : ~HeldIn(Heap, s) /\ ~HeldIn(Heap', s)
  BY DestroyStep
<1> QED
  BY <1>1, HeldFields

LEMMA HeapSame ==
    ASSUME IInv, UNCHANGED phvars
    PROVE  IInv' /\ Heap' = Heap /\ span' = span
<1>1. UNCHANGED vars
  BY DEF phvars
<1>2. IInv' /\ Heap' = Heap
  BY <1>1, IInvUnchanged
<1> QED
  BY <1>1, <1>2 DEF vars

-----------------------------------------------------------------------------
(* Span lists as sequences and as sets *)

(* l links the spans of S, each once.                                      *)
ListOf(l, S) ==
    /\ l \in Seq(Span)
    /\ {l[i] : i \in DOMAIN l} = S
    /\ \A i, j \in DOMAIN l : l[i] = l[j] => i = j

LEMMA EmptyLinks == ListOf(<<>>, {})
BY DEF ListOf

(* fetch_from_page_heap links the span in front.                           *)
LEMMA FrontLinks ==
    ASSUME NEW l, NEW S, ListOf(l, S), NEW s \in Span, s \notin S
    PROVE  ListOf(<<s>> \o l, S \cup {s})
<1> DEFINE g == <<s>> \o l
<1>1. l \in Seq(Span) /\ DOMAIN l = 1 .. Len(l) /\ Len(l) \in Nat
  BY LenProperties DEF ListOf
<1>2. <<s>> \in Seq(Span) /\ Len(<<s>>) = 1 /\ <<s>>[1] = s
  OBVIOUS
<1>3. /\ g \in Seq(Span) /\ Len(g) = 1 + Len(l)
      /\ \A i \in 1 .. 1 + Len(l) : g[i] = IF i <= 1 THEN <<s>>[i] ELSE l[i - 1]
  BY <1>1, <1>2, ConcatProperties
<1>4. DOMAIN g = 1 .. 1 + Len(l)
  BY <1>3, LenProperties
<1> HIDE DEF g
<1>5. g[1] = s
  BY <1>1, <1>2, <1>3
<1>6. \A i \in DOMAIN g : i # 1 => i - 1 \in DOMAIN l /\ g[i] = l[i - 1]
  BY <1>1, <1>3, <1>4
<1>7. \A i \in DOMAIN l : i + 1 \in DOMAIN g /\ g[i + 1] = l[i]
  BY <1>1, <1>3, <1>4
<1>8. 1 \in DOMAIN g
  BY <1>1, <1>4
<1>9. {g[i] : i \in DOMAIN g} = S \cup {s}
  <2>1. {l[i] : i \in DOMAIN l} = S
    BY DEF ListOf
  <2> QED
    BY <1>5, <1>6, <1>7, <1>8, <2>1
<1>10. \A i, j \in DOMAIN g : g[i] = g[j] => i = j
  <2> SUFFICES ASSUME NEW i \in DOMAIN g, NEW j \in DOMAIN g, g[i] = g[j]
               PROVE  i = j
    OBVIOUS
  <2>1. s \notin {l[k] : k \in DOMAIN l}
    BY DEF ListOf
  <2>2. CASE i = 1 \/ j = 1
    BY <1>5, <1>6, <2>1, <2>2
  <2>3. CASE i # 1 /\ j # 1
    <3>1. i - 1 \in DOMAIN l /\ j - 1 \in DOMAIN l /\ l[i - 1] = l[j - 1]
      BY <1>6, <2>3
    <3>2. i - 1 = j - 1
      BY <3>1 DEF ListOf
    <3> QED
      BY <1>4, <3>2
  <2> QED
    BY <2>2, <2>3
<1> QED
  BY <1>3, <1>9, <1>10 DEF ListOf, g

(* g is l without its place k: the spans behind it move up.                *)
DropsPlace(l, g, k) ==
    \A i \in 1 .. Len(l) - 1 : /\ i < k => g[i] = l[i]
                               /\ i >= k => g[i] = l[i + 1]

LEMMA WithoutAt ==
    ASSUME NEW l, NEW S, ListOf(l, S), NEW s \in S
    PROVE  LET g == list_without(l, s)
               n == Len(l)
           IN  /\ n \in Nat /\ DOMAIN l = 1 .. n
               /\ g \in Seq(Span) /\ DOMAIN g = 1 .. n - 1
               /\ \E k \in 1 .. n : l[k] = s /\ DropsPlace(l, g, k)
<1> DEFINE k == CHOOSE i \in DOMAIN l : l[i] = s
           a == SubSeq(l, 1, k - 1)
           b == SubSeq(l, k + 1, Len(l))
           g == a \o b
<1>1. l \in Seq(Span) /\ DOMAIN l = 1 .. Len(l) /\ Len(l) \in Nat
  BY LenProperties DEF ListOf
<1>2. k \in 1 .. Len(l) /\ l[k] = s
  <2>1. \E i \in DOMAIN l : l[i] = s
    BY DEF ListOf
  <2> QED
    BY <1>1, <2>1
<1>3. g = list_without(l, s)
  BY DEF list_without
<1> HIDE DEF k
<1>4. /\ a \in Seq(Span) /\ Len(a) = k - 1
      /\ \A i \in 1 .. k - 1 : a[i] = l[i]
  <2>1. \A i \in 1 .. k - 1 : l[i] \in Span
    BY <1>1, <1>2, ElementOfSeq
  <2>2. /\ a \in Seq(Span) /\ Len(a) = IF 1 <= k - 1 THEN (k - 1) - 1 + 1 ELSE 0
        /\ \A i \in 1 .. (k - 1) - 1 + 1 : a[i] = l[1 + i - 1]
    BY <1>1, <1>2, <2>1, SubSeqProperties
  <2> HIDE DEF a
  <2>3. (k - 1) - 1 + 1 = k - 1 /\ \A i \in 1 .. k - 1 : 1 + i - 1 = i
    BY <1>2
  <2> QED
    BY <1>1, <1>2, <2>2, <2>3
<1> DEFINE n == Len(l)
<1>5. /\ b \in Seq(Span) /\ Len(b) = n - k
      /\ \A i \in 1 .. n - k : b[i] = l[k + i]
  <2>1. \A i \in k + 1 .. n : l[i] \in Span
    BY <1>1, <1>2, ElementOfSeq
  <2>2. k + 1 \in Int /\ n \in Int
    BY <1>1, <1>2
  <2>3. /\ b \in Seq(Span)
        /\ Len(b) = IF k + 1 <= n THEN n - (k + 1) + 1 ELSE 0
        /\ \A i \in 1 .. n - (k + 1) + 1 : b[i] = l[(k + 1) + i - 1]
    BY <2>1, <2>2, SubSeqProperties
  <2> HIDE DEF b, n
  <2>4. n \in Nat /\ k \in Nat /\ k <= n
    BY <1>1, <1>2 DEF n
  <2>5. Len(b) = n - k
    BY <2>3, <2>4
  <2>6. n - (k + 1) + 1 = n - k /\ \A i \in 1 .. n - k : (k + 1) + i - 1 = k + i
    BY <2>4
  <2> QED
    BY <2>3, <2>5, <2>6
<1>6. n \in Nat /\ k \in 1 .. n /\ DOMAIN l = 1 .. n
  BY <1>1, <1>2
<1> HIDE DEF a, b, n
<1>7. g \in Seq(Span) /\ DOMAIN g = 1 .. n - 1
  <2>1. g \in Seq(Span) /\ Len(g) = Len(a) + Len(b)
    BY <1>4, <1>5, ConcatProperties
  <2>2. Len(a) + Len(b) = n - 1
    BY <1>4, <1>5, <1>6
  <2> HIDE DEF g
  <2> QED
    BY <2>1, <2>2, LenProperties
<1>8. \A i \in 1 .. n - 1 : /\ i < k => g[i] = l[i]
                            /\ i >= k => g[i] = l[i + 1]
  <2>1. \A i \in 1 .. Len(a) + Len(b) :
            g[i] = IF i <= Len(a) THEN a[i] ELSE b[i - Len(a)]
    BY <1>4, <1>5, ConcatProperties
  <2>2. Len(a) + Len(b) = n - 1 /\ Len(a) = k - 1
    BY <1>4, <1>5, <1>6
  <2> HIDE DEF g
  <2>3. \A i \in 1 .. n - 1 : g[i] = IF i <= k - 1 THEN a[i] ELSE b[i - (k - 1)]
    BY <2>1, <2>2
  <2> TAKE i \in 1 .. n - 1
  <2>4. ASSUME i < k PROVE g[i] = l[i]
    <3>1. i <= k - 1 /\ i \in 1 .. k - 1
      BY <1>6, <2>4
    <3> QED
      BY <1>4, <2>3, <3>1
  <2>5. ASSUME i >= k PROVE g[i] = l[i + 1]
    <3>1. PICK j \in 1 .. n - k : j = i - (k - 1)
      BY <1>6, <2>5
    <3>2. ~(i <= k - 1) /\ k + j = i + 1
      BY <1>6, <2>5, <3>1
    <3> QED
      BY <1>5, <2>3, <3>1, <3>2
  <2> QED
    BY <2>4, <2>5
<1> HIDE DEF g
<1> QED
  BY <1>2, <1>3, <1>6, <1>7, <1>8 DEF n, DropsPlace

(* release_to_page_heap takes exactly the one span out.                    *)
LEMMA WithoutLinks ==
    ASSUME NEW l, NEW S, ListOf(l, S), NEW s \in S
    PROVE  ListOf(list_without(l, s), S \ {s})
<1> DEFINE g == list_without(l, s)
           n == Len(l)
<1>1. n \in Nat /\ DOMAIN l = 1 .. n
  BY WithoutAt
<1>2. g \in Seq(Span) /\ DOMAIN g = 1 .. n - 1
  BY WithoutAt
<1> HIDE DEF g, n
<1>3. PICK k \in 1 .. n : l[k] = s /\ DropsPlace(l, g, k)
  BY WithoutAt DEF g, n
<1>4. \A i \in 1 .. n - 1 : /\ i < k => g[i] = l[i]
                            /\ i >= k => g[i] = l[i + 1]
  BY <1>3 DEF DropsPlace, n
<1>5. \A i \in DOMAIN g : \E j \in DOMAIN l : j # k /\ g[i] = l[j]
  <2> TAKE i \in DOMAIN g
  <2>1. CASE i < k
    BY <1>1, <1>2, <1>4, <2>1
  <2>2. CASE i >= k
    <3>1. i + 1 \in DOMAIN l /\ i + 1 # k
      BY <1>1, <1>2, <2>2
    <3> QED
      BY <1>2, <1>4, <2>2, <3>1
  <2> QED
    BY <1>1, <1>2, <2>1, <2>2
<1>6. \A j \in DOMAIN l : j # k => \E i \in DOMAIN g : g[i] = l[j]
  <2> TAKE j \in DOMAIN l
  <2> HAVE j # k
  <2>1. CASE j < k
    <3>1. j \in DOMAIN g
      BY <1>1, <1>2, <2>1
    <3> QED
      BY <1>2, <1>4, <2>1, <3>1
  <2>2. CASE j > k
    <3>1. PICK i \in DOMAIN g : i = j - 1
      BY <1>1, <1>2, <2>2
    <3>2. i >= k /\ i + 1 = j
      BY <1>1, <2>2, <3>1
    <3> QED
      BY <1>2, <1>4, <3>1, <3>2
  <2> QED
    BY <1>1, <2>1, <2>2
<1>7. {g[i] : i \in DOMAIN g} = S \ {s}
  <2>1. {l[i] : i \in DOMAIN l} = S
    BY DEF ListOf
  <2>2. \A j \in DOMAIN l : j # k => l[j] # s
    BY <1>3, <1>1 DEF ListOf
  <2>3. ASSUME NEW x \in {g[i] : i \in DOMAIN g} PROVE x \in S \ {s}
    BY <1>5, <2>1, <2>2
  <2>4. ASSUME NEW x \in S \ {s} PROVE x \in {g[i] : i \in DOMAIN g}
    BY <1>3, <1>6, <2>1
  <2> QED
    BY <2>3, <2>4
<1>8. \A i, j \in DOMAIN g : g[i] = g[j] => i = j
  <2> SUFFICES ASSUME NEW i \in DOMAIN g, NEW j \in DOMAIN g, g[i] = g[j]
               PROVE  i = j
    OBVIOUS
  <2> DEFINE at(m) == IF m < k THEN m ELSE m + 1
  <2>1. \A m \in DOMAIN g : at(m) \in DOMAIN l /\ g[m] = l[at(m)]
    BY <1>1, <1>2, <1>4
  <2>2. at(i) = at(j)
    BY <2>1 DEF ListOf
  <2> QED
    BY <1>1, <1>2, <2>2
<1> QED
  BY <1>2, <1>7, <1>8 DEF ListOf, g

(* The destructor takes the spans off the front.                           *)
LEMMA TailLinks ==
    ASSUME NEW l, NEW S, ListOf(l, S), l # <<>>
    PROVE  /\ Head(l) \in S /\ ListOf(Tail(l), S \ {Head(l)})
           /\ Len(l) = 1 => S = {Head(l)}
<1> DEFINE g == Tail(l)
           s == Head(l)
<1>1. l \in Seq(Span) /\ DOMAIN l = 1 .. Len(l) /\ Len(l) \in Nat
  BY LenProperties DEF ListOf
<1>2. Len(l) >= 1 /\ s = l[1]
  BY <1>1, EmptySeq
<1>3. /\ g \in Seq(Span) /\ Len(g) = Len(l) - 1
      /\ \A i \in 1 .. Len(g) : g[i] = l[i + 1]
  BY <1>1, HeadTailProperties
<1>4. DOMAIN g = 1 .. Len(l) - 1
  BY <1>3, LenProperties
<1> HIDE DEF g, s
<1>5. \A i \in DOMAIN g : i + 1 \in DOMAIN l /\ g[i] = l[i + 1]
  BY <1>1, <1>3, <1>4
<1>6. \A j \in DOMAIN l : j # 1 => j - 1 \in DOMAIN g /\ g[j - 1] = l[j]
  <2> TAKE j \in DOMAIN l
  <2> HAVE j # 1
  <2>1. PICK i \in DOMAIN g : i = j - 1
    BY <1>1, <1>4
  <2> QED
    BY <1>1, <1>5, <2>1
<1>7. 1 \in DOMAIN l
  BY <1>1, <1>2
<1>8. \A j \in DOMAIN l : j # 1 => l[j] # s
  BY <1>2, <1>7 DEF ListOf
<1>9. {l[i] : i \in DOMAIN l} = S
  BY DEF ListOf
<1>10. {g[i] : i \in DOMAIN g} = S \ {s}
  <2>1. ASSUME NEW x \in {g[i] : i \in DOMAIN g} PROVE x \in S \ {s}
    <3>1. PICK i \in DOMAIN g : x = g[i]
      OBVIOUS
    <3>2. i + 1 # 1
      BY <1>4
    <3> QED
      BY <1>5, <1>8, <1>9, <3>1, <3>2
  <2>2. ASSUME NEW x \in S \ {s} PROVE x \in {g[i] : i \in DOMAIN g}
    BY <1>2, <1>6, <1>9
  <2> QED
    BY <2>1, <2>2
<1>11. \A i, j \in DOMAIN g : g[i] = g[j] => i = j
  <2> SUFFICES ASSUME NEW i \in DOMAIN g, NEW j \in DOMAIN g, g[i] = g[j]
               PROVE  i = j
    OBVIOUS
  <2>1. i + 1 = j + 1
    BY <1>5 DEF ListOf
  <2> QED
    BY <1>4, <2>1
<1>12. Len(l) = 1 => S = {s}
  BY <1>1, <1>2, <1>9
<1> QED
  BY <1>2, <1>3, <1>7, <1>9, <1>10, <1>11, <1>12 DEF ListOf, g, s

-----------------------------------------------------------------------------
(* A step works on one list c and one span s; everything else is framed.   *)

StepAt(c, s) ==
    /\ s \in Span /\ SpansKept(s)
    /\ \A d \in Class \ {c} : cfl'[d] = cfl[d]
    /\ \A t \in Span \ {s} : carved'[t] = carved[t]
    /\ s \in SpanListOf(c) <=> Held(s)
    /\ s \in SpanListOf(c)' <=> Held(s)'
    /\ SpanListOf(c)' \ {s} = SpanListOf(c) \ {s}

(* The spans of a list are held, by one list each.                         *)
LEMMA Owned ==
    ASSUME SpanOwnership, NEW c \in Class
    PROVE  /\ \A s \in SpanListOf(c) : s \in Span /\ Held(s)
           /\ \A d \in Class \ {c} : SpanListOf(c) \cap SpanListOf(d) = {}
<1>1. UNION {SpanListOf(d) : d \in Class} = {s \in Span : Held(s)}
  BY DEF SpanOwnership
<1>2. \A s \in SpanListOf(c) : s \in Span /\ Held(s)
  BY <1>1
<1>3. \A d \in Class \ {c} : SpanListOf(c) \cap SpanListOf(d) = {}
  BY DEF SpanOwnership
<1> QED
  BY <1>2, <1>3

LEMMA OtherList ==
    ASSUME NEW c \in Class, NEW s, StepAt(c, s), NEW d \in Class, d # c
    PROVE  SpanListOf(d)' = SpanListOf(d)
<1>1. cfl'[d] = cfl[d]
  BY DEF StepAt
<1> QED
  BY <1>1 DEF SpanListOf

(* Spans other than s stay where they are, as they are.                    *)
LEMMA OthersKept ==
    ASSUME SpanOwnership, NEW c \in Class, NEW s, StepAt(c, s), NEW d \in Class
    PROVE  /\ SpanListOf(d)' \ {s} = SpanListOf(d) \ {s}
           /\ \A t \in SpanListOf(d) \ {s} :
                 span'[t] = span[t] /\ carved'[t] = carved[t]
           /\ d # c => s \notin SpanListOf(d) /\ s \notin SpanListOf(d)'
<1>1. d # c => SpanListOf(d)' = SpanListOf(d)
  BY OtherList
<1>2. SpanListOf(d)' \ {s} = SpanListOf(d) \ {s}
  BY <1>1 DEF StepAt
<1>3. \A t \in SpanListOf(d) \ {s} : t \in Span /\ Held(t)
  BY Owned
<1>4. \A t \in SpanListOf(d) \ {s} : span'[t] = span[t] /\ carved'[t] = carved[t]
  BY <1>3 DEF StepAt, SpansKept
<1>5. d # c => s \notin SpanListOf(d)
  <2> SUFFICES ASSUME d # c, s \in SpanListOf(d) PROVE FALSE
    OBVIOUS
  <2>1. Held(s)
    BY Owned
  <2>2. s \in SpanListOf(c)
    BY <2>1 DEF StepAt
  <2> QED
    BY <2>2, Owned
<1> QED
  BY <1>1, <1>2, <1>4, <1>5

LEMMA OwnershipKept ==
    ASSUME SpanOwnership, NEW c \in Class, NEW s, StepAt(c, s),
           UNCHANGED tearing,
           ListOf(cfl'[c].span_list, SpanListOf(c)'),
           ~tearing => cfl'[c].current_span \in SpanListOf(c)' \cup {NULL}
    PROVE  SpanOwnership'
<1>1. ASSUME NEW d \in Class
      PROVE  /\ \A i, j \in DOMAIN cfl'[d].span_list :
                   cfl'[d].span_list[i] = cfl'[d].span_list[j] => i = j
             /\ ~tearing => cfl'[d].current_span \in SpanListOf(d)' \cup {NULL}
  <2>1. CASE d = c
    BY <2>1 DEF ListOf
  <2>2. CASE d # c
    <3>1. SpanListOf(d)' = SpanListOf(d)
      BY <2>2, OtherList
    <3>2. cfl'[d] = cfl[d]
      BY <2>2 DEF StepAt
    <3> QED
      BY <3>1, <3>2 DEF SpanOwnership
  <2> QED
    BY <2>1, <2>2
<1>2. ASSUME NEW d \in Class, NEW e \in Class, d # e
      PROVE  SpanListOf(d)' \cap SpanListOf(e)' = {}
  <2>1. (SpanListOf(d) \cap SpanListOf(e)) \ {s} = {}
    BY <1>2 DEF SpanOwnership
  <2>2. /\ SpanListOf(d)' \ {s} = SpanListOf(d) \ {s}
        /\ SpanListOf(e)' \ {s} = SpanListOf(e) \ {s}
    BY OthersKept
  <2>3. s \notin SpanListOf(d)' \/ s \notin SpanListOf(e)'
    BY <1>2, OthersKept
  <2> QED
    BY <2>1, <2>2, <2>3
<1>3. UNION {SpanListOf(d)' : d \in Class} = {t \in Span : Held(t)'}
  <2>1. UNION {SpanListOf(d) : d \in Class} = {t \in Span : Held(t)}
    BY DEF SpanOwnership
  <2>2. \A t \in Span \ {s} : Held(t)' <=> Held(t)
    BY HeldKept DEF StepAt
  <2>3. \A d \in Class : SpanListOf(d)' \ {s} = SpanListOf(d) \ {s}
    BY OthersKept
  <2>4. (\E d \in Class : s \in SpanListOf(d)') <=> s \in Span /\ Held(s)'
    BY OthersKept DEF StepAt
  <2>5. ASSUME NEW t, t # s
        PROVE  (\E d \in Class : t \in SpanListOf(d)') <=> t \in Span /\ Held(t)'
    <3>1. (\E d \in Class : t \in SpanListOf(d)')
             <=> \E d \in Class : t \in SpanListOf(d)
      BY <2>3, <2>5
    <3>2. (\E d \in Class : t \in SpanListOf(d)) <=> t \in Span /\ Held(t)
      BY <2>1
    <3> QED
      BY <2>2, <2>5, <3>1, <3>2
  <2> QED
    BY <2>4, <2>5
<1> QED
  BY <1>1, <1>2, <1>3 DEF SpanOwnership

LEMMA DividedKept ==
    ASSUME SpanOwnership, NEW c \in Class, NEW s, StepAt(c, s),
           \A d \in Class : \A t \in SpanListOf(d) : DividedFor(d, t),
           s \in SpanListOf(c)' => DividedFor(c, s)'
    PROVE  \A d \in Class : \A t \in SpanListOf(d)' : DividedFor(d, t)'
<1> SUFFICES ASSUME NEW d \in Class, NEW t \in SpanListOf(d)'
             PROVE  DividedFor(d, t)'
  OBVIOUS
<1>1. CASE t = s
  <2>1. d = c
    BY <1>1, OthersKept
  <2> QED
    BY <1>1, <2>1
<1>2. CASE t # s
  <2>1. t \in SpanListOf(d) \ {s}
    BY <1>2, OthersKept
  <2>2. span'[t] = span[t] /\ carved'[t] = carved[t] /\ DividedFor(d, t)
    BY <2>1, OthersKept
  <2> QED
    BY <2>2 DEF DividedFor
<1> QED
  BY <1>1, <1>2

-----------------------------------------------------------------------------
(* The free objects of a list, those of span s apart from the others       *)

FreeNow(c, s) == IF s \in SpanListOf(c) THEN FreeIndexes(carved[s]) ELSE {}

UsedNow(c, s) == IF s \in SpanListOf(c) THEN UsedIndexes(carved[s]) ELSE {}

FreeOthers(c, s) ==
    UNION {{t} \X FreeIndexes(carved[t]) : t \in SpanListOf(c) \ {s}}

LEMMA FreeSplit ==
    ASSUME SpanOwnership, NEW c \in Class, NEW s, StepAt(c, s)
    PROVE  /\ FreeObjects(c) = FreeOthers(c, s) \cup ({s} \X FreeNow(c, s))
           /\ FreeObjects(c)' = FreeOthers(c, s) \cup ({s} \X FreeNow(c, s)')
<1> DEFINE pairs(t) == {t} \X FreeIndexes(carved[t])
           pairsNext(t) == {t} \X FreeIndexes(carved'[t])
           L == SpanListOf(c)
           M == SpanListOf(c)'
<1>1. /\ M \ {s} = L \ {s}
      /\ \A t \in L \ {s} : carved'[t] = carved[t]
  BY OthersKept
<1>2. \A t \in L \ {s} : pairsNext(t) = pairs(t)
  BY <1>1
<1>3. FreeNow(c, s) = IF s \in L THEN FreeIndexes(carved[s]) ELSE {}
  BY DEF FreeNow
<1>4. FreeNow(c, s)' = IF s \in M THEN FreeIndexes(carved'[s]) ELSE {}
  BY DEF FreeNow
<1>5. \A e : e \in FreeObjects(c) <=> \E t \in L : e \in pairs(t)
  BY DEF FreeObjects
<1>6. \A e : e \in FreeObjects(c)' <=> \E t \in M : e \in pairsNext(t)
  BY DEF FreeObjects
<1>7. \A e : e \in FreeOthers(c, s) <=> \E t \in L \ {s} : e \in pairs(t)
  BY DEF FreeOthers
<1>8. \A e : e \in {s} \X FreeNow(c, s) <=> s \in L /\ e \in pairs(s)
  BY <1>3
<1>9. \A e : e \in {s} \X FreeNow(c, s)' <=> s \in M /\ e \in pairsNext(s)
  BY <1>4
<1> HIDE DEF L, M, pairs, pairsNext
<1>10. \A e : e \in FreeObjects(c)
                <=> e \in FreeOthers(c, s) \/ e \in {s} \X FreeNow(c, s)
  BY <1>5, <1>7, <1>8
<1>11. \A e : e \in FreeObjects(c)'
                <=> e \in FreeOthers(c, s) \/ e \in {s} \X FreeNow(c, s)'
  <2>1. \A t : t \in M /\ t # s <=> t \in L \ {s}
    BY <1>1
  <2> QED
    BY <1>2, <1>6, <1>7, <1>9, <2>1
<1> QED
  BY <1>10, <1>11

LEMMA CountPairs ==
    ASSUME NEW O, IsFiniteSet(O), NEW s, \A e \in O : e[1] # s,
           NEW F, IsFiniteSet(F)
    PROVE  /\ IsFiniteSet(O \cup ({s} \X F))
           /\ Cardinality(O \cup ({s} \X F)) = Cardinality(O) + Cardinality(F)
<1> DEFINE P == {s} \X F
<1>1. IsFiniteSet({s}) /\ Cardinality({s}) = 1
  BY FS_Singleton
<1>2. IsFiniteSet(P) /\ Cardinality(P) = Cardinality({s}) * Cardinality(F)
  BY <1>1, FS_Product
<1>3. Cardinality(F) \in Nat /\ Cardinality(O) \in Nat
  BY FS_CardinalityType
<1>4. Cardinality(P) = Cardinality(F)
  BY <1>1, <1>2, <1>3
<1>5. O \cap P = {}
  <2>1. \A e \in P : e[1] = s
    OBVIOUS
  <2> HIDE DEF P
  <2> QED
    BY <2>1
<1> HIDE DEF P
<1>6. Cardinality(O \cap P) = 0
  BY <1>5, FS_EmptySet
<1>7. /\ IsFiniteSet(O \cup P)
      /\ Cardinality(O \cup P) = Cardinality(O) + Cardinality(P) - Cardinality(O \cap P)
  BY <1>2, FS_Union
<1> QED
  BY <1>3, <1>4, <1>6, <1>7 DEF P

(* num_free changes by what changes in the span.                           *)
LEMMA FreeCount ==
    ASSUME SpanOwnership, NEW c \in Class, NEW s, StepAt(c, s),
           IsFiniteSet(FreeObjects(c)),
           IsFiniteSet(FreeNow(c, s)), IsFiniteSet(FreeNow(c, s)')
    PROVE  /\ IsFiniteSet(FreeObjects(c)')
           /\ Cardinality(FreeObjects(c)') =
                 Cardinality(FreeObjects(c)) - Cardinality(FreeNow(c, s))
                    + Cardinality(FreeNow(c, s)')
<1> DEFINE O == FreeOthers(c, s)
           F == FreeNow(c, s)
           G == FreeNow(c, s)'
<1>1. FreeObjects(c) = O \cup ({s} \X F) /\ FreeObjects(c)' = O \cup ({s} \X G)
  BY FreeSplit
<1>2. \A e \in O : e[1] # s
  <2> SUFFICES ASSUME NEW e \in O PROVE e[1] # s
    OBVIOUS
  <2>1. PICK t \in SpanListOf(c) \ {s} : e \in {t} \X FreeIndexes(carved[t])
    BY DEF FreeOthers
  <2> QED
    BY <2>1
<1> HIDE DEF O, F, G
<1>3. IsFiniteSet(O)
  BY <1>1, FS_Subset
<1>4. IsFiniteSet(F) /\ IsFiniteSet(G)
  BY DEF F, G
<1>5. Cardinality(FreeObjects(c)) = Cardinality(O) + Cardinality(F)
  <2>1. Cardinality(O \cup ({s} \X F)) = Cardinality(O) + Cardinality(F)
    BY <1>2, <1>3, <1>4, CountPairs
  <2> QED
    BY <1>1, <2>1
<1>6. /\ IsFiniteSet(FreeObjects(c)')
      /\ Cardinality(FreeObjects(c)') = Cardinality(O) + Cardinality(G)
  <2>1. /\ IsFiniteSet(O \cup ({s} \X G))
        /\ Cardinality(O \cup ({s} \X G)) = Cardinality(O) + Cardinality(G)
    BY <1>2, <1>3, <1>4, CountPairs
  <2> QED
    BY <1>1, <2>1
<1>7. Cardinality(O) \in Nat /\ Cardinality(F) \in Nat /\ Cardinality(G) \in Nat
  BY <1>3, <1>4, FS_CardinalityType
<1> QED
  BY <1>5, <1>6, <1>7 DEF F, G

-----------------------------------------------------------------------------
(* The objects in use, those of span s apart from the others               *)

UsedOthers(c, s) ==
    UNION {PtrsOf(c, t, UsedIndexes(carved[t])) : t \in SpanListOf(c) \ {s}}

LEMMA UsedSplit ==
    ASSUME SpanOwnership, NEW c \in Class, NEW s, StepAt(c, s)
    PROVE  /\ InUse(c) = UsedOthers(c, s) \cup PtrsOf(c, s, UsedNow(c, s))
           /\ InUse(c)' = UsedOthers(c, s) \cup PtrsOf(c, s, UsedNow(c, s))'
<1> DEFINE ptrs(t) == PtrsOf(c, t, UsedIndexes(carved[t]))
           ptrsNext(t) == PtrsOf(c, t, UsedIndexes(carved[t]))'
           L == SpanListOf(c)
           M == SpanListOf(c)'
<1>1. /\ M \ {s} = L \ {s}
      /\ \A t \in L \ {s} : carved'[t] = carved[t] /\ span'[t] = span[t]
  BY OthersKept
<1>2. \A t \in L \ {s} : ptrsNext(t) = ptrs(t)
  BY <1>1 DEF PtrsOf
<1>3. \A e : e \in PtrsOf(c, s, UsedNow(c, s)) <=> s \in L /\ e \in ptrs(s)
  BY DEF UsedNow, PtrsOf
<1>4. \A e : e \in PtrsOf(c, s, UsedNow(c, s))' <=> s \in M /\ e \in ptrsNext(s)
  BY DEF UsedNow, PtrsOf
<1>5. \A e : e \in InUse(c) <=> \E t \in L : e \in ptrs(t)
  BY DEF InUse
<1>6. \A e : e \in InUse(c)' <=> \E t \in M : e \in ptrsNext(t)
  BY DEF InUse
<1>7. \A e : e \in UsedOthers(c, s) <=> \E t \in L \ {s} : e \in ptrs(t)
  BY DEF UsedOthers
<1> HIDE DEF L, M, ptrs, ptrsNext
<1>8. \A e : e \in InUse(c)
               <=> e \in UsedOthers(c, s) \/ e \in PtrsOf(c, s, UsedNow(c, s))
  BY <1>3, <1>5, <1>7
<1>9. \A e : e \in InUse(c)'
               <=> e \in UsedOthers(c, s) \/ e \in PtrsOf(c, s, UsedNow(c, s))'
  <2>1. \A t : t \in M /\ t # s <=> t \in L \ {s}
    BY <1>1
  <2> QED
    BY <1>2, <1>4, <1>6, <1>7, <2>1
<1> QED
  BY <1>8, <1>9

(* An object of a listed span lies where the page map knows it.            *)
LEMMA ListedObject ==
    ASSUME ListsInv, NEW c \in Class, NEW s \in SpanListOf(c),
           NEW i \in 0 .. carved[s].total_objects - 1
    PROVE  ObjectIn(Heap, c, s, i) /\ SizeClasses[c].size # 0
<1>1. s \in Span /\ Held(s)
  BY Owned DEF ListsInv
<1>2. DividedFor(c, s)
  BY DEF ListsInv
<1>3. carved[s].total_objects \in Nat
  BY <1>1 DEF ListsInv, FieldsOK, Fields
<1> QED
  BY <1>1, <1>2, <1>3, HeapFields DEF ObjectIn, DividedFor, Held

LEMMA UsedBounds ==
    ASSUME NEW o, FieldsOK(o)
    PROVE  /\ UsedIndexes(o) \subseteq 0 .. o.total_objects - 1
           /\ FreeIndexes(o) \subseteq 0 .. o.total_objects - 1
BY DEF FieldsOK, Fields, UsedIndexes

(* What is in use is an object of one of the spans.                        *)
LEMMA InUseObject ==
    ASSUME ListsInv, NEW c \in Class, NEW x \in InUse(c)
    PROVE  \E t \in SpanListOf(c) : \E i \in UsedIndexes(carved[t]) :
              /\ ObjectIn(Heap, c, t, i) /\ SizeClasses[c].size # 0
              /\ x = AddressIn(Heap, c, t, i)
<1>1. PICK t \in SpanListOf(c) : x \in PtrsOf(c, t, UsedIndexes(carved[t]))
  BY DEF InUse
<1>2. PICK i \in UsedIndexes(carved[t]) :
          x = index_to_ptr(i, span_base(span[t].start), SizeClasses[c].size)
  BY <1>1 DEF PtrsOf
<1>3. x = AddressIn(Heap, c, t, i)
  BY <1>2, HeapFields DEF AddressIn
<1>4. t \in Span
  BY Owned DEF ListsInv
<1>5. i \in 0 .. carved[t].total_objects - 1
  BY <1>4, UsedBounds DEF ListsInv
<1>6. ObjectIn(Heap, c, t, i) /\ SizeClasses[c].size # 0
  BY <1>5, ListedObject
<1> QED
  BY <1>3, <1>6

SameExtent(s) ==
    span'[s].start = span[s].start /\ span'[s].num_pages = span[s].num_pages

(* Objects of spans that stay listed stay where they are.                  *)
LEMMA ObjectKept ==
    ASSUME ListsInv, NEW c \in Class, NEW s, StepAt(c, s),
           NEW d \in Class, NEW t \in SpanListOf(d), NEW i, ObjectIn(Heap, d, t, i),
           t = s => s \in SpanListOf(c)' /\ SameExtent(s)
    PROVE  /\ ObjectIn(Heap', d, t, i)
           /\ AddressIn(Heap', d, t, i) = AddressIn(Heap, d, t, i)
<1>1. Heap.span = span /\ Heap'.span = span'
  BY DEF Heap
<1>2. t \in Span /\ Held(t)
  BY Owned DEF ListsInv
<1>3. Held(t)' /\ SameExtent(t)
  <2>1. CASE t = s
    BY <2>1 DEF StepAt
  <2>2. CASE t # s
    BY <1>2, <2>2 DEF StepAt, SpansKept, SameExtent, Held
  <2> QED
    BY <2>1, <2>2
<1> QED
  BY <1>1, <1>2, <1>3 DEF ObjectIn, AddressIn, SameExtent, Held

LEMMA SameInUse ==
    ASSUME ListsInv, NEW c \in Class, NEW s, StepAt(c, s),
           s \in SpanListOf(c) => SameExtent(s),
           UsedNow(c, s)' = UsedNow(c, s)
    PROVE  InUse(c)' = InUse(c)
<1>1. SpanOwnership
  BY DEF ListsInv
<1>2. s \notin SpanListOf(c) => UsedNow(c, s) = {}
  BY DEF UsedNow
<1>3. PtrsOf(c, s, UsedNow(c, s))' = PtrsOf(c, s, UsedNow(c, s))
  BY <1>2 DEF PtrsOf, SameExtent
<1> QED
  BY <1>1, <1>3, UsedSplit

(* allocate takes object i of s into use; it was not in use before.        *)
LEMMA GainOne ==
    ASSUME ListsInv, IInv', NEW c \in Class, NEW s, StepAt(c, s),
           s \in SpanListOf(c) => SameExtent(s), s \in SpanListOf(c)',
           NEW i, ObjectIn(Heap', c, s, i), SizeClasses[c].size # 0,
           UsedNow(c, s)' = UsedNow(c, s) \cup {i}, i \notin UsedNow(c, s)
    PROVE  LET x == AddressIn(Heap', c, s, i) IN
           InUse(c)' = InUse(c) \cup {x} /\ x \notin InUse(c)
<1> DEFINE x == AddressIn(Heap', c, s, i)
           U == UsedNow(c, s)
<1>1. SpanOwnership
  BY DEF ListsInv
<1>2. Heap'.span = span'
  BY DEF Heap
<1>3. s \notin SpanListOf(c) => U = {}
  BY DEF UsedNow
<1>4. PtrsOf(c, s, UsedNow(c, s))' = PtrsOf(c, s, U) \cup {x}
  <2>1. PtrsOf(c, s, UsedNow(c, s))'
          = {index_to_ptr(j, span_base(span'[s].start), SizeClasses[c].size) :
                j \in U \cup {i}}
    BY DEF PtrsOf
  <2>2. x = index_to_ptr(i, span_base(span'[s].start), SizeClasses[c].size)
    BY <1>2 DEF AddressIn
  <2>3. PtrsOf(c, s, U)
          = {index_to_ptr(j, span_base(span'[s].start), SizeClasses[c].size) :
                j \in U}
    BY <1>3 DEF PtrsOf, SameExtent
  <2> HIDE DEF U, x
  <2> QED
    BY <2>1, <2>2, <2>3
<1>5. InUse(c)' = InUse(c) \cup {x}
  BY <1>1, <1>4, UsedSplit
<1>6. x \notin InUse(c)
  <2> SUFFICES ASSUME x \in InUse(c) PROVE FALSE
    OBVIOUS
  <2>1. PICK t \in SpanListOf(c) : \E j \in UsedIndexes(carved[t]) :
            ObjectIn(Heap, c, t, j) /\ x = AddressIn(Heap, c, t, j)
    BY InUseObject
  <2>2. PICK j \in UsedIndexes(carved[t]) :
            ObjectIn(Heap, c, t, j) /\ x = AddressIn(Heap, c, t, j)
    BY <2>1
  <2>3. ObjectIn(Heap', c, t, j) /\ AddressIn(Heap', c, t, j) = x
    BY <2>2, ObjectKept
  <2>4. Good(Heap', {})
    BY DEF IInv
  <2>5. t = s /\ j = i
    BY <2>3, <2>4, SameObject
  <2> QED
    BY <2>2, <2>5 DEF UsedNow
<1> QED
  BY <1>5, <1>6

(* deallocate takes object i of s out of use.                              *)
LEMMA LoseOne ==
    ASSUME ListsInv, NEW c \in Class, NEW s, StepAt(c, s),
           s \in SpanListOf(c), s \in SpanListOf(c)' => SameExtent(s),
           NEW i \in UsedNow(c, s), UsedNow(c, s)' = UsedNow(c, s) \ {i}
    PROVE  InUse(c)' = InUse(c) \ {AddressIn(Heap, c, s, i)}
<1> DEFINE x == AddressIn(Heap, c, s, i)
           U == UsedNow(c, s)
<1>1. SpanOwnership /\ Good(Heap, {})
  BY DEF ListsInv, IInv
<1>2. s \in Span /\ U \subseteq 0 .. carved[s].total_objects - 1
  BY UsedBounds DEF ListsInv, StepAt, UsedNow
<1>3. \A j \in U : ObjectIn(Heap, c, s, j) /\ SizeClasses[c].size # 0
  BY <1>2, ListedObject
<1>4. \A j \in U : AddressIn(Heap, c, s, j) = x => j = i
  BY <1>1, <1>3, SameObject
<1>5. PtrsOf(c, s, U) = {AddressIn(Heap, c, s, j) : j \in U}
  BY HeapFields DEF PtrsOf, AddressIn
<1>6. PtrsOf(c, s, UsedNow(c, s))' = {AddressIn(Heap, c, s, j) : j \in U \ {i}}
  <2>1. PtrsOf(c, s, UsedNow(c, s))'
          = {index_to_ptr(j, span_base(span'[s].start), SizeClasses[c].size) :
                j \in U \ {i}}
    BY DEF PtrsOf
  <2>2. U \ {i} # {} => s \in SpanListOf(c)'
    BY DEF UsedNow
  <2>3. U \ {i} # {} => span'[s].start = Heap.span[s].start
    BY <2>2, HeapFields DEF SameExtent
  <2> HIDE DEF U, x
  <2> QED
    BY <2>1, <2>3 DEF AddressIn
<1>7. PtrsOf(c, s, UsedNow(c, s))' = PtrsOf(c, s, U) \ {x}
  <2> HIDE DEF U, x
  <2> QED
    BY <1>4, <1>5, <1>6 DEF x
<1>8. x \notin UsedOthers(c, s)
  <2> SUFFICES ASSUME x \in UsedOthers(c, s) PROVE FALSE
    OBVIOUS
  <2>1. PICK t \in SpanListOf(c) \ {s} : x \in PtrsOf(c, t, UsedIndexes(carved[t]))
    BY DEF UsedOthers
  <2>2. PICK j \in UsedIndexes(carved[t]) : x = AddressIn(Heap, c, t, j)
    BY <2>1, HeapFields DEF PtrsOf, AddressIn
  <2>3. t \in Span /\ UsedIndexes(carved[t]) \subseteq 0 .. carved[t].total_objects - 1
    BY <1>1, Owned, UsedBounds DEF ListsInv
  <2>4. ObjectIn(Heap, c, t, j)
    BY <2>3, ListedObject
  <2> QED
    BY <1>1, <1>3, <2>1, <2>2, <2>4, SameObject
<1> HIDE DEF U, x
<1>9. InUse(c) = UsedOthers(c, s) \cup PtrsOf(c, s, U)
  BY <1>1, UsedSplit DEF U
<1>10. InUse(c)' = UsedOthers(c, s) \cup PtrsOf(c, s, UsedNow(c, s))'
  BY <1>1, UsedSplit
<1> QED
  BY <1>7, <1>8, <1>9, <1>10 DEF x

(* The list of another class is as exact as before.                        *)
LEMMA OthersExact ==
    ASSUME ListsInv, ~tearing, NEW c \in Class, NEW s, StepAt(c, s),
           NEW d \in Class, d # c, Out(d)' = Out(d)
    PROVE  ListExact(d)'
<1>1. SpanOwnership /\ ListExact(d)
  BY DEF ListsInv
<1> DEFINE L == SpanListOf(d)
<1>2. /\ SpanListOf(d)' = L
      /\ \A t \in L : span'[t] = span[t] /\ carved'[t] = carved[t]
  BY <1>1, OthersKept
<1>3. cfl'[d] = cfl[d]
  BY DEF StepAt
<1>4. InUse(d)' = InUse(d)
  <2>1. \A t \in L : PtrsOf(d, t, UsedIndexes(carved[t]))'
                       = PtrsOf(d, t, UsedIndexes(carved[t]))
    BY <1>2 DEF PtrsOf
  <2> QED
    BY <1>2, <2>1 DEF InUse
<1>5. FreeObjects(d)' = FreeObjects(d)
  BY <1>2 DEF FreeObjects
<1>6. \A t \in SpanListOf(d)' :
          carved'[t].next_uninitialized = carved'[t].total_objects =>
              carved'[t].total_objects = 0 \/ UsedIndexes(carved'[t]) # {}
  BY <1>1, <1>2 DEF ListExact
<1> QED
  BY <1>1, <1>3, <1>4, <1>5, <1>6 DEF ListExact

-----------------------------------------------------------------------------
(* Calls between span_for and the lock *)

LEMMA OutElements ==
    ASSUME NEW c \in Class
    PROVE  /\ \A x : x \in Out(c) <=> \/ x \in held[c]
                                      \/ \E t \in Thread : /\ pending[t].class = c
                                                           /\ pending[t].ptr = x
           /\ \A x : x \in Out(c)' <=> \/ x \in held'[c]
                                       \/ \E t \in Thread : /\ pending'[t].class = c
                                                            /\ pending'[t].ptr = x
BY DEF Out

LEMMA CallTypes ==
    ASSUME ListsTyped, NEW t \in Thread, pending[t] # NoCall
    PROVE  /\ pending[t].class \in Class /\ pending[t].span \in Span
           /\ pending[t].ptr \in Nat
BY DEF ListsTyped, Call

LEMMA NoCallClass == NoCall.class = NULL
BY DEF NoCall

(* The pointer of a call is an object in use of the span that was found.   *)
LEMMA CallObject ==
    ASSUME ListsInv, ~tearing, NEW t \in Thread, pending[t] # NoCall
    PROVE  LET c == pending[t].class
               s == pending[t].span
           IN  /\ s \in SpanListOf(c) /\ SizeClasses[c].size # 0
               /\ \E i \in UsedIndexes(carved[s]) :
                     /\ ObjectIn(Heap, c, s, i)
                     /\ pending[t].ptr = AddressIn(Heap, c, s, i)
<1> DEFINE c == pending[t].class
           x == pending[t].ptr
<1>1. c \in Class
  BY CallTypes DEF ListsInv
<1>2. ReturnedOnce(t) /\ ListExact(c) /\ Good(Heap, {})
  BY <1>1 DEF ListsInv, IInv
<1>3. x \in Out(c)
  BY <1>1, OutElements
<1>4. x \in InUse(c)
  BY <1>2, <1>3 DEF ListExact
<1>5. PICK s \in SpanListOf(c) : \E i \in UsedIndexes(carved[s]) :
          /\ ObjectIn(Heap, c, s, i) /\ SizeClasses[c].size # 0
          /\ x = AddressIn(Heap, c, s, i)
  BY <1>1, <1>4, InUseObject
<1>6. lookup(Heap, x \div PAGE_SIZE) = s
  BY <1>1, <1>2, <1>5, AddressFound
<1>7. lookup(Heap, x \div PAGE_SIZE) = pending[t].span
  BY <1>2 DEF ReturnedOnce, span_for
<1> QED
  BY <1>5, <1>6, <1>7

(* The page map still leads from the pointer to that span.                 *)
LEMMA CallKept ==
    ASSUME ListsInv, ~tearing, IInv', NEW c \in Class, NEW s, StepAt(c, s),
           NEW t \in Thread, pending[t] # NoCall,
           pending[t].span = s => s \in SpanListOf(c)' /\ SameExtent(s)
    PROVE  lookup(Heap', pending[t].ptr \div PAGE_SIZE) = pending[t].span
<1> DEFINE d == pending[t].class
           u == pending[t].span
<1>1. d \in Class
  BY CallTypes DEF ListsInv
<1>2. u \in SpanListOf(d) /\ SizeClasses[d].size # 0
  BY CallObject
<1>3. PICK i \in UsedIndexes(carved[u]) :
          ObjectIn(Heap, d, u, i) /\ pending[t].ptr = AddressIn(Heap, d, u, i)
  BY CallObject
<1> HIDE DEF d, u
<1>4. /\ ObjectIn(Heap', d, u, i)
      /\ AddressIn(Heap', d, u, i) = pending[t].ptr
  BY <1>1, <1>2, <1>3, ObjectKept DEF u
<1>5. Good(Heap', {})
  BY DEF IInv
<1> QED
  BY <1>1, <1>2, <1>4, <1>5, AddressFound DEF u

-----------------------------------------------------------------------------
(* What a step of one list has to show for the invariant to hold after it. *)
StepDone(c, s) ==
    /\ IInv' /\ ListsTyped' /\ FieldsOK(carved'[s])
    /\ ListOf(cfl'[c].span_list, SpanListOf(c)')
    /\ s \in SpanListOf(c)' => DividedFor(c, s)'
    /\ UNCHANGED tearing

LEMMA StepKeeps ==
    ASSUME ListsInv, NEW c \in Class, NEW s, StepAt(c, s), StepDone(c, s),
           ~tearing => /\ cfl'[c].current_span \in SpanListOf(c)' \cup {NULL}
                       /\ \A d \in Class \ {c} : Out(d)' = Out(d)
                       /\ ListExact(c)'
                       /\ \A t \in Thread : ReturnedOnce(t)',
           tearing => Quiet'
    PROVE  ListsInv'
<1>1. IInv' /\ ListsTyped'
  BY DEF StepDone
<1>2. \A t \in Span : FieldsOK(carved'[t])
  BY DEF StepDone, StepAt, ListsInv
<1>3. SpanOwnership'
  BY OwnershipKept DEF StepDone, ListsInv
<1>4. \A d \in Class : \A t \in SpanListOf(d)' : DividedFor(d, t)'
  BY DividedKept DEF StepDone, ListsInv
<1>5. tearing' = tearing
  BY DEF StepDone
<1>6. ~tearing => \A d \in Class : ListExact(d)'
  BY OthersExact
<1> QED
  BY <1>1, <1>2, <1>3, <1>4, <1>5, <1>6 DEF ListsInv

LEMMA FreeNowFinite ==
    ASSUME ListsInv, NEW c \in Class, NEW s \in Span
    PROVE  IsFiniteSet(FreeNow(c, s)) /\ Cardinality(FreeNow(c, s)) \in Nat
<1>1. FieldsOK(carved[s])
  BY DEF ListsInv
<1>2. IsFiniteSet(FreeNow(c, s))
  BY <1>1, FreeFinite, FS_EmptySet DEF FreeNow
<1> QED
  BY <1>2, FS_CardinalityType

(* What a step has to show for its own list to be exact.                   *)
LEMMA ExactAfter ==
    ASSUME ListsInv, ~tearing, NEW c \in Class, NEW s, StepAt(c, s),
           Out(c)' = InUse(c)', IsFiniteSet(FreeNow(c, s)'),
           cfl'[c].num_free = cfl[c].num_free - Cardinality(FreeNow(c, s))
                                 + Cardinality(FreeNow(c, s)'),
           s \in SpanListOf(c)' =>
               (carved'[s].next_uninitialized = carved'[s].total_objects =>
                   carved'[s].total_objects = 0 \/ UsedIndexes(carved'[s]) # {})
    PROVE  ListExact(c)'
<1>1. SpanOwnership /\ ListExact(c) /\ s \in Span
  BY DEF ListsInv, StepAt
<1>2. IsFiniteSet(FreeNow(c, s))
  BY <1>1, FreeNowFinite
<1>3. /\ IsFiniteSet(FreeObjects(c)')
      /\ Cardinality(FreeObjects(c)') =
            Cardinality(FreeObjects(c)) - Cardinality(FreeNow(c, s))
               + Cardinality(FreeNow(c, s)')
  BY <1>1, <1>2, FreeCount DEF ListExact
<1>4. cfl'[c].num_free = Cardinality(FreeObjects(c)')
  BY <1>1, <1>3 DEF ListExact
<1>5. \A t \in SpanListOf(c)' :
          carved'[t].next_uninitialized = carved'[t].total_objects =>
              carved'[t].total_objects = 0 \/ UsedIndexes(carved'[t]) # {}
  <2> TAKE t \in SpanListOf(c)'
  <2>1. CASE t = s
    BY <2>1
  <2>2. CASE t # s
    <3>1. t \in SpanListOf(c) /\ carved'[t] = carved[t]
      BY <1>1, <2>2, OthersKept
    <3> QED
      BY <1>1, <3>1 DEF ListExact
  <2> QED
    BY <2>1, <2>2
<1> QED
  BY <1>3, <1>4, <1>5 DEF ListExact

-----------------------------------------------------------------------------
(* allocate *)

(* Where allocate stands when it has its span, from the list or fetched.   *)
TakeReady(c, s, l, o) ==
    /\ s \in Span /\ SpansKept(s) /\ Held(s)'
    /\ s \in SpanListOf(c) <=> Held(s)
    /\ s \in SpanListOf(c) => SameExtent(s)
    /\ l \in ListType /\ ListOf(l.span_list, SpanListOf(c) \cup {s})
    /\ l.current_span = s /\ l.num_free = cfl[c].num_free
    /\ FieldsOK(o)
    /\ UsedIndexes(o) = UsedNow(c, s) /\ FreeIndexes(o) = FreeNow(c, s)
    /\ SizeClasses[c].size # 0 /\ span'[s].size = SizeClasses[c].size
    /\ span'[s].num_pages = SizeClasses[c].pages
    /\ o.total_objects = object_count(span'[s].num_pages, SizeClasses[c].size)
    /\ o.freelist = <<>> /\ o.next_uninitialized = o.total_objects
          => o.total_objects = 0

(* allocate ends with list m and the object fields q.                      *)
TakenAs(c, s, m, q) ==
    /\ cfl' = [cfl EXCEPT ![c] = m]
    /\ carved' = [carved EXCEPT ![s] = q]
    /\ UNCHANGED <<pending, tearing>>

TakeFrame(c, s, m, q) ==
    /\ StepAt(c, s) /\ StepDone(c, s)
    /\ cfl'[c] = m /\ carved'[s] = q
    /\ s \in SpanListOf(c)'
    /\ FreeNow(c, s)' = FreeIndexes(q) /\ UsedNow(c, s)' = UsedIndexes(q)

LEMMA TakeFramed ==
    ASSUME ListsInv, IInv', NEW c \in Class, NEW s, NEW l, NEW o,
           TakeReady(c, s, l, o), NEW m, NEW q, TakenAs(c, s, m, q),
           m \in ListType, m.span_list = l.span_list, m.current_span = s,
           FieldsOK(q), q.total_objects = o.total_objects,
           held' \in [Class -> SUBSET Nat]
    PROVE  TakeFrame(c, s, m, q)
<1>1. /\ cfl \in [Class -> ListType] /\ carved \in [Span -> Fields]
      /\ pending \in [Thread -> Call \cup {NoCall}] /\ tearing \in BOOLEAN
  BY DEF ListsInv, ListsTyped
<1>2. s \in Span /\ q \in Fields
  BY DEF TakeReady, FieldsOK
<1>3. cfl'[c] = m /\ \A d \in Class \ {c} : cfl'[d] = cfl[d]
  BY <1>1 DEF TakenAs
<1>4. carved'[s] = q /\ \A t \in Span \ {s} : carved'[t] = carved[t]
  BY <1>1, <1>2 DEF TakenAs
<1>5. ListsTyped'
  BY <1>1, <1>2 DEF TakenAs, ListsTyped
<1>6. /\ SpanListOf(c)' = SpanListOf(c) \cup {s}
      /\ ListOf(cfl'[c].span_list, SpanListOf(c)')
  <2>1. cfl'[c].span_list = l.span_list
    BY <1>3
  <2>2. ListOf(l.span_list, SpanListOf(c) \cup {s})
    BY DEF TakeReady
  <2>3. SpanListOf(c)' = SpanListOf(c) \cup {s}
    BY <2>1, <2>2 DEF SpanListOf, ListOf
  <2> QED
    BY <2>1, <2>2, <2>3
<1>7. StepAt(c, s)
  BY <1>3, <1>4, <1>6 DEF StepAt, TakeReady
<1>8. DividedFor(c, s)'
  BY <1>4 DEF DividedFor, TakeReady
<1>9. StepDone(c, s)
  BY <1>4, <1>5, <1>6, <1>8 DEF StepDone, TakenAs
<1>10. FreeNow(c, s)' = FreeIndexes(q) /\ UsedNow(c, s)' = UsedIndexes(q)
  BY <1>4, <1>6 DEF FreeNow, UsedNow
<1> QED
  BY <1>3, <1>4, <1>6, <1>7, <1>9, <1>10 DEF TakeFrame

(* populate_span, where it is called, makes objects free and uses none.    *)
Populated(o, size) ==
    IF o.freelist = <<>> THEN populate_span(o, size) ELSE o

LEMMA PopulatedFields ==
    ASSUME NEW o, FieldsOK(o), NEW size \in Nat \ {0}
    PROVE  LET q == Populated(o, size) IN
           /\ FieldsOK(q) /\ Carved(o, q)
           /\ q.freelist = <<>> => o.freelist = <<>>
<1>1. CASE o.freelist = <<>>
  BY <1>1, PopulatedOK DEF Populated
<1>2. CASE o.freelist # <<>>
  BY <1>2 DEF Populated, Carved
<1> QED
  BY <1>1, <1>2

(* No caller's call is about a pointer that was not out before.            *)
LEMMA CallsAfterTake ==
    ASSUME ListsInv, ~tearing, IInv', NEW c \in Class, NEW s, StepAt(c, s),
           s \in SpanListOf(c)', s \in SpanListOf(c) => SameExtent(s),
           UNCHANGED pending, NEW X, X \cap InUse(c) = {},
           held'[c] = held[c] \cup X, \A d \in Class \ {c} : held'[d] = held[d]
    PROVE  \A t \in Thread : ReturnedOnce(t)'
<1> SUFFICES ASSUME NEW t \in Thread, pending[t] # NoCall
             PROVE  /\ pending[t].ptr \notin held'[pending[t].class]
                    /\ lookup(Heap', pending[t].ptr \div PAGE_SIZE) = pending[t].span
  BY DEF ReturnedOnce, span_for, ListsInv
<1> DEFINE d == pending[t].class
           x == pending[t].ptr
<1>1. ReturnedOnce(t) /\ d \in Class
  BY CallTypes DEF ListsInv
<1>2. x \notin held[d]
  BY <1>1 DEF ReturnedOnce
<1>3. d = c => x \in InUse(c)
  BY <1>1, OutElements DEF ListsInv, ListExact
<1>4. x \notin held'[d]
  BY <1>1, <1>2, <1>3
<1>5. pending[t].span = s => s \in SpanListOf(c)
  <2> SUFFICES ASSUME pending[t].span = s PROVE Held(s)
    BY DEF StepAt
  <2>1. s \in SpanListOf(d)
    BY CallObject
  <2> QED
    BY <1>1, <2>1, Owned DEF ListsInv
<1>6. lookup(Heap', x \div PAGE_SIZE) = pending[t].span
  BY <1>5, CallKept
<1> QED
  BY <1>4, <1>6

(* The end of allocate: one object more is out, or the span has none.      *)
LEMMA TakeStep ==
    ASSUME ListsInv, ~tearing, IInv', NEW c \in Class, NEW s, NEW l, NEW o,
           TakeReady(c, s, l, o), take_object(c, s, l, o, span'[s].start),
           UNCHANGED <<pending, tearing>>
    PROVE  ListsInv'
<1> DEFINE size == SizeClasses[c].size
           q == Populated(o, size)
           n == l.num_free + (q.num_free_objects - o.num_free_objects)
<1>1. /\ ListExact(c) /\ held \in [Class -> SUBSET Nat]
      /\ cfl \in [Class -> ListType]
  BY DEF ListsInv, ListsTyped
<1>2. /\ s \in Span /\ FieldsOK(o) /\ l \in ListType /\ l.current_span = s
      /\ l.num_free = cfl[c].num_free /\ FreeIndexes(o) = FreeNow(c, s)
      /\ UsedIndexes(o) = UsedNow(c, s)
      /\ s \in SpanListOf(c) => SameExtent(s)
  BY DEF TakeReady
<1>3. size \in Nat \ {0}
  BY ConstantTypes DEF TakeReady
<1>4. FieldsOK(q) /\ Carved(o, q) /\ (q.freelist = <<>> => o.freelist = <<>>)
  BY <1>2, <1>3, PopulatedFields
<1>5. IF q.freelist = <<>>
      THEN TakenAs(c, s, l, q) /\ UNCHANGED held
      ELSE /\ TakenAs(c, s, [l EXCEPT !.num_free = n - 1], popped(q))
           /\ held' = [held EXCEPT ![c] = @ \cup
                  {index_to_ptr(popped_index(q), span_base(span'[s].start), size)}]
  BY DEF take_object, TakenAs, Populated
<1> HIDE DEF q, size
<1>6. CASE q.freelist = <<>>
  <2>1. q = o /\ o.next_uninitialized = o.total_objects
    BY <1>4, <1>6 DEF Carved
  <2>2. TakenAs(c, s, l, o) /\ UNCHANGED held
    BY <1>5, <1>6, <2>1
  <2>3. held' \in [Class -> SUBSET Nat]
    BY <1>1, <2>2
  <2>4. TakeFrame(c, s, l, o)
    BY <1>2, <2>2, <2>3, TakeFramed
  <2>5. /\ StepAt(c, s) /\ StepDone(c, s) /\ s \in SpanListOf(c)'
        /\ cfl'[c] = l /\ carved'[s] = o
        /\ FreeNow(c, s)' = FreeNow(c, s) /\ UsedNow(c, s)' = UsedNow(c, s)
    BY <1>2, <2>4 DEF TakeFrame
  <2>6. \A d \in Class : Out(d)' = Out(d)
    BY <2>2 DEF Out
  <2>7. InUse(c)' = InUse(c)
    BY <1>2, <2>5, SameInUse
  <2>8. ListExact(c)'
    <3>1. IsFiniteSet(FreeNow(c, s)) /\ Cardinality(FreeNow(c, s)) \in Nat
      BY <1>2, FreeNowFinite
    <3>2. cfl[c].num_free \in Int
      BY <1>1 DEF ListType
    <3>3. cfl'[c].num_free = cfl[c].num_free - Cardinality(FreeNow(c, s))
                                + Cardinality(FreeNow(c, s)')
      BY <1>2, <2>5, <3>1, <3>2
    <3>4. carved'[s].total_objects = 0
      BY <1>4, <1>6, <2>1, <2>5 DEF TakeReady
    <3>5. Out(c)' = InUse(c)'
      BY <1>1, <2>6, <2>7 DEF ListExact
    <3> QED
      BY <2>5, <3>1, <3>3, <3>4, <3>5, ExactAfter
  <2>9. \A t \in Thread : ReturnedOnce(t)'
    <3>1. held'[c] = held[c] \cup {} /\ \A d \in Class \ {c} : held'[d] = held[d]
      BY <2>2
    <3>2. {} \cap InUse(c) = {}
      OBVIOUS
    <3> QED
      BY <1>2, <2>5, <3>1, <3>2, CallsAfterTake
  <2>10. cfl'[c].current_span \in SpanListOf(c)'
    BY <1>2, <2>5
  <2> QED
    BY <2>5, <2>6, <2>8, <2>9, <2>10, StepKeeps
<1>7. CASE q.freelist # <<>>
  <2> DEFINE i == popped_index(q)
             r == popped(q)
             x == index_to_ptr(i, span_base(span'[s].start), size)
             m == [l EXCEPT !.num_free = n - 1]
  <2>1. FieldsOK(r) /\ Took(q, r, i)
    BY <1>4, <1>7, PoppedOK
  <2>2. TakenAs(c, s, m, r) /\ held' = [held EXCEPT ![c] = @ \cup {x}]
    BY <1>5, <1>7
  <2>3. /\ q.num_free_objects = Cardinality(FreeIndexes(q))
        /\ o.num_free_objects = Cardinality(FreeIndexes(o))
        /\ r.num_free_objects = Cardinality(FreeIndexes(r))
        /\ q.num_free_objects \in Nat /\ o.num_free_objects \in Nat
        /\ r.num_free_objects = q.num_free_objects - 1
        /\ r.total_objects = o.total_objects
    BY <1>2, <1>4, <2>1 DEF FieldsOK, Fields, Took, Carved
  <2>4. /\ i \in 0 .. q.next_uninitialized - 1 /\ i \in Nat
        /\ i \in 0 .. r.total_objects - 1
        /\ UsedIndexes(r) = UsedIndexes(o) \cup {i} /\ i \notin UsedIndexes(o)
    <3>1. i \in FreeIndexes(q) /\ FreeIndexes(q) \subseteq 0 .. q.next_uninitialized - 1
      BY <1>4, <2>1 DEF Took, FieldsOK
    <3>2. /\ q.next_uninitialized \in Nat /\ q.next_uninitialized <= q.total_objects
          /\ r.total_objects = q.total_objects /\ q.total_objects \in Nat
      BY <1>4, <2>1 DEF FieldsOK, Fields, Took
    <3>3. UsedIndexes(r) = UsedIndexes(q) \cup {i} /\ i \notin UsedIndexes(q)
      BY <2>1, <3>1 DEF Took, UsedIndexes
    <3>4. UsedIndexes(q) = UsedIndexes(o)
      BY <1>4 DEF Carved
    <3> QED
      BY <3>1, <3>2, <3>3, <3>4
  <2>5. /\ n \in Int /\ m \in ListType /\ m.span_list = l.span_list
        /\ m.current_span = s /\ m.num_free = n - 1
    BY <1>2, <2>3 DEF ListType
  <2>6. x \in Nat
    <3>1. Heap' \in HeapType /\ Heap'.span = span'
      BY DEF IInv, Good, Heap
    <3>2. span'[s].start \in Nat
      BY <1>2, <3>1, SpanFields
    <3> QED
      BY <1>3, <2>4, <3>2, ConstantTypes DEF index_to_ptr, span_base
  <2> HIDE DEF i, r, x, m, n
  <2>7. /\ held' \in [Class -> SUBSET Nat] /\ held'[c] = held[c] \cup {x}
        /\ \A d \in Class \ {c} : held'[d] = held[d]
    BY <1>1, <2>2, <2>6
  <2>8. TakeFrame(c, s, m, r)
    BY <2>1, <2>2, <2>3, <2>5, <2>7, TakeFramed
  <2>9. /\ StepAt(c, s) /\ StepDone(c, s) /\ s \in SpanListOf(c)'
        /\ cfl'[c] = m /\ carved'[s] = r
        /\ FreeNow(c, s)' = FreeIndexes(r)
        /\ UsedNow(c, s)' = UsedNow(c, s) \cup {i} /\ i \notin UsedNow(c, s)
    BY <1>2, <2>4, <2>8 DEF TakeFrame
  <2>10. ObjectIn(Heap', c, s, i) /\ AddressIn(Heap', c, s, i) = x
    <3>1. Heap'.span = span'
      BY DEF Heap
    <3>2. r.total_objects = object_count(span'[s].num_pages, size)
      BY <2>3 DEF TakeReady, size
    <3>3. r.total_objects \in Nat
      BY <2>1 DEF FieldsOK, Fields
    <3> QED
      BY <1>2, <2>4, <3>1, <3>2, <3>3
         DEF ObjectIn, AddressIn, TakeReady, Held, x, size
  <2>11. InUse(c)' = InUse(c) \cup {x} /\ x \notin InUse(c)
    BY <1>2, <1>3, <2>9, <2>10, GainOne DEF size
  <2>12. Out(c)' = Out(c) \cup {x} /\ \A d \in Class \ {c} : Out(d)' = Out(d)
    BY <2>7 DEF Out
  <2>13. ListExact(c)'
    <3>1. Out(c)' = InUse(c)'
      BY <1>1, <2>11, <2>12 DEF ListExact
    <3>2. IsFiniteSet(FreeNow(c, s)')
      BY <2>1, <2>9, FreeFinite
    <3>3. cfl[c].num_free \in Int
      BY <1>1 DEF ListType
    <3>4. cfl'[c].num_free = cfl[c].num_free - Cardinality(FreeNow(c, s))
                                + Cardinality(FreeNow(c, s)')
      <4>1. cfl'[c].num_free = n - 1
        BY <2>5, <2>9
      <4>2. n = cfl[c].num_free + (q.num_free_objects - o.num_free_objects)
        BY <1>2 DEF n
      <4>3. /\ Cardinality(FreeNow(c, s)) = o.num_free_objects
            /\ Cardinality(FreeNow(c, s)') = q.num_free_objects - 1
        BY <1>2, <2>3, <2>9
      <4> QED
        BY <2>3, <3>3, <4>1, <4>2, <4>3
    <3>5. UsedIndexes(carved'[s]) # {}
      BY <2>4, <2>9
    <3> QED
      BY <2>9, <3>1, <3>2, <3>4, <3>5, ExactAfter
  <2>14. \A t \in Thread : ReturnedOnce(t)'
    <3>1. {x} \cap InUse(c) = {}
      BY <2>11
    <3> QED
      BY <1>2, <2>7, <2>9, <3>1, CallsAfterTake
  <2>15. cfl'[c].current_span \in SpanListOf(c)'
    BY <2>5, <2>9
  <2> QED
    BY <2>9, <2>12, <2>13, <2>14, <2>15, StepKeeps
<1> QED
  BY <1>6, <1>7

LEMMA LeastNatural ==
    ASSUME NEW T, T \subseteq Nat, T # {}
    PROVE  \E n \in T : \A m \in T : n <= m
<1>1. PICK n \in T : \A m \in T : ~(<<m, n>> \in OpToRel(<, Nat))
  BY NatLessThanWellFounded, WFMin
<1>2. \A m \in T : <<m, n>> \in Nat \X Nat /\ m \in Nat /\ n \in Nat
  OBVIOUS
<1>3. \A m \in T : ~(m < n)
  BY <1>1, <1>2 DEF OpToRel
<1> QED
  BY <1>2, <1>3

(* The span allocate chooses is one of the list and has an object to give. *)
LEMMA ChosenSpan ==
    ASSUME ListsInv, ~tearing, NEW c \in Class, chosen_span(c) # NULL
    PROVE  /\ chosen_span(c) \in SpanListOf(c)
           /\ span_has_available_objects(carved[chosen_span(c)])
<1> DEFINE cur == cfl[c].current_span
           list == cfl[c].span_list
           ok == {i \in DOMAIN list : span_has_available_objects(carved[list[i]])}
<1>1. CASE cur # NULL /\ span_has_available_objects(carved[cur])
  <2>1. chosen_span(c) = cur
    BY <1>1 DEF chosen_span
  <2>2. cur \in SpanListOf(c)
    BY <1>1 DEF ListsInv, SpanOwnership
  <2> QED
    BY <1>1, <2>1, <2>2
<1>2. CASE ~(cur # NULL /\ span_has_available_objects(carved[cur]))
  <2>1. chosen_span(c) = find_available_span(c)
    BY <1>2 DEF chosen_span
  <2>2. ok # {} /\ find_available_span(c) = list[CHOOSE i \in ok : \A j \in ok : i <= j]
    BY <2>1 DEF find_available_span
  <2>3. ok \subseteq Nat
    <3>1. list \in Seq(Span)
      BY DEF ListsInv, ListsTyped, ListType
    <3> QED
      BY <3>1, LenProperties
  <2> DEFINE k == CHOOSE i \in ok : \A j \in ok : i <= j
  <2>4. k \in ok
    <3>1. \E i \in ok : \A j \in ok : i <= j
      BY <2>2, <2>3, LeastNatural
    <3> HIDE DEF ok
    <3> QED
      BY <3>1
  <2>5. chosen_span(c) = list[k]
    BY <2>1, <2>2
  <2> HIDE DEF k
  <2> QED
    BY <2>4, <2>5 DEF SpanListOf
<1> QED
  BY <1>1, <1>2

LEMMA AllocateFromListStep ==
    ASSUME ListsInv, ~tearing, NEW c \in Class, allocate_from_list(c),
           UNCHANGED <<pending, tearing>>
    PROVE  ListsInv'
<1>0. PICK s : s = chosen_span(c)
  OBVIOUS
<1> DEFINE l == [cfl[c] EXCEPT !.current_span = s]
           o == carved[s]
<1>1. /\ s # NULL /\ take_object(c, s, l, o, span[s].start)
      /\ UNCHANGED phvars
  BY <1>0 DEF allocate_from_list
<1>2. s \in SpanListOf(c) /\ span_has_available_objects(o)
  BY <1>0, <1>1, ChosenSpan
<1>3. IInv' /\ span' = span
  BY <1>1, HeapSame DEF ListsInv
<1>4. take_object(c, s, l, o, span'[s].start)
  BY <1>1, <1>3
<1>5. s \in Span /\ Held(s) /\ FieldsOK(o) /\ DividedFor(c, s)
  BY <1>2, Owned DEF ListsInv
<1>6. cfl[c] \in ListType
  BY DEF ListsInv, ListsTyped
<1>7. /\ l \in ListType /\ l.span_list = cfl[c].span_list
      /\ l.current_span = s /\ l.num_free = cfl[c].num_free
  BY <1>5, <1>6 DEF ListType
<1>8. ListOf(l.span_list, SpanListOf(c) \cup {s})
  <2>1. SpanListOf(c) \cup {s} = SpanListOf(c)
    BY <1>2
  <2>2. ListOf(cfl[c].span_list, SpanListOf(c))
    BY <1>6 DEF ListOf, ListType, SpanListOf, ListsInv, SpanOwnership
  <2> QED
    BY <1>7, <2>1, <2>2
<1> HIDE DEF l
<1>9. SpansKept(s) /\ Held(s)' /\ SameExtent(s)
  BY <1>3, <1>5 DEF SpansKept, Held, SameExtent
<1>10. UsedIndexes(o) = UsedNow(c, s) /\ FreeIndexes(o) = FreeNow(c, s)
  BY <1>2 DEF UsedNow, FreeNow
<1>11. o.freelist = <<>> => o.next_uninitialized # o.total_objects
  BY <1>2, <1>5 DEF span_has_available_objects, FieldsOK, Fields
<1>12. TakeReady(c, s, l, o)
  BY <1>2, <1>3, <1>5, <1>7, <1>8, <1>9, <1>10, <1>11 DEF TakeReady, DividedFor
<1> QED
  BY <1>3, <1>4, <1>12, TakeStep

(* The list as fetch_from_page_heap leaves it.                             *)
LEMMA AllocateFetchedStep ==
    ASSUME ListsInv, ~tearing, NEW c \in Class, NEW ret, ret # NULL,
           allocate_after_fetch(c, ret), UNCHANGED <<pending, tearing>>
    PROVE  ListsInv'
<1> DEFINE size == SizeClasses[c].size
           pages == SizeClasses[c].pages
           count == object_count(span'[ret].num_pages, size)
           l == [cfl[c] EXCEPT !.span_list = <<ret>> \o @, !.current_span = ret]
           o == [NotCarved EXCEPT !.total_objects = count]
<1>1. /\ size # 0 /\ allocate_span(pages, size, ret)
      /\ take_object(c, ret, l, o, span'[ret].start)
  BY DEF allocate_after_fetch
<1>2. size \in Sizes /\ size \in Nat \ {0}
  BY <1>1, ConstantTypes
<1>3. IInv' /\ Fetched(ret, pages, size)
  BY <1>1, <1>2, FetchStep DEF ListsInv
<1>4. /\ ret \in Span /\ ~Held(ret) /\ Held(ret)' /\ span'[ret].size = size
      /\ span'[ret].num_pages = pages /\ SpansKept(ret)
  BY <1>3 DEF Fetched
<1>5. ret \notin SpanListOf(c)
  BY <1>4, Owned DEF ListsInv
<1>6. count \in Nat
  <2>1. Heap' \in HeapType /\ Heap'.span = span'
    BY <1>3 DEF IInv, Good, Heap
  <2>2. span'[ret].num_pages \in Nat
    BY <1>4, <2>1, SpanFields
  <2>3. span'[ret].num_pages * PAGE_SIZE \in Nat
    BY <2>2, ConstantTypes
  <2> QED
    BY <1>2, <2>3, DivBounds DEF object_count
<1> HIDE DEF count, size
<1>7. /\ FieldsOK(o) /\ o.freelist = <<>> /\ o.total_objects = count
      /\ o.next_uninitialized = 0
      /\ FreeIndexes(o) = {} /\ UsedIndexes(o) = {}
  BY <1>6, FetchedOK
<1> HIDE DEF o
<1>8. cfl[c] \in ListType
  BY DEF ListsInv, ListsTyped
<1>9. ListOf(cfl[c].span_list, SpanListOf(c))
  BY <1>8 DEF ListOf, ListType, SpanListOf, ListsInv, SpanOwnership
<1>10. ListOf(<<ret>> \o cfl[c].span_list, SpanListOf(c) \cup {ret})
  BY <1>4, <1>5, <1>9, FrontLinks
<1>11. /\ l \in ListType /\ l.span_list = <<ret>> \o cfl[c].span_list
       /\ l.current_span = ret /\ l.num_free = cfl[c].num_free
  <2> DEFINE f == <<ret>> \o cfl[c].span_list
  <2>1. f \in Seq(Span)
    BY <1>10 DEF ListOf
  <2>2. l = [cfl[c] EXCEPT !.span_list = f, !.current_span = ret]
    OBVIOUS
  <2> HIDE DEF f, l
  <2>3. /\ l \in ListType /\ l.span_list = f /\ l.current_span = ret
        /\ l.num_free = cfl[c].num_free
    BY <1>4, <1>8, <2>1, <2>2 DEF ListType
  <2> QED
    BY <2>3 DEF f
<1> HIDE DEF l
<1>12. UsedNow(c, ret) = {} /\ FreeNow(c, ret) = {}
  BY <1>5 DEF UsedNow, FreeNow
<1>13. TakeReady(c, ret, l, o)
  BY <1>2, <1>4, <1>5, <1>7, <1>10, <1>11, <1>12 DEF TakeReady, count, size
<1> QED
  BY <1>1, <1>3, <1>13, TakeStep

(* No span to be had: only current_span is touched.                        *)
LEMMA AllocateFailedStep ==
    ASSUME ListsInv, ~tearing, NEW c \in Class, allocate_after_fetch(c, NULL),
           UNCHANGED <<pending, tearing>>
    PROVE  ListsInv'
<1>1. /\ UNCHANGED phvars
      /\ cfl' = [cfl EXCEPT ![c].current_span = NULL]
      /\ UNCHANGED <<carved, held, pending, tearing>>
  <2>1. ASSUME NEW n, NEW z, allocate_span(n, z, NULL) PROVE UNCHANGED phvars
    <3>1. ~allocate_span_reuse(n, z, NULL)
      <4> SUFFICES ASSUME allocate_span_reuse(n, z, NULL) PROVE FALSE
        OBVIOUS
      <4>1. PICK i \in n .. MAX_PAGES : NULL \in free_lists[i]
        BY DEF allocate_span_reuse, best_span, suitable_lists
      <4>2. n \in 1 .. MAX_PAGES
        BY DEF allocate_span_reuse
      <4>3. i \in 0 .. MAX_PAGES
        BY <4>2, PageHeapAssumption
      <4>4. free_lists \in [0 .. MAX_PAGES -> SUBSET Span]
        BY HeapFields DEF ListsInv, IInv, Good, HeapType
      <4> QED
        BY <4>1, <4>3, <4>4, PageHeapAssumption
    <3>2. ~allocate_span_mmap(n, z, NULL)
      BY FreshNotIn, PageHeapAssumption DEF allocate_span_mmap, HasFresh, Fresh
    <3> QED
      BY <2>1, <3>1, <3>2
         DEF allocate_span, allocate_span_refused, allocate_span_mmap_failed, phvars
  <2> QED
    BY <2>1 DEF allocate_after_fetch
<1>2. IInv' /\ Heap' = Heap /\ span' = span
  BY <1>1, HeapSame DEF ListsInv
<1>3. ListsTyped'
  BY <1>1 DEF ListsInv, ListsTyped, ListType
<1>4. \A d \in Class : /\ cfl'[d].span_list = cfl[d].span_list
                       /\ cfl'[d].num_free = cfl[d].num_free
                       /\ cfl'[d].current_span \in {cfl[d].current_span, NULL}
  BY <1>1 DEF ListsInv, ListsTyped, ListType
<1>5. \A d \in Class : SpanListOf(d)' = SpanListOf(d)
  BY <1>4 DEF SpanListOf
<1>6. SpanOwnership'
  BY <1>1, <1>2, <1>4, <1>5 DEF ListsInv, SpanOwnership, Held
<1>7. \A d \in Class : \A s \in SpanListOf(d)' : DividedFor(d, s)'
  BY <1>1, <1>2, <1>5 DEF ListsInv, DividedFor
<1>8. \A d \in Class : ListExact(d)'
  <2> TAKE d \in Class
  <2>1. ListExact(d)
    BY DEF ListsInv
  <2>2. Out(d)' = Out(d) /\ InUse(d)' = InUse(d) /\ FreeObjects(d)' = FreeObjects(d)
    BY <1>1, <1>2, <1>5 DEF Out, InUse, FreeObjects, PtrsOf
  <2> QED
    BY <1>1, <1>4, <1>5, <2>1, <2>2 DEF ListExact
<1>9. \A t \in Thread : ReturnedOnce(t)'
  BY <1>1, <1>2 DEF ListsInv, ReturnedOnce, span_for
<1> QED
  BY <1>1, <1>2, <1>3, <1>6, <1>7, <1>8, <1>9 DEF ListsInv

-----------------------------------------------------------------------------
(* deallocate *)

(* Steps that leave lists, spans and object fields alone.                  *)
LEMMA ListsSame ==
    ASSUME ListsInv, UNCHANGED <<phvars, cfl, carved>>
    PROVE  /\ IInv' /\ Heap' = Heap
           /\ \A s \in Span : FieldsOK(carved'[s])
           /\ \A c \in Class : \A s \in SpanListOf(c)' : DividedFor(c, s)'
           /\ tearing' \in {tearing, TRUE} => SpanOwnership'
<1>1. IInv' /\ Heap' = Heap /\ span' = span
  BY HeapSame DEF ListsInv
<1>2. \A c \in Class : SpanListOf(c)' = SpanListOf(c)
  BY DEF SpanListOf
<1>3. \A s \in Span : FieldsOK(carved'[s])
  BY DEF ListsInv
<1>4. \A c \in Class : \A s \in SpanListOf(c)' : DividedFor(c, s)'
  BY <1>1, <1>2 DEF ListsInv, DividedFor
<1>5. ASSUME tearing' \in {tearing, TRUE} PROVE SpanOwnership'
  <2>1. SpanOwnership /\ UNCHANGED cfl /\ \A s \in Span : Held(s)' <=> Held(s)
    BY <1>1 DEF ListsInv, Held
  <2>2. {s \in Span : Held(s)'} = {s \in Span : Held(s)}
    BY <2>1
  <2>3. UNION {SpanListOf(c)' : c \in Class} = UNION {SpanListOf(c) : c \in Class}
    BY <1>2
  <2>4. ~tearing' => ~tearing
    BY <1>5
  <2> QED
    BY <1>2, <2>1, <2>2, <2>3, <2>4 DEF SpanOwnership
<1> QED
  BY <1>1, <1>3, <1>4, <1>5

LEMMA ExactSame ==
    ASSUME NEW c \in Class, ListExact(c), UNCHANGED <<phvars, cfl, carved>>,
           Out(c)' = Out(c)
    PROVE  ListExact(c)'
<1>1. SpanListOf(c)' = SpanListOf(c)
  BY DEF SpanListOf
<1>2. InUse(c)' = InUse(c) /\ FreeObjects(c)' = FreeObjects(c)
  BY <1>1 DEF InUse, FreeObjects, PtrsOf, phvars, vars
<1> QED
  BY <1>1, <1>2 DEF ListExact

(* The pointer is found, whatever span it came from, and moves from its    *)
(* holder to the call.                                                     *)
LEMMA LookupStep ==
    ASSUME ListsInv, NEW t \in Thread, NEW c \in Class, NEW ptr \in held[c],
           deallocate_lookup(t, c, ptr)
    PROVE  ListsInv' /\ \A d \in Class : Out(d)' = Out(d)
<1>1. PICK s : s = span_for(ptr \div PAGE_SIZE)
  OBVIOUS
<1> DEFINE call == [class |-> c, ptr |-> ptr, span |-> s]
<1>2. /\ ~tearing /\ pending[t] = NoCall
      /\ held' = [held EXCEPT ![c] = @ \ {ptr}]
      /\ pending' = IF s = NULL THEN pending ELSE [pending EXCEPT ![t] = call]
      /\ UNCHANGED <<phvars, cfl, carved, tearing>>
  BY <1>1 DEF deallocate_lookup
<1>3. /\ held \in [Class -> SUBSET Nat]
      /\ pending \in [Thread -> Call \cup {NoCall}] /\ ListsTyped
  BY DEF ListsInv, ListsTyped
<1>4. /\ IInv' /\ Heap' = Heap
      /\ \A u \in Span : FieldsOK(carved'[u])
      /\ \A d \in Class : \A u \in SpanListOf(d)' : DividedFor(d, u)'
      /\ SpanOwnership'
  BY <1>2, ListsSame
<1>5. s \in Span /\ s # NULL
  <2>1. ptr \in InUse(c)
    BY <1>2, OutElements DEF ListsInv, ListExact
  <2>2. PICK u \in SpanListOf(c) : \E i \in UsedIndexes(carved[u]) :
            /\ ObjectIn(Heap, c, u, i) /\ SizeClasses[c].size # 0
            /\ ptr = AddressIn(Heap, c, u, i)
    BY <2>1, InUseObject
  <2>3. lookup(Heap, ptr \div PAGE_SIZE) = u
    BY <2>2, AddressFound DEF ListsInv, IInv
  <2>4. s = u /\ u \in Span
    BY <1>1, <2>3, Owned DEF span_for, ListsInv
  <2> QED
    BY <2>4, PageHeapAssumption
<1>6. /\ call \in Call /\ call # NoCall
      /\ call.class = c /\ call.ptr = ptr /\ call.span = s
  <2>1. call \in Call
    BY <1>3, <1>5 DEF Call
  <2>2. call # NoCall
    BY ConstantTypes DEF NoCall
  <2> QED
    BY <2>1, <2>2
<1> HIDE DEF call
<1>7. /\ pending' = [pending EXCEPT ![t] = call]
      /\ pending'[t] = call /\ \A u \in Thread \ {t} : pending'[u] = pending[u]
  BY <1>2, <1>3, <1>5
<1>8. /\ held'[c] = held[c] \ {ptr} /\ \A d \in Class \ {c} : held'[d] = held[d]
      /\ held' \in [Class -> SUBSET Nat]
  BY <1>2, <1>3
<1>9. ListsTyped'
  <2>1. pending' \in [Thread -> Call \cup {NoCall}]
    BY <1>3, <1>6, <1>7
  <2> QED
    BY <1>2, <1>3, <1>8, <2>1 DEF ListsTyped
<1>10. \A d \in Class : Out(d)' = Out(d)
  <2> TAKE d \in Class
  <2>1. pending[t].class # d
    BY <1>2, ConstantTypes, NoCallClass
  <2>2. \A x : x \in Out(d) <=> \/ x \in held[d]
                                \/ \E u \in Thread : /\ pending[u].class = d
                                                     /\ pending[u].ptr = x
    BY OutElements
  <2>3. \A x : x \in Out(d)' <=> \/ x \in held'[d]
                                 \/ \E u \in Thread : /\ pending'[u].class = d
                                                      /\ pending'[u].ptr = x
    BY OutElements
  <2>4. \A x : (\E u \in Thread : pending'[u].class = d /\ pending'[u].ptr = x)
                 <=> \/ c = d /\ ptr = x
                     \/ \E u \in Thread : pending[u].class = d /\ pending[u].ptr = x
    BY <1>6, <1>7, <2>1
  <2>5. \A x : x \in Out(d)' <=> x \in Out(d)
    <3>1. CASE d = c
      BY <1>8, <2>2, <2>3, <2>4, <3>1
    <3>2. CASE d # c
      BY <1>8, <2>2, <2>3, <2>4, <3>2
    <3> QED
      BY <3>1, <3>2
  <2> QED
    BY <2>5
<1>11. \A d \in Class : ListExact(d)'
  BY <1>2, <1>10, ExactSame DEF ListsInv
<1>12. \A u \in Thread : ReturnedOnce(u)'
  <2>1. \A u \in Thread : ReturnedOnce(u)
    BY <1>2 DEF ListsInv
  <2>2. \A u \in Thread \ {t} :
            pending[u] # NoCall /\ pending[u].class = c => pending[u].ptr # ptr
    BY <2>1 DEF ReturnedOnce
  <2>3. \A d \in Class : held'[d] \subseteq held[d]
    BY <1>8
  <2> TAKE u \in Thread
  <2>4. CASE u = t
    <3>1. ptr \notin held'[c] /\ lookup(Heap', ptr \div PAGE_SIZE) = s
      BY <1>1, <1>4, <1>8 DEF span_for
    <3> QED
      BY <1>6, <1>7, <2>2, <2>4, <3>1 DEF ReturnedOnce, span_for
  <2>5. CASE u # t
    <3> SUFFICES ASSUME pending[u] # NoCall PROVE ReturnedOnce(u)'
      BY <1>7, <2>5 DEF ReturnedOnce
    <3>1. ReturnedOnce(u) /\ pending'[u] = pending[u] /\ pending[u].class \in Class
      BY <1>3, <1>7, <2>1, <2>5, CallTypes
    <3>2. pending'[u].ptr \notin held'[pending'[u].class]
      BY <2>3, <3>1 DEF ReturnedOnce
    <3>3. \A v \in Thread \ {u} :
              pending'[v] # NoCall /\ pending'[v].class = pending'[u].class =>
                  pending'[v].ptr # pending'[u].ptr
      <4> TAKE v \in Thread \ {u}
      <4>1. CASE v = t
        BY <1>6, <1>7, <2>2, <2>5, <3>1, <4>1
      <4>2. CASE v # t
        BY <1>7, <3>1, <4>2 DEF ReturnedOnce
      <4> QED
        BY <4>1, <4>2
    <3>4. lookup(Heap', pending'[u].ptr \div PAGE_SIZE) = pending'[u].span
      BY <1>4, <3>1 DEF ReturnedOnce, span_for
    <3> QED
      BY <3>2, <3>3, <3>4 DEF ReturnedOnce, span_for
  <2> QED
    BY <2>4, <2>5
<1> QED
  BY <1>2, <1>4, <1>9, <1>10, <1>11, <1>12 DEF ListsInv

(* The call of t ends: its pointer is out no longer, all others still are. *)
CallEnded(t) ==
    /\ pending' = [pending EXCEPT ![t] = NoCall]
    /\ UNCHANGED held

LEMMA OutWithout ==
    ASSUME ListsInv, ~tearing, NEW t \in Thread, pending[t] # NoCall, CallEnded(t),
           NEW c, c = pending[t].class
    PROVE  /\ Out(c)' = Out(c) \ {pending[t].ptr}
           /\ \A d \in Class \ {c} : Out(d)' = Out(d)
           /\ pending' \in [Thread -> Call \cup {NoCall}]
           /\ pending'[t] = NoCall
           /\ \A u \in Thread \ {t} : pending'[u] = pending[u]
<1>1. c = pending[t].class
  OBVIOUS
<1>2. PICK x : x = pending[t].ptr
  OBVIOUS
<1>3. c \in Class /\ pending \in [Thread -> Call \cup {NoCall}]
  BY <1>1, CallTypes DEF ListsInv, ListsTyped
<1>4. /\ pending' \in [Thread -> Call \cup {NoCall}] /\ pending'[t] = NoCall
      /\ \A u \in Thread \ {t} : pending'[u] = pending[u]
  BY <1>3 DEF CallEnded
<1>5. ReturnedOnce(t)
  BY DEF ListsInv
<1>6. /\ x \notin held[c]
      /\ \A u \in Thread \ {t} : pending[u].class = c => pending[u].ptr # x
  <2>1. \A u \in Thread : pending[u].class = c => pending[u] # NoCall
    BY <1>3, ConstantTypes, NoCallClass
  <2> QED
    BY <1>1, <1>2, <1>5, <2>1 DEF ReturnedOnce
<1>7. ASSUME NEW d \in Class
      PROVE  \A y : y \in Out(d)' <=> y \in Out(d) /\ ~(d = c /\ y = x)
  <2>1. pending'[t].class # d
    BY <1>4, ConstantTypes, NoCallClass
  <2>2. \A y : y \in Out(d) <=> \/ y \in held[d]
                                \/ \E u \in Thread : /\ pending[u].class = d
                                                     /\ pending[u].ptr = y
    BY OutElements
  <2>3. \A y : y \in Out(d)' <=> \/ y \in held[d]
                                 \/ \E u \in Thread : /\ pending'[u].class = d
                                                      /\ pending'[u].ptr = y
    BY OutElements DEF CallEnded
  <2>4. \A y : (\E u \in Thread : pending'[u].class = d /\ pending'[u].ptr = y)
                 <=> \E u \in Thread \ {t} : pending[u].class = d /\ pending[u].ptr = y
    BY <1>4, <2>1
  <2>5. \A y : (\E u \in Thread : pending[u].class = d /\ pending[u].ptr = y)
                 <=> \/ d = c /\ y = x
                     \/ \E u \in Thread \ {t} : pending[u].class = d /\ pending[u].ptr = y
    BY <1>1, <1>2
  <2> QED
    BY <1>6, <2>2, <2>3, <2>4, <2>5
<1>8. Out(c)' = Out(c) \ {x} /\ \A d \in Class \ {c} : Out(d)' = Out(d)
  BY <1>3, <1>7
<1> QED
  BY <1>1, <1>2, <1>4, <1>8

(* The other calls are as good as before.                                  *)
LEMMA CallsAfterEnd ==
    ASSUME ListsInv, ~tearing, NEW t \in Thread, pending[t] # NoCall, CallEnded(t),
           \A u \in Thread \ {t} : pending[u] # NoCall =>
               lookup(Heap', pending[u].ptr \div PAGE_SIZE) = pending[u].span
    PROVE  \A u \in Thread : ReturnedOnce(u)'
<1>1. /\ pending'[t] = NoCall /\ \A u \in Thread \ {t} : pending'[u] = pending[u]
      /\ held' = held
  BY OutWithout DEF CallEnded
<1>2. \A u \in Thread : ReturnedOnce(u)
  BY DEF ListsInv
<1> TAKE u \in Thread
<1>3. CASE u = t
  BY <1>1, <1>3 DEF ReturnedOnce
<1>4. CASE u # t
  <2> SUFFICES ASSUME pending[u] # NoCall PROVE ReturnedOnce(u)'
    BY <1>1, <1>4 DEF ReturnedOnce
  <2>1. pending'[u] = pending[u] /\ ReturnedOnce(u)
    BY <1>1, <1>2, <1>4
  <2>2. pending'[u].ptr \notin held'[pending'[u].class]
    BY <1>1, <2>1 DEF ReturnedOnce
  <2>3. \A v \in Thread \ {u} :
            pending'[v] # NoCall /\ pending'[v].class = pending'[u].class =>
                pending'[v].ptr # pending'[u].ptr
    BY <1>1, <2>1 DEF ReturnedOnce
  <2>4. lookup(Heap', pending'[u].ptr \div PAGE_SIZE) = pending'[u].span
    BY <1>4, <2>1
  <2> QED
    BY <2>2, <2>3, <2>4 DEF ReturnedOnce, span_for
<1> QED
  BY <1>3, <1>4

(* What deallocate has computed when it decides whether to release.        *)
Pushed(t, c, s, i, o) ==
    /\ c \in Class /\ s \in Span
    /\ c = pending[t].class /\ s = pending[t].span
    /\ s \in SpanListOf(c) /\ SizeClasses[c].size # 0
    /\ i \in UsedIndexes(carved[s])
    /\ ObjectIn(Heap, c, s, i) /\ pending[t].ptr = AddressIn(Heap, c, s, i)
    /\ FieldsOK(o) /\ Took(o, carved[s], i)

LEMMA PushedStep ==
    ASSUME ListsInv, ~tearing, NEW t \in Thread, pending[t] # NoCall
    PROVE  LET c == pending[t].class
               s == pending[t].span
               size == SizeClasses[c].size
               idx == ptr_to_index(pending[t].ptr, span_base(span[s].start), size)
           IN  \E i : Pushed(t, c, s, i, pushed(carved[s], idx, size))
<1> DEFINE c == pending[t].class
           s == pending[t].span
           size == SizeClasses[c].size
<1>1. c \in Class /\ s \in Span
  BY CallTypes DEF ListsInv
<1>2. s \in SpanListOf(c) /\ size # 0
  BY CallObject
<1>3. PICK i \in UsedIndexes(carved[s]) :
          ObjectIn(Heap, c, s, i) /\ pending[t].ptr = AddressIn(Heap, c, s, i)
  BY CallObject
<1>4. FieldsOK(carved[s]) /\ Heap \in HeapType
  BY <1>1 DEF ListsInv, IInv, Good
<1> HIDE DEF c, s
<1>5. ptr_to_index(pending[t].ptr, span_base(span[s].start), size) = i
  <2>1. i \in Nat /\ i < object_count(span[s].num_pages, size)
    BY <1>3, HeapFields DEF ObjectIn
  <2>2. i < 65536
    <3>1. span[s].num_pages = SizeClasses[c].pages
      BY <1>1, <1>2 DEF ListsInv, DividedFor
    <3>2. object_count(span[s].num_pages, size) < 65536
      BY <1>1, <1>2, <3>1, IndexAssumption
    <3>3. object_count(span[s].num_pages, size) \in Nat
      <4>1. SizeClasses[c].pages * PAGE_SIZE \in Nat /\ size \in Nat \ {0}
        BY <1>1, <1>2, ConstantTypes
      <4> QED
        BY <3>1, <4>1, DivBounds DEF object_count
    <3> QED
      BY <2>1, <3>2, <3>3
  <2>3. ptr_to_index(AddressIn(Heap, c, s, i), span_base(Heap.span[s].start), size) = i
    BY <1>1, <1>2, <1>4, <2>1, <2>2, IndexRecovered
  <2> QED
    BY <1>3, <2>3, HeapFields
<1>6. size \in Nat
  BY <1>1, ConstantTypes
<1>7. /\ FieldsOK(pushed(carved[s], i, size))
      /\ Took(pushed(carved[s], i, size), carved[s], i)
  BY <1>4, <1>6, PushedOK
<1>8. Pushed(t, c, s, i, pushed(carved[s], i, size))
  BY <1>1, <1>2, <1>3, <1>7 DEF Pushed, c, s
<1> QED
  BY <1>5, <1>8 DEF c, s

LEMMA PushedCounts ==
    ASSUME ListsInv, NEW t, NEW c, NEW s, NEW i, NEW o, Pushed(t, c, s, i, o)
    PROVE  /\ UsedIndexes(o) = UsedIndexes(carved[s]) \ {i}
           /\ o.num_free_objects = Cardinality(FreeIndexes(o))
           /\ carved[s].num_free_objects = Cardinality(FreeIndexes(carved[s]))
           /\ carved[s].num_free_objects \in Nat
           /\ o.num_free_objects = carved[s].num_free_objects + 1
           /\ o.total_objects = carved[s].total_objects
<1>1. FieldsOK(carved[s]) /\ FieldsOK(o) /\ Took(o, carved[s], i)
  BY DEF Pushed, ListsInv
<1>2. /\ carved[s].num_free_objects \in Nat /\ o.num_free_objects \in Nat
      /\ carved[s].num_free_objects = o.num_free_objects - 1
      /\ o.total_objects = carved[s].total_objects
      /\ o.num_free_objects = Cardinality(FreeIndexes(o))
      /\ carved[s].num_free_objects = Cardinality(FreeIndexes(carved[s]))
  BY <1>1 DEF FieldsOK, Fields, Took
<1>3. UsedIndexes(o) = UsedIndexes(carved[s]) \ {i}
  BY <1>1 DEF Took, UsedIndexes
<1> QED
  BY <1>2, <1>3

(* The step of a deallocate, seen from its list: span s stays with one     *)
(* object fewer in use, or goes because it was the last.                   *)
Dropped(t, c, s, i, o) ==
    /\ CallEnded(t) /\ Pushed(t, c, s, i, o)
    /\ StepAt(c, s) /\ StepDone(c, s)
    /\ IF is_fully_free(o)
       THEN s \notin SpanListOf(c)'
       ELSE s \in SpanListOf(c)' /\ SameExtent(s) /\ carved'[s] = o
    /\ cfl'[c].current_span \in SpanListOf(c)' \cup {NULL}
    /\ cfl'[c].num_free = cfl[c].num_free - Cardinality(FreeNow(c, s))
                             + Cardinality(FreeNow(c, s)')

(* A span goes with the object that is being returned: another call cannot *)
(* be on its way to it.                                                    *)
LEMMA OtherCallsElsewhere ==
    ASSUME ListsInv, ~tearing, NEW t \in Thread, pending[t] # NoCall,
           NEW c, NEW s, NEW i, NEW o, Pushed(t, c, s, i, o), is_fully_free(o),
           NEW u \in Thread \ {t}, pending[u] # NoCall
    PROVE  pending[u].span # s
<1> SUFFICES ASSUME pending[u].span = s PROVE FALSE
  OBVIOUS
<1>1. UsedIndexes(carved[s]) \ {i} = {}
  <2>1. FieldsOK(o)
    BY DEF Pushed
  <2>2. UsedIndexes(o) = UsedIndexes(carved[s]) \ {i}
    BY PushedCounts
  <2>3. UsedIndexes(o) = {}
    BY <2>1, FullyFree
  <2> QED
    BY <2>2, <2>3
<1>2. pending[u].class \in Class /\ c \in Class
  BY CallTypes DEF ListsInv, Pushed
<1>3. s \in SpanListOf(pending[u].class)
  BY CallObject
<1>4. PICK j \in UsedIndexes(carved[s]) :
          pending[u].ptr = AddressIn(Heap, pending[u].class, s, j)
  BY CallObject
<1>5. s \in SpanListOf(c)
  BY DEF Pushed
<1>6. pending[u].class = c
  BY <1>2, <1>3, <1>5, Owned DEF ListsInv
<1>7. pending[u].ptr = pending[t].ptr
  BY <1>1, <1>4, <1>6 DEF Pushed
<1>8. ReturnedOnce(t) /\ pending[t].class = c
  BY DEF ListsInv, Pushed
<1> QED
  BY <1>6, <1>7, <1>8 DEF ReturnedOnce

LEMMA DroppedKeeps ==
    ASSUME ListsInv, ~tearing, NEW t \in Thread, pending[t] # NoCall,
           NEW c, NEW s, NEW i, NEW o, Dropped(t, c, s, i, o)
    PROVE  ListsInv'
<1>1. /\ CallEnded(t) /\ Pushed(t, c, s, i, o) /\ StepAt(c, s) /\ StepDone(c, s)
      /\ c \in Class /\ s \in Span /\ s \in SpanListOf(c) /\ c = pending[t].class
      /\ i \in UsedIndexes(carved[s]) /\ FieldsOK(o) /\ FieldsOK(carved'[s])
      /\ pending[t].ptr = AddressIn(Heap, c, s, i) /\ IInv'
  BY DEF Dropped, Pushed, StepDone
<1>2. s \in SpanListOf(c)' =>
          SameExtent(s) /\ carved'[s] = o /\ ~is_fully_free(o)
  BY DEF Dropped
<1>3. s \notin SpanListOf(c)' => is_fully_free(o)
  BY DEF Dropped
<1>4. i \in UsedNow(c, s) /\ UsedNow(c, s)' = UsedNow(c, s) \ {i}
  <2>1. UsedIndexes(o) = UsedIndexes(carved[s]) \ {i}
    BY <1>1, PushedCounts
  <2>2. is_fully_free(o) => UsedIndexes(o) = {}
    BY <1>1, FullyFree
  <2> QED
    BY <1>1, <1>2, <1>3, <2>1, <2>2 DEF UsedNow
<1>5. InUse(c)' = InUse(c) \ {pending[t].ptr}
  <2>1. s \in SpanListOf(c)' => SameExtent(s)
    BY <1>2
  <2>2. InUse(c)' = InUse(c) \ {AddressIn(Heap, c, s, i)}
    BY <1>1, <1>4, <2>1, LoseOne
  <2> QED
    BY <1>1, <2>2
<1>6. /\ Out(c)' = Out(c) \ {pending[t].ptr}
      /\ \A d \in Class \ {c} : Out(d)' = Out(d)
  BY <1>1, OutWithout
<1>7. Out(c)' = InUse(c)'
  BY <1>1, <1>5, <1>6 DEF ListsInv, ListExact
<1>8. IsFiniteSet(FreeNow(c, s)')
  BY <1>1, FreeFinite, FS_EmptySet DEF FreeNow
<1>9. s \in SpanListOf(c)' =>
          (carved'[s].next_uninitialized = carved'[s].total_objects =>
              carved'[s].total_objects = 0 \/ UsedIndexes(carved'[s]) # {})
  BY <1>1, <1>2, FullyFree
<1>10. cfl'[c].num_free = cfl[c].num_free - Cardinality(FreeNow(c, s))
                             + Cardinality(FreeNow(c, s)')
  BY DEF Dropped
<1>11. ListExact(c)'
  BY <1>1, <1>7, <1>8, <1>9, <1>10, ExactAfter
<1>12. \A u \in Thread \ {t} : pending[u] # NoCall =>
           lookup(Heap', pending[u].ptr \div PAGE_SIZE) = pending[u].span
  <2> SUFFICES ASSUME NEW u \in Thread \ {t}, pending[u] # NoCall
               PROVE  lookup(Heap', pending[u].ptr \div PAGE_SIZE) = pending[u].span
    OBVIOUS
  <2>1. pending[u].span = s => s \in SpanListOf(c)' /\ SameExtent(s)
    BY <1>1, <1>2, <1>3, OtherCallsElsewhere
  <2> QED
    BY <1>1, <2>1, CallKept
<1>13. \A u \in Thread : ReturnedOnce(u)'
  BY <1>1, <1>12, CallsAfterEnd
<1>14. cfl'[c].current_span \in SpanListOf(c)' \cup {NULL}
  BY DEF Dropped
<1> QED
  BY <1>1, <1>6, <1>11, <1>13, <1>14, StepKeeps

(* Another object of the span is still out: the span stays.                *)
LEMMA KeptStep ==
    ASSUME ListsInv, ~tearing, NEW t \in Thread, pending[t] # NoCall, CallEnded(t),
           NEW c, NEW s, NEW i, NEW o, Pushed(t, c, s, i, o), ~is_fully_free(o),
           cfl' = [cfl EXCEPT ![c] = [cfl[c] EXCEPT !.num_free = @ + 1]],
           carved' = [carved EXCEPT ![s] = o],
           UNCHANGED <<phvars, tearing>>
    PROVE  Dropped(t, c, s, i, o)
<1>1. /\ c \in Class /\ s \in Span /\ s \in SpanListOf(c) /\ FieldsOK(o)
      /\ o \in Fields
  BY DEF Pushed, FieldsOK
<1>2. /\ cfl \in [Class -> ListType] /\ carved \in [Span -> Fields]
      /\ held \in [Class -> SUBSET Nat] /\ tearing \in BOOLEAN
      /\ IInv /\ SpanOwnership
  BY DEF ListsInv, ListsTyped
<1>3. IInv' /\ Heap' = Heap /\ span' = span
  BY <1>2, HeapSame
<1>4. /\ cfl[c].num_free \in Int /\ cfl[c].span_list \in Seq(Span)
      /\ cfl[c].current_span \in Span \cup {NULL} /\ cfl[c] \in ListType
  BY <1>1, <1>2 DEF ListType
<1>5. /\ cfl'[c] \in ListType /\ cfl'[c].span_list = cfl[c].span_list
      /\ cfl'[c].current_span = cfl[c].current_span
      /\ cfl'[c].num_free = cfl[c].num_free + 1
  <2>1. cfl'[c] = [cfl[c] EXCEPT !.num_free = @ + 1]
    BY <1>1, <1>2
  <2> QED
    BY <1>4, <2>1 DEF ListType
<1>6. /\ \A d \in Class \ {c} : cfl'[d] = cfl[d]
      /\ carved'[s] = o /\ \A x \in Span \ {s} : carved'[x] = carved[x]
  BY <1>1, <1>2
<1>7. ListsTyped'
  <2>1. pending' \in [Thread -> Call \cup {NoCall}] /\ held' = held
    BY OutWithout DEF CallEnded
  <2>2. cfl' \in [Class -> ListType]
    BY <1>2, <1>5, <1>6
  <2>3. carved' \in [Span -> Fields]
    BY <1>1, <1>2
  <2> QED
    BY <1>2, <2>1, <2>2, <2>3 DEF ListsTyped
<1>8. SpanListOf(c)' = SpanListOf(c)
  BY <1>5 DEF SpanListOf
<1>9. Held(s) /\ Held(s)' /\ SpansKept(s) /\ SameExtent(s)
  BY <1>1, <1>2, <1>3, Owned DEF SpansKept, SameExtent, Held
<1>10. StepAt(c, s)
  BY <1>1, <1>6, <1>8, <1>9 DEF StepAt
<1>11. ListOf(cfl'[c].span_list, SpanListOf(c)')
  BY <1>1, <1>2, <1>4, <1>5, <1>8 DEF ListOf, SpanListOf, SpanOwnership
<1>12. DividedFor(c, s)'
  <2>1. DividedFor(c, s)
    BY <1>1 DEF ListsInv
  <2>2. o.total_objects = carved[s].total_objects
    BY PushedCounts
  <2> QED
    BY <1>3, <1>6, <2>1, <2>2 DEF DividedFor
<1>13. StepDone(c, s)
  BY <1>1, <1>3, <1>6, <1>7, <1>11, <1>12 DEF StepDone
<1>14. cfl'[c].current_span \in SpanListOf(c)' \cup {NULL}
  BY <1>1, <1>2, <1>5, <1>8 DEF SpanOwnership
<1>15. cfl'[c].num_free = cfl[c].num_free - Cardinality(FreeNow(c, s))
                             + Cardinality(FreeNow(c, s)')
  <2>1. FreeNow(c, s) = FreeIndexes(carved[s]) /\ FreeNow(c, s)' = FreeIndexes(o)
    BY <1>1, <1>6, <1>8 DEF FreeNow
  <2>2. PICK n : n = Cardinality(FreeNow(c, s))
    OBVIOUS
  <2>3. n \in Nat /\ Cardinality(FreeNow(c, s)') = n + 1
    BY <2>1, <2>2, PushedCounts
  <2> QED
    BY <1>4, <1>5, <2>2, <2>3
<1> QED
  BY <1>1, <1>6, <1>8, <1>9, <1>10, <1>13, <1>14, <1>15 DEF Dropped

(* It was the last one: the span is unlinked and goes back.                *)
LEMMA ReleasedStep ==
    ASSUME ListsInv, ~tearing, NEW t \in Thread, pending[t] # NoCall, CallEnded(t),
           NEW c, NEW s, NEW i, NEW o, Pushed(t, c, s, i, o), is_fully_free(o),
           cfl' = [cfl EXCEPT ![c] =
                      unlinked([cfl[c] EXCEPT !.num_free = @ + 1], s, o)],
           carved' = [carved EXCEPT ![s] = NotCarved],
           return_span(s), UNCHANGED tearing
    PROVE  Dropped(t, c, s, i, o)
<1>1. c \in Class /\ s \in Span /\ s \in SpanListOf(c)
  BY DEF Pushed
<1>2. /\ cfl \in [Class -> ListType] /\ carved \in [Span -> Fields]
      /\ held \in [Class -> SUBSET Nat] /\ tearing \in BOOLEAN
      /\ IInv /\ SpanOwnership
  BY DEF ListsInv, ListsTyped
<1>3. IInv' /\ Held(s) /\ ~Held(s)' /\ SpansKept(s)
  BY <1>1, <1>2, ReleaseStep
<1>4. /\ cfl[c].num_free \in Int /\ cfl[c].span_list \in Seq(Span)
      /\ cfl[c].current_span \in Span \cup {NULL} /\ cfl[c] \in ListType
  BY <1>1, <1>2 DEF ListType
<1>5. /\ carved[s].num_free_objects \in Nat
      /\ o.num_free_objects = carved[s].num_free_objects + 1
      /\ carved[s].num_free_objects = Cardinality(FreeIndexes(carved[s]))
  BY PushedCounts
<1> DEFINE g == list_without(cfl[c].span_list, s)
<1>6. ListOf(g, SpanListOf(c) \ {s})
  <2>1. ListOf(cfl[c].span_list, SpanListOf(c))
    BY <1>1, <1>2, <1>4 DEF ListOf, SpanListOf, SpanOwnership
  <2> QED
    BY <1>1, <2>1, WithoutLinks
<1>7. g \in Seq(Span)
  BY <1>6 DEF ListOf
<1>8. PICK cur : cur = IF cfl[c].current_span = s THEN NULL ELSE cfl[c].current_span
  OBVIOUS
<1>9. /\ cfl'[c] \in ListType /\ cfl'[c].span_list = g
      /\ cfl'[c].current_span = cur
      /\ cfl'[c].num_free = cfl[c].num_free - carved[s].num_free_objects
  <2>1. cfl'[c] = unlinked([cfl[c] EXCEPT !.num_free = @ + 1], s, o)
    BY <1>1, <1>2
  <2>2. PICK l : l = [cfl[c] EXCEPT !.num_free = @ + 1]
    OBVIOUS
  <2>3. /\ l \in ListType /\ l.span_list = cfl[c].span_list
        /\ l.current_span = cfl[c].current_span /\ l.num_free = cfl[c].num_free + 1
    BY <1>4, <2>2 DEF ListType
  <2>4. cfl'[c] = [l EXCEPT !.span_list = g, !.current_span = cur,
                            !.num_free = l.num_free - o.num_free_objects]
    BY <1>8, <2>1, <2>2, <2>3 DEF unlinked
  <2>5. cur \in Span \cup {NULL}
    BY <1>4, <1>8
  <2>6. PICK n : n = l.num_free - o.num_free_objects
    OBVIOUS
  <2>7. n \in Int /\ n = cfl[c].num_free - carved[s].num_free_objects
    BY <1>4, <1>5, <2>3, <2>6
  <2>8. PICK w : w = g
    OBVIOUS
  <2> HIDE DEF g
  <2>9. cfl'[c] = [l EXCEPT !.span_list = w, !.current_span = cur, !.num_free = n]
    BY <2>4, <2>6, <2>8
  <2>10. w \in Seq(Span)
    BY <1>7, <2>8
  <2>11. ASSUME NEW m, m = [l EXCEPT !.span_list = w, !.current_span = cur,
                                     !.num_free = n]
         PROVE  /\ m \in ListType /\ m.span_list = w
                /\ m.current_span = cur /\ m.num_free = n
    BY <2>3, <2>5, <2>7, <2>10, <2>11 DEF ListType
  <2> QED
    BY <2>7, <2>8, <2>9, <2>11
<1> HIDE DEF g
<1>10. /\ \A d \in Class \ {c} : cfl'[d] = cfl[d]
       /\ carved'[s] = NotCarved /\ \A x \in Span \ {s} : carved'[x] = carved[x]
  BY <1>1, <1>2
<1>11. FieldsOK(NotCarved) /\ NotCarved \in Fields
  BY NotCarvedOK DEF FieldsOK
<1>12. ListsTyped'
  <2>1. pending' \in [Thread -> Call \cup {NoCall}] /\ held' = held
    BY OutWithout DEF CallEnded
  <2>2. cfl' \in [Class -> ListType]
    BY <1>2, <1>9, <1>10
  <2>3. carved' \in [Span -> Fields]
    BY <1>2, <1>11
  <2> QED
    BY <1>2, <2>1, <2>2, <2>3 DEF ListsTyped
<1>13. SpanListOf(c)' = SpanListOf(c) \ {s}
  <2>1. SpanListOf(c)' = {g[j] : j \in DOMAIN g}
    BY <1>9 DEF SpanListOf
  <2> QED
    BY <1>6, <2>1 DEF ListOf
<1>14. StepAt(c, s)
  BY <1>1, <1>3, <1>10, <1>13 DEF StepAt
<1>15. StepDone(c, s)
  BY <1>3, <1>6, <1>9, <1>10, <1>11, <1>12, <1>13 DEF StepDone
<1>16. cfl'[c].current_span \in SpanListOf(c)' \cup {NULL}
  <2>1. cfl[c].current_span \in SpanListOf(c) \cup {NULL}
    BY <1>1, <1>2 DEF SpanOwnership
  <2> QED
    BY <1>8, <1>9, <1>13, <2>1
<1>17. cfl'[c].num_free = cfl[c].num_free - Cardinality(FreeNow(c, s))
                             + Cardinality(FreeNow(c, s)')
  <2>1. FreeNow(c, s) = FreeIndexes(carved[s]) /\ FreeNow(c, s)' = {}
    BY <1>1, <1>13 DEF FreeNow
  <2>2. Cardinality(FreeNow(c, s)') = 0
    BY <2>1, FS_EmptySet
  <2> QED
    BY <1>4, <1>5, <1>9, <2>1, <2>2
<1> QED
  BY <1>13, <1>14, <1>15, <1>16, <1>17 DEF Dropped

LEMMA DeallocateLockedStep ==
    ASSUME ListsInv, NEW t \in Thread, deallocate_locked(t)
    PROVE  ListsInv'
<1>1. pending[t] # NoCall /\ UNCHANGED tearing /\ CallEnded(t)
  BY DEF deallocate_locked, CallEnded
<1>2. ~tearing
  BY <1>1 DEF ListsInv, Quiet
<1>3. PICK c : c = pending[t].class
  OBVIOUS
<1>4. PICK s : s = pending[t].span
  OBVIOUS
<1>5. PICK o : o = pushed(carved[s],
                      ptr_to_index(pending[t].ptr, span_base(span[s].start),
                                   SizeClasses[c].size),
                      SizeClasses[c].size)
  OBVIOUS
<1>6. PICK i : Pushed(t, c, s, i, o)
  BY <1>1, <1>2, <1>3, <1>4, <1>5, PushedStep
<1>7. CASE is_fully_free(o)
  <2>1. /\ cfl' = [cfl EXCEPT ![c] =
                      unlinked([cfl[c] EXCEPT !.num_free = @ + 1], s, o)]
        /\ carved' = [carved EXCEPT ![s] = NotCarved]
        /\ return_span(s)
    BY <1>3, <1>4, <1>5, <1>7 DEF deallocate_locked
  <2> QED
    BY <1>1, <1>2, <1>6, <1>7, <2>1, ReleasedStep, DroppedKeeps
<1>8. CASE ~is_fully_free(o)
  <2>1. /\ cfl' = [cfl EXCEPT ![c] = [cfl[c] EXCEPT !.num_free = @ + 1]]
        /\ carved' = [carved EXCEPT ![s] = o]
        /\ UNCHANGED phvars
    BY <1>3, <1>4, <1>5, <1>8 DEF deallocate_locked
  <2> QED
    BY <1>1, <1>2, <1>6, <1>8, <2>1, KeptStep, DroppedKeeps
<1> QED
  BY <1>7, <1>8

-----------------------------------------------------------------------------
(* Destruction *)

(* The lists are destroyed when no call is under way.                      *)
LEMMA TeardownStep ==
    ASSUME ListsInv, begin_teardown
    PROVE  ListsInv'
<1>1. UNCHANGED <<phvars, cfl, carved>> /\ tearing' = TRUE /\ UNCHANGED pending
  BY DEF begin_teardown
<1>2. /\ IInv' /\ SpanOwnership'
      /\ \A s \in Span : FieldsOK(carved'[s])
      /\ \A c \in Class : \A s \in SpanListOf(c)' : DividedFor(c, s)'
  BY <1>1, ListsSame
<1>3. Quiet'
  BY DEF begin_teardown, Quiet
<1>4. ListsTyped'
  BY <1>1 DEF begin_teardown, ListsInv, ListsTyped
<1> QED
  BY <1>1, <1>2, <1>3, <1>4 DEF ListsInv

(* ~CentralFreeList returns the first span of its list, whole, although    *)
(* the counters are not kept up any more.                                  *)
LEMMA DestructorStep ==
    ASSUME ListsInv, NEW c \in Class, destructor_step(c)
    PROVE  ListsInv'
<1>1. /\ cfl \in [Class -> ListType] /\ carved \in [Span -> Fields]
      /\ IInv /\ SpanOwnership /\ ListsTyped /\ cfl[c] \in ListType
  BY DEF ListsInv, ListsTyped
<1>2. PICK l : l = cfl[c].span_list
  OBVIOUS
<1>3. PICK s : s = Head(l)
  OBVIOUS
<1>4. /\ tearing /\ l # <<>> /\ return_span(s)
      /\ carved' = [carved EXCEPT ![s] = NotCarved]
      /\ cfl' = [cfl EXCEPT ![c] = IF Len(l) = 1 THEN NewList
                                   ELSE [cfl[c] EXCEPT !.span_list = Tail(l)]]
      /\ UNCHANGED <<held, pending, tearing>>
  BY <1>1, <1>2, <1>3 DEF destructor_step
<1>5. ListOf(l, SpanListOf(c))
  BY <1>1, <1>2 DEF ListOf, SpanListOf, SpanOwnership, ListType
<1>6. /\ s \in SpanListOf(c) /\ ListOf(Tail(l), SpanListOf(c) \ {s})
      /\ Len(l) = 1 => SpanListOf(c) = {s}
  BY <1>3, <1>4, <1>5, TailLinks
<1>7. s \in Span
  BY <1>1, <1>6, Owned
<1>8. IInv' /\ Held(s) /\ ~Held(s)' /\ SpansKept(s)
  BY <1>1, <1>4, <1>7, ReleaseStep
<1>9. /\ cfl'[c] \in ListType
      /\ ListOf(cfl'[c].span_list, SpanListOf(c) \ {s})
  <2>1. CASE Len(l) = 1
    <3>1. cfl'[c] = NewList
      BY <1>1, <1>4, <2>1
    <3>2. NewList \in ListType /\ NewList.span_list = <<>>
      BY DEF NewList, ListType
    <3> QED
      BY <1>6, <2>1, <3>1, <3>2, EmptyLinks
  <2>2. CASE Len(l) # 1
    <3>1. cfl'[c] = [cfl[c] EXCEPT !.span_list = Tail(l)]
      BY <1>1, <1>4, <2>2
    <3>2. Tail(l) \in Seq(Span)
      BY <1>6 DEF ListOf
    <3>3. cfl'[c] \in ListType /\ cfl'[c].span_list = Tail(l)
      BY <1>1, <3>1, <3>2 DEF ListType
    <3> QED
      BY <1>6, <3>3
  <2> QED
    BY <2>1, <2>2
<1>10. /\ \A d \in Class \ {c} : cfl'[d] = cfl[d]
       /\ carved'[s] = NotCarved /\ \A x \in Span \ {s} : carved'[x] = carved[x]
  BY <1>1, <1>4, <1>7
<1>11. SpanListOf(c)' = SpanListOf(c) \ {s}
  BY <1>9 DEF SpanListOf, ListOf
<1>12. FieldsOK(NotCarved) /\ NotCarved \in Fields
  BY NotCarvedOK DEF FieldsOK
<1>13. ListsTyped'
  <2>1. cfl' \in [Class -> ListType]
    BY <1>1, <1>4, <1>9, <1>10
  <2>2. carved' \in [Span -> Fields]
    BY <1>1, <1>4, <1>12
  <2> QED
    BY <1>1, <1>4, <2>1, <2>2 DEF ListsTyped
<1>14. StepAt(c, s)
  BY <1>6, <1>7, <1>8, <1>10, <1>11 DEF StepAt
<1>15. StepDone(c, s)
  BY <1>4, <1>8, <1>9, <1>10, <1>11, <1>12, <1>13 DEF StepDone
<1>16. Quiet'
  BY <1>4 DEF ListsInv, Quiet
<1> QED
  BY <1>4, <1>14, <1>15, <1>16, StepKeeps

(* ~PageHeap runs after the last list has returned its spans.              *)
LEMMA PageHeapDestructorStep ==
    ASSUME ListsInv, page_heap_destructor
    PROVE  ListsInv'
<1>1. /\ tearing /\ destroy({}) /\ UNCHANGED <<cfl, carved, held, pending, tearing>>
      /\ \A c \in Class : cfl[c].span_list = <<>>
  BY DEF page_heap_destructor
<1>2. IInv' /\ \A s \in Span : ~Held(s) /\ ~Held(s)'
  BY <1>1, UnmapStep DEF ListsInv
<1>3. \A c \in Class : SpanListOf(c)' = {} /\ SpanListOf(c) = {}
  BY <1>1 DEF SpanListOf
<1>4. SpanOwnership'
  <2>1. {s \in Span : Held(s)'} = {} /\ UNION {SpanListOf(c)' : c \in Class} = {}
    BY <1>2, <1>3
  <2> QED
    BY <1>1, <1>3, <2>1 DEF SpanOwnership
<1> QED
  BY <1>1, <1>2, <1>3, <1>4 DEF ListsInv, ListsTyped, Quiet

LEMMA ListsStutter ==
    ASSUME ListsInv, UNCHANGED listvars
    PROVE  ListsInv'
<1>1. UNCHANGED <<phvars, cfl, carved>> /\ UNCHANGED <<held, pending, tearing>>
  BY DEF listvars, phvars, vars
<1>2. /\ IInv' /\ Heap' = Heap /\ SpanOwnership'
      /\ \A s \in Span : FieldsOK(carved'[s])
      /\ \A c \in Class : \A s \in SpanListOf(c)' : DividedFor(c, s)'
  BY <1>1, ListsSame
<1>3. ListsTyped' /\ (tearing' => Quiet')
  BY <1>1 DEF ListsInv, ListsTyped, Quiet
<1>4. ~tearing' => \A c \in Class : ListExact(c)'
  <2>1. \A c \in Class : Out(c)' = Out(c)
    BY <1>1 DEF Out
  <2> QED
    BY <1>1, <2>1, ExactSame DEF ListsInv
<1>5. ~tearing' => \A t \in Thread : ReturnedOnce(t)'
  BY <1>1, <1>2 DEF ListsInv, ReturnedOnce, span_for
<1> QED
  BY <1>2, <1>3, <1>4, <1>5 DEF ListsInv

-----------------------------------------------------------------------------
(* The invariant *)

LEMMA ListsInitInv == ListsInit => ListsInv
<1> SUFFICES ASSUME ListsInit PROVE ListsInv
  OBVIOUS
<1>1. IInv /\ \A s \in Span : ~Held(s)
  <2>1. Init
    BY DEF ListsInit
  <2>2. \A s \in Span : ~span[s].live
    BY <2>1 DEF Init, Deleted
  <2> QED
    BY <2>1, <2>2, InitIInv DEF Held
<1>2. \A c \in Class : cfl[c] = NewList /\ held[c] = {}
  BY DEF ListsInit
<1>3. NewList \in ListType /\ NewList.span_list = <<>> /\ NewList.num_free = 0
      /\ NewList.current_span = NULL
  BY DEF NewList, ListType
<1>4. \A c \in Class : SpanListOf(c) = {}
  BY <1>2, <1>3 DEF SpanListOf
<1>5. FieldsOK(NotCarved) /\ NotCarved \in Fields
  BY NotCarvedOK DEF FieldsOK
<1>6. (\A s \in Span : FieldsOK(carved[s])) /\ carved \in [Span -> Fields]
  BY <1>5 DEF ListsInit
<1>7. ListsTyped
  BY <1>3, <1>6 DEF ListsInit, ListsTyped
<1>8. SpanOwnership
  <2>1. {s \in Span : Held(s)} = {} /\ UNION {SpanListOf(c) : c \in Class} = {}
    BY <1>1, <1>4
  <2> QED
    BY <1>2, <1>3, <1>4, <2>1 DEF SpanOwnership
<1>9. \A t \in Thread : pending[t] = NoCall
  BY DEF ListsInit
<1>10. \A c \in Class : ListExact(c)
  <2> TAKE c \in Class
  <2>1. Out(c) = {}
    <3>1. \A t \in Thread : pending[t].class # c
      BY <1>9, NoCallClass, ConstantTypes
    <3> QED
      BY <1>2, <3>1 DEF Out
  <2>2. InUse(c) = {} /\ FreeObjects(c) = {}
    BY <1>4 DEF InUse, FreeObjects
  <2> QED
    BY <1>2, <1>3, <1>4, <2>1, <2>2, FS_EmptySet DEF ListExact
<1>11. \A t \in Thread : ReturnedOnce(t)
  BY <1>9 DEF ReturnedOnce
<1> QED
  BY <1>1, <1>4, <1>6, <1>7, <1>8, <1>10, <1>11 DEF ListsInit, ListsInv

LEMMA ListsStep == ListsInv /\ [ListsNext]_listvars => ListsInv'
<1> SUFFICES ASSUME ListsInv, [ListsNext]_listvars PROVE ListsInv'
  OBVIOUS
<1>1. ASSUME NEW c \in Class, allocate(c) PROVE ListsInv'
  <2>1. ~tearing /\ UNCHANGED <<pending, tearing>>
    BY <1>1 DEF allocate
  <2>2. CASE allocate_from_list(c)
    BY <2>1, <2>2, AllocateFromListStep
  <2>3. ASSUME NEW ret \in Span \cup {NULL}, allocate_after_fetch(c, ret)
        PROVE  ListsInv'
    BY <2>1, <2>3, AllocateFetchedStep, AllocateFailedStep
  <2> QED
    BY <1>1, <2>2, <2>3 DEF allocate
<1>2. ASSUME NEW t \in Thread, NEW c \in Class, NEW ptr \in held[c],
             deallocate_lookup(t, c, ptr)
      PROVE  ListsInv'
  BY <1>2, LookupStep
<1> QED
  BY <1>1, <1>2, DeallocateLockedStep, TeardownStep, DestructorStep,
     PageHeapDestructorStep, ListsStutter DEF ListsNext

(* The central free lists keep their invariant, whatever calls of whatever *)
(* threads interleave, and on the way through the destructors.             *)
THEOREM ListsInvariant == ListsSpec => []ListsInv
BY ListsInitInv, ListsStep, PTL DEF ListsSpec

(* Every span that the page heap has given out is in exactly one list,     *)
(* once, and the cached current_span is never a span that was released     *)
(* (fetch_from_page_heap, release_to_page_heap, the destructor).           *)
THEOREM OwnershipHolds == ListsSpec => []SpanOwnership
<1>1. ListsInv => SpanOwnership
  BY DEF ListsInv
<1> QED
  BY <1>1, ListsInvariant, PTL

(* deallocate may use the span it looked up before it took the lock: no    *)
(* interleaving releases it or gives the pointer to another span.          *)
THEOREM PendingSpanStaysValid == ListsSpec => []PendingSpanValid
<1>1. ListsInv => PendingSpanValid
  <2> SUFFICES ASSUME ListsInv, NEW t \in Thread, pending[t] # NoCall
               PROVE  /\ pending[t].span \in SpanListOf(pending[t].class)
                      /\ span_for(pending[t].ptr \div PAGE_SIZE) = pending[t].span
    BY DEF PendingSpanValid
  <2>1. ~tearing
    BY DEF ListsInv, Quiet
  <2>2. ReturnedOnce(t)
    BY <2>1 DEF ListsInv
  <2> QED
    BY <2>1, <2>2, CallObject DEF ReturnedOnce
<1> QED
  BY <1>1, ListsInvariant, PTL

-----------------------------------------------------------------------------
(* Objects that are out *)

LEMMA OutObject ==
    ASSUME ListsInv, NEW c \in Class, NEW x \in Out(c)
    PROVE  /\ ~tearing
           /\ \E s \in SpanListOf(c) : \E i \in UsedIndexes(carved[s]) :
                 /\ ObjectIn(Heap, c, s, i) /\ SizeClasses[c].size # 0
                 /\ x = AddressIn(Heap, c, s, i)
<1>1. ~tearing
  <2> SUFFICES ASSUME tearing PROVE FALSE
    OBVIOUS
  <2>1. held[c] = {} /\ \A t \in Thread : pending[t] = NoCall
    BY DEF ListsInv, Quiet
  <2>2. \A t \in Thread : pending[t].class # c
    BY <2>1, NoCallClass, ConstantTypes
  <2> QED
    BY <2>1, <2>2, OutElements
<1>2. x \in InUse(c)
  BY <1>1 DEF ListsInv, ListExact
<1> QED
  BY <1>1, <1>2, InUseObject

(* Every byte of an object that is out is on a mapped page of its span     *)
(* (object_count, index_to_ptr).                                           *)
THEOREM ObjectsInsideHolds == ListsSpec => []ObjectsInside
<1>1. ListsInv => ObjectsInside
  <2> SUFFICES ASSUME ListsInv, NEW c \in Class, NEW x \in Out(c),
                      NEW b \in x .. x + SizeClasses[c].size - 1
               PROVE  /\ b \div PAGE_SIZE \in mapped
                      /\ span_for(b \div PAGE_SIZE) = span_for(x \div PAGE_SIZE)
    BY DEF ObjectsInside
  <2>1. PICK s, i :
            /\ s \in SpanListOf(c) /\ i \in UsedIndexes(carved[s])
            /\ ObjectIn(Heap, c, s, i) /\ SizeClasses[c].size # 0
            /\ x = AddressIn(Heap, c, s, i)
    BY OutObject
  <2>2. Good(Heap, {}) /\ Heap \in HeapType /\ Accounted
    BY DEF ListsInv, IInv, Good
  <2>3. x \in Nat /\ SizeClasses[c].size \in Nat
    BY <2>1, <2>2, AddressType, ConstantTypes DEF ObjectIn
  <2>4. b \in Nat /\ x <= b /\ b < x + SizeClasses[c].size
    BY <2>3
  <2>5. /\ b \div PAGE_SIZE \in Page /\ lookup(Heap, b \div PAGE_SIZE) = s
        /\ Heap.page_map[b \div PAGE_SIZE] = s
    BY <2>1, <2>2, <2>4, ByteFound
  <2>6. lookup(Heap, x \div PAGE_SIZE) = s
    BY <2>1, <2>2, AddressFound
  <2>7. s # NULL
    BY <2>1, PageHeapAssumption DEF ObjectIn
  <2> QED
    BY <2>2, <2>5, <2>6, <2>7, HeapFields DEF Accounted, span_for
<1> QED
  BY <1>1, ListsInvariant, PTL

(* From any pointer that is out, span_for leads to a span that carries the *)
(* size of the class the object came from (Allocator::deallocate).         *)
THEOREM ClassRecoveredHolds == ListsSpec => []ClassRecovered
<1>1. ListsInv => ClassRecovered
  <2> SUFFICES ASSUME ListsInv, NEW c \in Class, NEW x \in Out(c)
               PROVE  /\ span_for(x \div PAGE_SIZE) # NULL
                      /\ span[span_for(x \div PAGE_SIZE)].size = SizeClasses[c].size
    BY DEF ClassRecovered
  <2>1. PICK s, i :
            /\ s \in SpanListOf(c) /\ i \in UsedIndexes(carved[s])
            /\ ObjectIn(Heap, c, s, i) /\ SizeClasses[c].size # 0
            /\ x = AddressIn(Heap, c, s, i)
    BY OutObject
  <2>2. Good(Heap, {}) /\ DividedFor(c, s)
    BY <2>1 DEF ListsInv, IInv
  <2>3. span_for(x \div PAGE_SIZE) = s
    BY <2>1, <2>2, AddressFound DEF span_for
  <2>4. s # NULL
    BY <2>1, PageHeapAssumption DEF ObjectIn
  <2> QED
    BY <2>2, <2>3, <2>4 DEF DividedFor
<1> QED
  BY <1>1, ListsInvariant, PTL

(* What is out of a span is what was carved and is not in its list.        *)
LEMMA OutUsed ==
    ASSUME ListsInv, ~tearing, NEW c \in Class, NEW s \in SpanListOf(c)
    PROVE  OutIndexes(c, s) = UsedIndexes(carved[s])
<1>1. /\ s \in Span /\ FieldsOK(carved[s]) /\ Out(c) = InUse(c) /\ Good(Heap, {})
  BY Owned DEF ListsInv, ListExact, IInv
<1>2. UsedIndexes(carved[s]) \subseteq 0 .. carved[s].total_objects - 1
  BY <1>1, UsedBounds
<1>3. \A i : index_to_ptr(i, span_base(span[s].start), SizeClasses[c].size)
               = AddressIn(Heap, c, s, i)
  BY HeapFields DEF AddressIn
<1>4. \A i \in UsedIndexes(carved[s]) : AddressIn(Heap, c, s, i) \in InUse(c)
  BY <1>3 DEF InUse, PtrsOf
<1>5. ASSUME NEW i \in 0 .. carved[s].total_objects - 1,
             AddressIn(Heap, c, s, i) \in InUse(c)
      PROVE  i \in UsedIndexes(carved[s])
  <2>1. ObjectIn(Heap, c, s, i) /\ SizeClasses[c].size # 0
    BY ListedObject
  <2>2. PICK t, j :
            /\ t \in SpanListOf(c) /\ j \in UsedIndexes(carved[t])
            /\ ObjectIn(Heap, c, t, j)
            /\ AddressIn(Heap, c, s, i) = AddressIn(Heap, c, t, j)
    BY <1>5, InUseObject
  <2>3. s = t /\ i = j
    BY <1>1, <2>1, <2>2, SameObject
  <2> QED
    BY <2>2, <2>3
<1>6. OutIndexes(c, s) = {i \in 0 .. carved[s].total_objects - 1 :
                             AddressIn(Heap, c, s, i) \in InUse(c)}
  BY <1>1, <1>3 DEF OutIndexes
<1> QED
  BY <1>2, <1>4, <1>5, <1>6

(* Every carved object is either free, in its span's list, or out with one *)
(* caller: none is handed out twice, is free while held, or is forgotten   *)
(* (populate_span, allocate, deallocate).                                  *)
THEOREM PartitionHolds == ListsSpec => []ObjectsPartitioned
<1>1. ListsInv => ObjectsPartitioned
  <2> SUFFICES ASSUME ListsInv, ~tearing, NEW c \in Class
               PROVE  /\ \A s \in SpanListOf(c) :
                            /\ FreeIndexes(carved[s]) \cap OutIndexes(c, s) = {}
                            /\ FreeIndexes(carved[s]) \cup OutIndexes(c, s)
                                  = 0 .. carved[s].next_uninitialized - 1
                      /\ Out(c) = UNION {PtrsOf(c, s, OutIndexes(c, s)) :
                                            s \in SpanListOf(c)}
    BY DEF ObjectsPartitioned
  <2>1. \A s \in SpanListOf(c) : OutIndexes(c, s) = UsedIndexes(carved[s])
    BY OutUsed
  <2>2. \A s \in SpanListOf(c) : FieldsOK(carved[s])
    BY Owned DEF ListsInv
  <2>3. \A s \in SpanListOf(c) :
            /\ FreeIndexes(carved[s]) \cap UsedIndexes(carved[s]) = {}
            /\ FreeIndexes(carved[s]) \cup UsedIndexes(carved[s])
                  = 0 .. carved[s].next_uninitialized - 1
    BY <2>2 DEF FieldsOK, UsedIndexes
  <2>4. Out(c) = UNION {PtrsOf(c, s, UsedIndexes(carved[s])) : s \in SpanListOf(c)}
    BY DEF ListsInv, ListExact, InUse
  <2>5. \A s \in SpanListOf(c) : PtrsOf(c, s, OutIndexes(c, s))
                                   = PtrsOf(c, s, UsedIndexes(carved[s]))
    BY <2>1
  <2>6. Out(c) = UNION {PtrsOf(c, s, OutIndexes(c, s)) : s \in SpanListOf(c)}
    BY <2>4, <2>5
  <2> QED
    BY <2>1, <2>3, <2>6
<1> QED
  BY <1>1, ListsInvariant, PTL

(* A span's num_free_objects is the number of entries of its unrolled      *)
(* list, none repeated, and a list's num_free is the sum over its spans.   *)
THEOREM CountsHold == ListsSpec => []CountsExact
<1>1. ListsInv => CountsExact
  <2> SUFFICES ASSUME ListsInv PROVE CountsExact
    OBVIOUS
  <2>1. \A s \in Span :
            /\ carved[s].num_free_objects = FreeEntries(carved[s])
            /\ carved[s].num_free_objects = Cardinality(FreeIndexes(carved[s]))
    BY EntriesCounted DEF ListsInv, FieldsOK
  <2>2. ~tearing => \A c \in Class : cfl[c].num_free = Cardinality(FreeObjects(c))
    BY DEF ListsInv, ListExact
  <2> QED
    BY <2>1, <2>2 DEF CountsExact, FreeObjects
<1> QED
  BY <1>1, ListsInvariant, PTL

(* No span whose objects are all carved and all free stays in a list: the  *)
(* deallocate that returns the last one releases it.                       *)
THEOREM FullyFreeReleasedHolds == ListsSpec => []FullyFreeReleased
<1>1. ListsInv => FullyFreeReleased
  <2> SUFFICES ASSUME ListsInv, ~tearing, NEW c \in Class, NEW s \in SpanListOf(c),
                      carved[s].next_uninitialized = carved[s].total_objects
               PROVE  carved[s].total_objects = 0 \/ OutIndexes(c, s) # {}
    BY DEF FullyFreeReleased
  <2>1. OutIndexes(c, s) = UsedIndexes(carved[s])
    BY OutUsed
  <2> QED
    BY <2>1 DEF ListsInv, ListExact
<1> QED
  BY <1>1, ListsInvariant, PTL

-----------------------------------------------------------------------------
(* The lists implement RegionSpec *)

(* The regions that are out, as RegionSpec sees them.                      *)
Regions == UNION {{<<x, SizeClasses[c].size>> : x \in Out(c)} : c \in Class}

Apart(r, q) == r[1] + r[2] <= q[1] \/ q[1] + q[2] <= r[1]

(* Objects in use of the same span belong to the same class.               *)
LEMMA SameClass ==
    ASSUME ListsInv, NEW c \in Class, NEW d \in Class, NEW s,
           s \in SpanListOf(c), s \in SpanListOf(d)
    PROVE  c = d
BY Owned DEF ListsInv

(* Two objects of one span lie side by side.                               *)
LEMMA IndexesApart ==
    ASSUME NEW base \in Nat, NEW size \in Nat, NEW i \in Nat, NEW j \in Nat, i < j
    PROVE  index_to_ptr(i, base, size) + size <= index_to_ptr(j, base, size)
<1>1. (i + 1) * size <= j * size
  BY Monotone
<1>2. (i + 1) * size = i * size + size
  OBVIOUS
<1> DEFINE a == i * size
           b == j * size
<1>3. a \in Nat /\ b \in Nat
  OBVIOUS
<1>4. a + size <= b
  BY <1>1, <1>2
<1> HIDE DEF a, b
<1>5. base + a + size <= base + b
  BY <1>3, <1>4
<1> QED
  BY <1>5 DEF a, b, index_to_ptr

LEMMA ObjectsApart ==
    ASSUME ListsInv, NEW c \in Class, NEW d \in Class,
           NEW x \in Out(c), NEW y \in Out(d), c # d \/ x # y
    PROVE  Apart(<<x, SizeClasses[c].size>>, <<y, SizeClasses[d].size>>)
<1>1. PICK s, i : /\ s \in SpanListOf(c) /\ i \in UsedIndexes(carved[s])
                  /\ ObjectIn(Heap, c, s, i) /\ SizeClasses[c].size # 0
                  /\ x = AddressIn(Heap, c, s, i)
  BY OutObject
<1>2. PICK t, j : /\ t \in SpanListOf(d) /\ j \in UsedIndexes(carved[t])
                  /\ ObjectIn(Heap, d, t, j) /\ SizeClasses[d].size # 0
                  /\ y = AddressIn(Heap, d, t, j)
  BY OutObject
<1>3. Good(Heap, {}) /\ Heap \in HeapType
  BY DEF ListsInv, IInv, Good
<1>4. /\ s \in Span /\ t \in Span /\ i \in Nat /\ j \in Nat
      /\ SizeClasses[c].size \in Nat /\ SizeClasses[d].size \in Nat
      /\ x \in Nat /\ y \in Nat
  BY <1>1, <1>2, <1>3, AddressType, ConstantTypes DEF ObjectIn
<1>5. PICK m, n : m = SizeClasses[c].size /\ n = SizeClasses[d].size
  OBVIOUS
<1>6. x + m <= y \/ y + n <= x
  <2>1. CASE s = t
    <3>1. c = d /\ i # j
      BY <1>1, <1>2, <2>1, SameClass
    <3>2. PICK base : base = span_base(Heap.span[s].start)
      OBVIOUS
    <3>3. base \in Nat
      BY <1>3, <1>4, <3>2, SpanFields, ConstantTypes DEF span_base
    <3>4. x = index_to_ptr(i, base, m) /\ y = index_to_ptr(j, base, m) /\ m = n
      BY <1>1, <1>2, <1>5, <2>1, <3>1, <3>2 DEF AddressIn
    <3>5. i < j \/ j < i
      BY <1>4, <3>1
    <3> QED
      BY <1>4, <1>5, <3>3, <3>4, <3>5, IndexesApart
  <2>2. CASE s # t
    <3> SUFFICES ASSUME ~(x + m <= y), ~(y + n <= x) PROVE FALSE
      OBVIOUS
    <3>1. PICK b \in Nat : x <= b /\ b < x + m /\ y <= b /\ b < y + n
      <4>1. CASE x <= y
        BY <1>1, <1>2, <1>4, <1>5, <4>1
      <4>2. CASE ~(x <= y)
        BY <1>1, <1>2, <1>4, <1>5, <4>2
      <4> QED
        BY <4>1, <4>2
    <3> QED
      BY <1>1, <1>2, <1>3, <1>5, <2>2, <3>1, BytesApart
  <2> QED
    BY <2>1, <2>2
<1> QED
  BY <1>4, <1>5, <1>6 DEF Apart

LEMMA RegionElements ==
    /\ \A r : r \in Regions <=> \E c \in Class : \E x \in Out(c) :
                                    r = <<x, SizeClasses[c].size>>
    /\ \A r : r \in Regions' <=> \E c \in Class : \E x \in Out(c)' :
                                    r = <<x, SizeClasses[c].size>>
BY DEF Regions

(* Different regions are disjoint.                                         *)
AllApart == \A r, q \in Regions : r # q => Apart(r, q)

LEMMA RegionsApart == ListsInv => AllApart
<1> SUFFICES ASSUME ListsInv, NEW r \in Regions, NEW q \in Regions, r # q
             PROVE  Apart(r, q)
  BY DEF AllApart
<1>1. PICK c \in Class : \E x \in Out(c) : r = <<x, SizeClasses[c].size>>
  BY RegionElements
<1>2. PICK x \in Out(c) : r = <<x, SizeClasses[c].size>>
  BY <1>1
<1>3. PICK d \in Class : \E y \in Out(d) : q = <<y, SizeClasses[d].size>>
  BY RegionElements
<1>4. PICK y \in Out(d) : q = <<y, SizeClasses[d].size>>
  BY <1>3
<1>5. c # d \/ x # y
  BY <1>2, <1>4
<1> QED
  BY <1>2, <1>4, <1>5, ObjectsApart

(* No address is out for two classes.                                      *)
LEMMA OutOnce ==
    ASSUME ListsInv, NEW c \in Class, NEW d \in Class, NEW x,
           x \in Out(c), x \in Out(d)
    PROVE  c = d
<1>1. PICK s, i : /\ s \in SpanListOf(c)
                  /\ ObjectIn(Heap, c, s, i) /\ SizeClasses[c].size # 0
                  /\ x = AddressIn(Heap, c, s, i)
  BY OutObject
<1>2. PICK t, j : /\ t \in SpanListOf(d)
                  /\ ObjectIn(Heap, d, t, j) /\ SizeClasses[d].size # 0
                  /\ x = AddressIn(Heap, d, t, j)
  BY OutObject
<1>3. Good(Heap, {})
  BY DEF ListsInv, IInv
<1>4. lookup(Heap, x \div PAGE_SIZE) = s /\ lookup(Heap, x \div PAGE_SIZE) = t
  BY <1>1, <1>2, <1>3, AddressFound
<1> QED
  BY <1>1, <1>2, <1>4, SameClass

(* One more object is out: it is disjoint from all that were.              *)
LEMMA HandsOut ==
    ASSUME ListsInv', NEW c \in Class, NEW x, Out(c)' = Out(c) \cup {x},
           \A d \in Class \ {c} : Out(d)' = Out(d)
    PROVE  Holders!SpecNext \/ Regions' = Regions
<1>1. PICK r : r = <<x, SizeClasses[c].size>>
  OBVIOUS
<1>2. Regions' = Regions \cup {r}
  <2>1. \A q : q \in Regions' <=> q \in Regions \/ q = r
    <3> TAKE q
    <3>1. ASSUME q \in Regions' PROVE q \in Regions \/ q = r
      <4>1. PICK d \in Class : \E y \in Out(d)' : q = <<y, SizeClasses[d].size>>
        BY <3>1, RegionElements
      <4>2. PICK y \in Out(d)' : q = <<y, SizeClasses[d].size>>
        BY <4>1
      <4>3. y \in Out(d) \/ (d = c /\ y = x)
        BY <4>2
      <4> QED
        BY <1>1, <4>2, <4>3, RegionElements
    <3>2. ASSUME q \in Regions PROVE q \in Regions'
      <4>1. PICK d \in Class : \E y \in Out(d) : q = <<y, SizeClasses[d].size>>
        BY <3>2, RegionElements
      <4>2. Out(d) \subseteq Out(d)'
        OBVIOUS
      <4> QED
        BY <4>1, <4>2, RegionElements
    <3>3. r \in Regions'
      BY <1>1, RegionElements
    <3> QED
      BY <3>1, <3>2, <3>3
  <2> QED
    BY <2>1
<1>3. CASE r \in Regions
  BY <1>2, <1>3
<1>4. CASE r \notin Regions
  <2>1. \A q \in Regions : Apart(r, q)
    <3>1. AllApart'
      BY RegionsApart, PTL
    <3> QED
      BY <1>2, <1>4, <3>1 DEF AllApart
  <2>2. Holders!HandOut(r)
    BY <1>2, <1>4, <2>1 DEF Holders!HandOut, Holders!Disjoint, Apart, Regions
  <2>3. r \in Regions'
    BY <1>2
  <2> QED
    BY <2>2, <2>3 DEF Holders!SpecNext, Regions
<1> QED
  BY <1>3, <1>4

(* One object fewer is out.                                                *)
LEMMA GivesBack ==
    ASSUME ListsInv, NEW c \in Class, NEW x \in Out(c), Out(c)' = Out(c) \ {x},
           \A d \in Class \ {c} : Out(d)' = Out(d)
    PROVE  Holders!SpecNext
<1>1. PICK r : r = <<x, SizeClasses[c].size>>
  OBVIOUS
<1>2. r \in Regions
  BY <1>1, RegionElements
<1>3. \A q : q \in Regions' <=> q \in Regions /\ q # r
  <2> TAKE q
  <2>1. ASSUME q \in Regions' PROVE q \in Regions /\ q # r
    <3>1. PICK d \in Class : \E y \in Out(d)' : q = <<y, SizeClasses[d].size>>
      BY <2>1, RegionElements
    <3>2. PICK y \in Out(d)' : q = <<y, SizeClasses[d].size>>
      BY <3>1
    <3>3. y \in Out(d) /\ ~(d = c /\ y = x)
      BY <3>2
    <3>4. y # x
      BY <3>3, OutOnce
    <3> QED
      BY <1>1, <3>2, <3>3, <3>4, RegionElements
  <2>2. ASSUME q \in Regions, q # r PROVE q \in Regions'
    <3>1. PICK d \in Class : \E y \in Out(d) : q = <<y, SizeClasses[d].size>>
      BY <2>2, RegionElements
    <3>2. PICK y \in Out(d) : q = <<y, SizeClasses[d].size>>
      BY <3>1
    <3>3. y \in Out(d)'
      BY <1>1, <2>2, <3>2
    <3> QED
      BY <3>2, <3>3, RegionElements
  <2> QED
    BY <2>1, <2>2
<1>4. Regions' = Regions \ {r}
  BY <1>3
<1>5. Holders!GiveBack(r)
  BY <1>2, <1>4 DEF Holders!GiveBack, Regions
<1> QED
  BY <1>2, <1>5 DEF Holders!SpecNext, Regions

LEMMA SameRegions ==
    ASSUME \A d \in Class : Out(d)' = Out(d)
    PROVE  Regions' = Regions
BY DEF Regions

LEMMA RegionsStep ==
    ListsInv /\ ListsInv' /\ [ListsNext]_listvars => Holders!SpecNext \/ Regions' = Regions
<1> SUFFICES ASSUME ListsInv, ListsInv', [ListsNext]_listvars
             PROVE  Holders!SpecNext \/ Regions' = Regions
  OBVIOUS
<1>1. ASSUME UNCHANGED <<held, pending>> PROVE Regions' = Regions
  BY <1>1, SameRegions DEF Out
<1>2. ASSUME NEW c \in Class, NEW s, NEW l, NEW o, NEW first,
             take_object(c, s, l, o, first), UNCHANGED pending
      PROVE  Holders!SpecNext \/ Regions' = Regions
  <2>1. CASE held' = held
    BY <1>1, <1>2, <2>1
  <2>2. ASSUME NEW x, held' = [held EXCEPT ![c] = held[c] \cup {x}]
        PROVE  Holders!SpecNext \/ Regions' = Regions
    <3>1. held'[c] = held[c] \cup {x} /\ \A d \in Class \ {c} : held'[d] = held[d]
      BY <2>2 DEF ListsInv, ListsTyped
    <3>2. Out(c)' = Out(c) \cup {x} /\ \A d \in Class \ {c} : Out(d)' = Out(d)
      BY <1>2, <3>1 DEF Out
    <3> QED
      BY <3>2, HandsOut
  <2> QED
    BY <1>2, <2>1, <2>2 DEF take_object
<1>3. ASSUME NEW c \in Class, allocate(c)
      PROVE  Holders!SpecNext \/ Regions' = Regions
  <2>1. UNCHANGED pending
    BY <1>3 DEF allocate
  <2>2. CASE allocate_from_list(c)
    BY <1>2, <2>1, <2>2 DEF allocate_from_list
  <2>3. ASSUME NEW ret \in Span \cup {NULL}, allocate_after_fetch(c, ret)
        PROVE  Holders!SpecNext \/ Regions' = Regions
    <3>1. CASE ret = NULL
      BY <1>1, <2>1, <2>3, <3>1 DEF allocate_after_fetch
    <3>2. CASE ret # NULL
      BY <1>2, <2>1, <2>3, <3>2 DEF allocate_after_fetch
    <3> QED
      BY <3>1, <3>2
  <2> QED
    BY <1>3, <2>2, <2>3 DEF allocate
<1>4. ASSUME NEW t \in Thread, NEW c \in Class, NEW ptr \in held[c],
             deallocate_lookup(t, c, ptr)
      PROVE  Regions' = Regions
  BY <1>4, LookupStep, SameRegions
<1>5. ASSUME NEW t \in Thread, deallocate_locked(t) PROVE Holders!SpecNext
  <2>1. pending[t] # NoCall /\ CallEnded(t)
    BY <1>5 DEF deallocate_locked, CallEnded
  <2>2. ~tearing
    BY <2>1 DEF ListsInv, Quiet
  <2>3. PICK c, x : c = pending[t].class /\ x = pending[t].ptr
    OBVIOUS
  <2>4. c \in Class
    BY <2>1, <2>3, CallTypes DEF ListsInv
  <2>5. x \in Out(c)
    BY <2>3, <2>4, OutElements
  <2>6. Out(c)' = Out(c) \ {x} /\ \A d \in Class \ {c} : Out(d)' = Out(d)
    BY <2>1, <2>2, <2>3, OutWithout
  <2> QED
    BY <2>4, <2>5, <2>6, GivesBack
<1>6. CASE begin_teardown
  <2>1. /\ \A c \in Class : held'[c] = {}
        /\ \A t \in Thread : pending'[t] = NoCall
    BY <1>6 DEF begin_teardown
  <2>2. \A c \in Class : Out(c)' = {}
    <3> TAKE c \in Class
    <3>1. \A t \in Thread : pending'[t].class # c
      BY <2>1, NoCallClass, ConstantTypes
    <3> QED
      BY <2>1, <3>1, OutElements
  <2>3. Regions' = {}
    BY <2>2, RegionElements
  <2> QED
    BY <2>3 DEF Holders!SpecNext, Holders!Destroy, Regions
<1>7. ASSUME NEW c \in Class, destructor_step(c) PROVE Regions' = Regions
  BY <1>1, <1>7 DEF destructor_step
<1>8. CASE page_heap_destructor
  BY <1>1, <1>8 DEF page_heap_destructor
<1>9. CASE UNCHANGED listvars
  BY <1>1, <1>9 DEF listvars
<1> QED
  BY <1>3, <1>4, <1>5, <1>6, <1>7, <1>8, <1>9 DEF ListsNext

(* The lists keep the promise of RegionSpec to their callers: an object    *)
(* they hand out shares no byte with one of any class that is still out,   *)
(* whatever spans are fetched, split, merged and released meanwhile.       *)
THEOREM RegionsKept == ListsSpec => KeepsRegions
<1>1. ListsInit => Holders!SpecInit
  <2> SUFFICES ASSUME ListsInit PROVE Regions = {}
    BY DEF Holders!SpecInit, Regions
  <2>1. \A c \in Class : Out(c) = {}
    <3> TAKE c \in Class
    <3>1. held[c] = {} /\ \A t \in Thread : pending[t] = NoCall
      BY DEF ListsInit
    <3>2. \A t \in Thread : pending[t].class # c
      BY <3>1, NoCallClass, ConstantTypes
    <3> QED
      BY <3>1, <3>2, OutElements
  <2> QED
    BY <2>1, RegionElements
<1>2. ListsInv /\ ListsInv' /\ [ListsNext]_listvars =>
          [Holders!SpecNext]_(UNION {{<<x, SizeClasses[c].size>> : x \in Out(c)} :
                                        c \in Class})
  BY RegionsStep DEF Regions
<1> QED
  BY <1>1, <1>2, ListsInvariant, PTL DEF ListsSpec, KeepsRegions, Holders!HoldersSpec

=============================================================================
