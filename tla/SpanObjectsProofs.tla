------------------------- MODULE SpanObjectsProofs -------------------------
(***************************************************************************)
(* Proofs about the operators of CentralFreeList that work on the object   *)
(* fields of one span: carving a chunk, taking an object and putting one   *)
(* back keep the unrolled list free of repetitions and its count exact.    *)
(***************************************************************************)
EXTENDS CentralFreeList, FiniteSetTheorems, SequenceTheorems, TLAPS

-----------------------------------------------------------------------------
(* Arithmetic *)

LEMMA Monotone ==
    ASSUME NEW a \in Int, NEW b \in Int, NEW w \in Nat, a <= b
    PROVE  a * w <= b * w
OBVIOUS

LEMMA DivBounds ==
    ASSUME NEW n \in Nat, NEW w \in Nat \ {0}
    PROVE  /\ n \div w \in Nat
           /\ (n \div w) * w <= n
           /\ n < (n \div w) * w + w
OBVIOUS

LEMMA Remainder ==
    ASSUME NEW n \in Nat, NEW w \in Nat \ {0}
    PROVE  n % w \in 0 .. w - 1 /\ n = (n \div w) * w + (n % w)
OBVIOUS

LEMMA UniqueQuotient ==
    ASSUME NEW w \in Nat \ {0},
           NEW q \in Nat, NEW r \in Nat, NEW p \in Nat, NEW t \in Nat,
           r < w, t < w, q * w + r = p * w + t
    PROVE  q = p /\ r = t
OBVIOUS

LEMMA PackCapacity ==
    ASSUME NEW size \in Nat
    PROVE  pack_capacity(size) \in Nat
<1>1. CASE size < NodeBytes
  BY <1>1 DEF pack_capacity
<1>2. CASE ~(size < NodeBytes)
  <2>1. size - NodeBytes \in Nat /\ IndexBytes \in Nat \ {0}
    BY <1>2, CentralFreeListAssumption
  <2>2. (size - NodeBytes) \div IndexBytes \in Nat
    BY <2>1, DivBounds
  <2> QED
    BY <1>2, <2>2 DEF pack_capacity, uint16
<1> QED
  BY <1>1, <1>2

-----------------------------------------------------------------------------
(* The unrolled list.  Entry 0 of a node is the object it lives in, the    *)
(* others are the indexes packed into it.                                  *)

Node == [idx : Nat, slots : Seq(Nat)]

Fields == [total_objects : Nat, num_free_objects : Nat,
           next_uninitialized : Nat, freelist : Seq(Node)]

Entry(node, k) == IF k = 0 THEN node.idx ELSE node.slots[k]

Entries(node) == 0 .. Len(node.slots)

(* x is somewhere in the list f.                                           *)
InList(f, x) ==
    \E i \in 1 .. Len(f) : \E k \in Entries(f[i]) : x = Entry(f[i], k)

(* No index is twice in the list f.                                        *)
NoRepetition(f) ==
    \A i, j \in 1 .. Len(f) :
        \A k \in Entries(f[i]), m \in Entries(f[j]) :
            Entry(f[i], k) = Entry(f[j], m) => i = j /\ k = m

LEMMA NodeEntries ==
    ASSUME NEW node \in Node
    PROVE  \A x : x \in NodeObjects(node)
                    <=> \E k \in Entries(node) : x = Entry(node, k)
<1>1. node.slots \in Seq(Nat)
  BY DEF Node
<1>2. DOMAIN node.slots = 1 .. Len(node.slots) /\ Len(node.slots) \in Nat
  BY <1>1, LenProperties
<1>3. ASSUME NEW x, x \in NodeObjects(node)
      PROVE  \E k \in Entries(node) : x = Entry(node, k)
  <2>1. CASE x = node.idx
    BY <1>2, <2>1 DEF Entries, Entry
  <2>2. CASE x # node.idx
    <3>1. PICK i \in 1 .. Len(node.slots) : x = node.slots[i]
      BY <1>2, <1>3, <2>2 DEF NodeObjects
    <3>2. i \in Entries(node) /\ i # 0
      BY <1>2 DEF Entries
    <3> QED
      BY <3>1, <3>2 DEF Entry
  <2> QED
    BY <2>1, <2>2
<1>4. ASSUME NEW x, NEW k \in Entries(node), x = Entry(node, k)
      PROVE  x \in NodeObjects(node)
  <2>1. CASE k = 0
    BY <1>4, <2>1 DEF Entry, NodeObjects
  <2>2. CASE k # 0
    <3>1. k \in DOMAIN node.slots
      BY <1>2, <2>2 DEF Entries
    <3>2. x = node.slots[k]
      BY <1>4, <2>2 DEF Entry
    <3> QED
      BY <3>1, <3>2 DEF NodeObjects
  <2> QED
    BY <2>1, <2>2
<1> QED
  BY <1>3, <1>4

LEMMA FreeListed ==
    ASSUME NEW o, o.freelist \in Seq(Node)
    PROVE  \A x : x \in FreeIndexes(o) <=> InList(o.freelist, x)
<1> DEFINE f == o.freelist
<1>1. DOMAIN f = 1 .. Len(f)
  BY LenProperties
<1>2. \A i \in 1 .. Len(f) : f[i] \in Node
  BY ElementOfSeq
<1>3. \A x : x \in FreeIndexes(o)
               <=> \E i \in 1 .. Len(f) : x \in NodeObjects(f[i])
  BY <1>1, Zenon DEF FreeIndexes
<1>4. \A x : \A i \in 1 .. Len(f) :
          x \in NodeObjects(f[i]) <=> \E k \in Entries(f[i]) : x = Entry(f[i], k)
  BY <1>2, NodeEntries
<1> QED
  BY <1>3, <1>4, Zenon DEF InList

(* The objects that were carved and are not free.                          *)
UsedIndexes(o) == (0 .. o.next_uninitialized - 1) \ FreeIndexes(o)

(* What always holds of the object fields of a span.                       *)
FieldsOK(o) ==
    /\ o \in Fields
    /\ o.next_uninitialized <= o.total_objects
    /\ FreeIndexes(o) \subseteq 0 .. o.next_uninitialized - 1
    /\ NoRepetition(o.freelist)
    /\ o.num_free_objects = Cardinality(FreeIndexes(o))

LEMMA FreeFinite ==
    ASSUME NEW o, FieldsOK(o)
    PROVE  /\ IsFiniteSet(FreeIndexes(o))
           /\ Cardinality(FreeIndexes(o)) \in Nat
<1>1. o.next_uninitialized \in Nat
  BY DEF FieldsOK, Fields
<1>2. IsFiniteSet(0 .. o.next_uninitialized - 1)
  BY <1>1, FS_Interval
<1>3. FreeIndexes(o) \subseteq 0 .. o.next_uninitialized - 1
  BY DEF FieldsOK
<1>4. IsFiniteSet(FreeIndexes(o))
  BY <1>2, <1>3, FS_Subset
<1> QED
  BY <1>4, FS_CardinalityType

-----------------------------------------------------------------------------
(* Taking an object from the list and putting one back *)

LEMMA ReplaceHead ==
    ASSUME NEW f \in Seq(Node), f # <<>>, NEW n \in Node
    PROVE  LET g == <<n>> \o Tail(f) IN
           /\ g \in Seq(Node) /\ Len(g) = Len(f)
           /\ g[1] = n /\ \A i \in 2 .. Len(f) : g[i] = f[i]
<1>1. /\ Tail(f) \in Seq(Node) /\ Len(Tail(f)) = Len(f) - 1
      /\ \A i \in 1 .. Len(Tail(f)) : Tail(f)[i] = f[i + 1]
  BY HeadTailProperties
<1>2. /\ <<n>> \in Seq(Node) /\ Len(<<n>>) = 1 /\ <<n>>[1] = n
  OBVIOUS
<1>3. /\ <<n>> \o Tail(f) \in Seq(Node)
      /\ Len(<<n>> \o Tail(f)) = 1 + Len(Tail(f))
      /\ \A i \in 1 .. 1 + Len(Tail(f)) : (<<n>> \o Tail(f))[i] =
            IF i <= 1 THEN <<n>>[i] ELSE Tail(f)[i - 1]
  BY <1>1, <1>2, ConcatProperties
<1>4. Len(f) \in Nat \ {0}
  BY LenProperties, EmptySeq
<1> QED
  BY <1>1, <1>2, <1>3, <1>4

LEMMA WithoutLast ==
    ASSUME NEW S, NEW s \in Seq(S), NEW n \in Nat \ {0}, Len(s) = n
    PROVE  LET r == SubSeq(s, 1, n - 1) IN
           /\ r \in Seq(S) /\ Len(r) = n - 1
           /\ \A k \in 1 .. n - 1 : r[k] = s[k]
<1>1. \A k \in 1 .. n - 1 : k \in 1 .. n
  OBVIOUS
<1>2. \A k \in 1 .. n - 1 : s[k] \in S
  BY <1>1, ElementOfSeq
<1>3. /\ SubSeq(s, 1, n - 1) \in Seq(S)
      /\ Len(SubSeq(s, 1, n - 1)) =
            IF 1 <= n - 1 THEN (n - 1) - 1 + 1 ELSE 0
      /\ \A k \in 1 .. (n - 1) - 1 + 1 : SubSeq(s, 1, n - 1)[k] = s[1 + k - 1]
  BY <1>2, SubSeqProperties
<1>4. (n - 1) - 1 + 1 = n - 1 /\ \A k \in 1 .. n - 1 : 1 + k - 1 = k
  OBVIOUS
<1> QED
  BY <1>3, <1>4

LEMMA AddHead ==
    ASSUME NEW f \in Seq(Node), NEW n \in Node
    PROVE  LET g == <<n>> \o f IN
           /\ g \in Seq(Node) /\ Len(g) = Len(f) + 1
           /\ g[1] = n /\ \A i \in 1 .. Len(f) : g[i + 1] = f[i]
<1>1. /\ <<n>> \in Seq(Node) /\ Len(<<n>>) = 1 /\ <<n>>[1] = n
  OBVIOUS
<1>2. Len(f) \in Nat
  BY LenProperties
<1>3. /\ <<n>> \o f \in Seq(Node)
      /\ Len(<<n>> \o f) = 1 + Len(f)
      /\ \A i \in 1 .. 1 + Len(f) : (<<n>> \o f)[i] =
            IF i <= 1 THEN <<n>>[i] ELSE f[i - 1]
  BY <1>1, ConcatProperties
<1> QED
  BY <1>1, <1>2, <1>3

(* f is g with one more entry, x.                                          *)
OneMore(f, g, x) ==
    /\ \A y : InList(f, y) <=> InList(g, y) \/ y = x
    /\ NoRepetition(f) <=> NoRepetition(g) /\ ~InList(g, x)

(* The last index packed into the first node of f is x; g lacks it.        *)
LastSlot(f, g, x) ==
    /\ Len(f) \in Nat \ {0} /\ Len(g) = Len(f)
    /\ \A i \in 2 .. Len(f) : g[i] = f[i]
    /\ g[1].idx = f[1].idx
    /\ Len(f[1].slots) \in Nat \ {0}
    /\ Len(g[1].slots) = Len(f[1].slots) - 1
    /\ \A k \in 1 .. Len(g[1].slots) : g[1].slots[k] = f[1].slots[k]
    /\ x = f[1].slots[Len(f[1].slots)]

(* The first node of f is x and holds no indexes; g lacks the node.        *)
LastNode(f, g, x) ==
    /\ Len(g) \in Nat /\ Len(f) = Len(g) + 1
    /\ \A i \in 1 .. Len(g) : f[i + 1] = g[i]
    /\ Len(f[1].slots) = 0
    /\ x = f[1].idx

LEMMA LastSlotMore ==
    ASSUME NEW f, NEW g, NEW x, LastSlot(f, g, x)
    PROVE  OneMore(f, g, x)
<1> DEFINE n == Len(f[1].slots)
<1>1. Len(g) = Len(f) /\ 1 \in 1 .. Len(f)
  BY DEF LastSlot
<1>2. \A i \in 1 .. Len(f) : \A k :
          k \in Entries(f[i]) <=> k \in Entries(g[i]) \/ (i = 1 /\ k = n)
  BY DEF LastSlot, Entries
<1>3. n \notin Entries(g[1])
  BY DEF LastSlot, Entries
<1>4. \A i \in 1 .. Len(f) : \A k \in Entries(g[i]) :
          Entry(g[i], k) = Entry(f[i], k)
  BY DEF LastSlot, Entries, Entry
<1>5. Entry(f[1], n) = x
  BY DEF LastSlot, Entry
<1> HIDE DEF n
<1>6. \A y : InList(f, y) <=> InList(g, y) \/ y = x
  BY <1>1, <1>2, <1>4, <1>5 DEF InList
<1>7. ASSUME NoRepetition(f) PROVE NoRepetition(g)
  <2> SUFFICES ASSUME NEW i \in 1 .. Len(g), NEW j \in 1 .. Len(g),
                      NEW k \in Entries(g[i]), NEW m \in Entries(g[j]),
                      Entry(g[i], k) = Entry(g[j], m)
               PROVE  i = j /\ k = m
    BY DEF NoRepetition
  <2>1. /\ i \in 1 .. Len(f) /\ j \in 1 .. Len(f)
        /\ k \in Entries(f[i]) /\ m \in Entries(f[j])
    BY <1>1, <1>2
  <2>2. Entry(f[i], k) = Entry(f[j], m)
    BY <1>4, <2>1
  <2> QED
    BY <1>7, <2>1, <2>2, Zenon DEF NoRepetition
<1>8. ASSUME NoRepetition(f), InList(g, x) PROVE FALSE
  <2>1. PICK i \in 1 .. Len(g) : \E k \in Entries(g[i]) : x = Entry(g[i], k)
    BY <1>8 DEF InList
  <2>2. PICK k \in Entries(g[i]) : x = Entry(g[i], k)
    BY <2>1
  <2>3. i \in 1 .. Len(f) /\ k \in Entries(f[i]) /\ n \in Entries(f[1])
    BY <1>1, <1>2
  <2>4. Entry(f[i], k) = Entry(f[1], n)
    BY <1>4, <1>5, <2>2, <2>3
  <2>5. i = 1 /\ k = n
    BY <1>1, <1>8, <2>3, <2>4, Zenon DEF NoRepetition
  <2> QED
    BY <1>3, <2>5
<1>9. ASSUME NoRepetition(g), ~InList(g, x) PROVE NoRepetition(f)
  <2> SUFFICES ASSUME NEW i \in 1 .. Len(f), NEW j \in 1 .. Len(f),
                      NEW k \in Entries(f[i]), NEW m \in Entries(f[j]),
                      Entry(f[i], k) = Entry(f[j], m)
               PROVE  i = j /\ k = m
    BY DEF NoRepetition
  <2>1. CASE k \in Entries(g[i]) /\ m \in Entries(g[j])
    <3>1. Entry(g[i], k) = Entry(g[j], m)
      BY <1>4, <2>1
    <3>2. i \in 1 .. Len(g) /\ j \in 1 .. Len(g)
      BY <1>1
    <3> QED
      BY <1>9, <2>1, <3>1, <3>2, Zenon DEF NoRepetition
  <2>2. CASE k \notin Entries(g[i])
    <3>1. Entry(f[i], k) = x /\ i = 1 /\ k = n
      BY <1>2, <1>5, <2>2
    <3>2. m \notin Entries(g[j])
      BY <1>1, <1>4, <1>9, <3>1 DEF InList
    <3> QED
      BY <1>2, <3>1, <3>2
  <2>3. CASE m \notin Entries(g[j])
    <3>1. Entry(f[j], m) = x /\ j = 1 /\ m = n
      BY <1>2, <1>5, <2>3
    <3>2. k \notin Entries(g[i])
      BY <1>1, <1>4, <1>9, <3>1 DEF InList
    <3> QED
      BY <1>2, <3>1, <3>2
  <2> QED
    BY <2>1, <2>2, <2>3
<1> QED
  BY <1>6, <1>7, <1>8, <1>9 DEF OneMore

LEMMA LastNodeMore ==
    ASSUME NEW f, NEW g, NEW x, LastNode(f, g, x)
    PROVE  OneMore(f, g, x)
<1>1. /\ Len(g) \in Nat /\ Len(f) = Len(g) + 1
      /\ \A i \in 1 .. Len(g) : i + 1 \in 1 .. Len(f) /\ f[i + 1] = g[i]
  BY DEF LastNode
<1>2. \A i \in 1 .. Len(f) :
          i # 1 => i - 1 \in 1 .. Len(g) /\ f[i] = g[i - 1]
  <2> TAKE i \in 1 .. Len(f)
  <2>1. i = 1 \/ i - 1 \in 1 .. Len(g)
    BY <1>1
  <2>2. i - 1 \in 1 .. Len(g) => f[(i - 1) + 1] = g[i - 1]
    BY <1>1, Zenon
  <2>3. (i - 1) + 1 = i
    OBVIOUS
  <2> QED
    BY <2>1, <2>2, <2>3, Zenon
<1>3. Entries(f[1]) = {0} /\ Entry(f[1], 0) = x /\ 1 \in 1 .. Len(f)
  BY DEF LastNode, Entries, Entry
<1>4. \A y : InList(f, y) <=> InList(g, y) \/ y = x
  <2>1. ASSUME NEW y, InList(f, y) PROVE InList(g, y) \/ y = x
    BY <1>2, <1>3, <2>1 DEF InList
  <2>2. ASSUME NEW y, InList(g, y) PROVE InList(f, y)
    BY <1>1, <2>2 DEF InList
  <2>3. InList(f, x)
    BY <1>3 DEF InList
  <2> QED
    BY <2>1, <2>2, <2>3
<1>5. ASSUME NoRepetition(f) PROVE NoRepetition(g)
  <2> SUFFICES ASSUME NEW i \in 1 .. Len(g), NEW j \in 1 .. Len(g),
                      NEW k \in Entries(g[i]), NEW m \in Entries(g[j]),
                      Entry(g[i], k) = Entry(g[j], m)
               PROVE  i = j /\ k = m
    BY DEF NoRepetition
  <2>1. i + 1 = j + 1 /\ k = m
    BY <1>1, <1>5 DEF NoRepetition
  <2> QED
    BY <2>1
<1>6. ASSUME NoRepetition(f), InList(g, x) PROVE FALSE
  <2>1. PICK i \in 1 .. Len(g) : \E k \in Entries(g[i]) : x = Entry(g[i], k)
    BY <1>6 DEF InList
  <2>2. i + 1 = 1
    BY <1>1, <1>3, <1>6, <2>1 DEF NoRepetition
  <2> QED
    BY <2>2
<1>7. ASSUME NoRepetition(g), ~InList(g, x) PROVE NoRepetition(f)
  <2> SUFFICES ASSUME NEW i \in 1 .. Len(f), NEW j \in 1 .. Len(f),
                      NEW k \in Entries(f[i]), NEW m \in Entries(f[j]),
                      Entry(f[i], k) = Entry(f[j], m)
               PROVE  i = j /\ k = m
    BY DEF NoRepetition
  <2>1. CASE i = 1 /\ j = 1
    BY <1>3, <2>1
  <2>2. CASE i # 1 /\ j # 1
    <3>1. PICK a \in 1 .. Len(g) : a = i - 1 /\ f[i] = g[a]
      BY <1>2, <2>2
    <3>2. PICK b \in 1 .. Len(g) : b = j - 1 /\ f[j] = g[b]
      BY <1>2, <2>2
    <3>3. /\ k \in Entries(g[a]) /\ m \in Entries(g[b])
          /\ Entry(g[a], k) = Entry(g[b], m)
      BY <3>1, <3>2
    <3>4. a = b /\ k = m
      BY <1>7, <3>3 DEF NoRepetition
    <3> QED
      BY <3>1, <3>2, <3>4
  <2>3. CASE i = 1 /\ j # 1
    BY <1>2, <1>3, <1>7, <2>3 DEF InList
  <2>4. CASE i # 1 /\ j = 1
    BY <1>2, <1>3, <1>7, <2>4 DEF InList
  <2> QED
    BY <2>1, <2>2, <2>3, <2>4
<1> QED
  BY <1>4, <1>5, <1>6, <1>7 DEF OneMore

(* q is o without the free object x.                                       *)
Took(o, q, x) ==
    /\ x \in FreeIndexes(o)
    /\ FreeIndexes(q) = FreeIndexes(o) \ {x}
    /\ q.total_objects = o.total_objects
    /\ q.next_uninitialized = o.next_uninitialized
    /\ q.num_free_objects = o.num_free_objects - 1

(* allocate takes one object off the list, and no other.                   *)
LEMMA PoppedOK ==
    ASSUME NEW o, FieldsOK(o), o.freelist # <<>>
    PROVE  FieldsOK(popped(o)) /\ Took(o, popped(o), popped_index(o))
<1> DEFINE f == o.freelist
           head == Head(f)
           x == popped_index(o)
           g == popped(o).freelist
           n == Len(head.slots)
<1>1. /\ f \in Seq(Node) /\ o \in Fields /\ o.num_free_objects \in Nat
      /\ o.next_uninitialized \in Nat /\ o.total_objects \in Nat
  BY DEF FieldsOK, Fields
<1>2. /\ head = f[1] /\ head \in Node /\ Tail(f) \in Seq(Node)
      /\ Len(f) \in Nat \ {0} /\ Len(Tail(f)) = Len(f) - 1
      /\ \A i \in 1 .. Len(Tail(f)) : Tail(f)[i] = f[i + 1]
  BY <1>1, HeadTailProperties, LenProperties, EmptySeq
<1>3. /\ head.slots \in Seq(Nat) /\ head.idx \in Nat /\ n \in Nat
      /\ head.slots # <<>> => n # 0
      /\ head.slots = <<>> => n = 0
  BY <1>2, LenProperties, EmptySeq DEF Node
<1>4. /\ popped(o).total_objects = o.total_objects
      /\ popped(o).next_uninitialized = o.next_uninitialized
      /\ popped(o).num_free_objects = o.num_free_objects - 1
      /\ g = IF head.slots # <<>>
             THEN <<[head EXCEPT !.slots = SubSeq(@, 1, n - 1)]>> \o Tail(f)
             ELSE Tail(f)
      /\ popped(o) = [total_objects |-> o.total_objects,
                      num_free_objects |-> o.num_free_objects - 1,
                      next_uninitialized |-> o.next_uninitialized,
                      freelist |-> g]
  <2> DEFINE r == IF head.slots # <<>>
                  THEN <<[head EXCEPT !.slots = SubSeq(@, 1, n - 1)]>> \o Tail(f)
                  ELSE Tail(f)
  <2>1. popped(o) = [o EXCEPT !.freelist = r,
                              !.num_free_objects = o.num_free_objects - 1]
    BY DEF popped
  <2> HIDE DEF r
  <2>2. popped(o) = [total_objects |-> o.total_objects,
                     num_free_objects |-> o.num_free_objects - 1,
                     next_uninitialized |-> o.next_uninitialized,
                     freelist |-> r]
    BY <1>1, <2>1 DEF Fields
  <2>3. g = r
    BY <2>2
  <2> QED
    BY <2>2, <2>3 DEF r
<1>5. g \in Seq(Node) /\ OneMore(f, g, x)
  <2>1. CASE head.slots # <<>>
    <3> DEFINE rest == SubSeq(head.slots, 1, n - 1)
               node == [head EXCEPT !.slots = rest]
    <3>1. n \in Nat \ {0} /\ x = head.slots[n]
      BY <1>3, <2>1 DEF popped_index
    <3>2. /\ rest \in Seq(Nat) /\ Len(rest) = n - 1
          /\ \A k \in 1 .. n - 1 : rest[k] = head.slots[k]
      BY <1>3, <3>1, WithoutLast
    <3> HIDE DEF rest
    <3>3. node \in Node /\ node.slots = rest /\ node.idx = head.idx
      BY <1>2, <3>2 DEF Node
    <3> HIDE DEF node
    <3>4. g = <<node>> \o Tail(f)
      BY <1>4, <2>1 DEF node, rest
    <3>5. /\ g \in Seq(Node) /\ Len(g) = Len(f)
          /\ g[1] = node /\ \A i \in 2 .. Len(f) : g[i] = f[i]
      BY <1>1, <3>3, <3>4, ReplaceHead
    <3> HIDE DEF g, x
    <3>6. LastSlot(f, g, x)
      BY <1>2, <3>1, <3>2, <3>3, <3>5 DEF LastSlot
    <3> QED
      BY <3>5, <3>6, LastSlotMore
  <2>2. CASE head.slots = <<>>
    <3>1. g = Tail(f) /\ x = head.idx /\ n = 0
      BY <1>3, <1>4, <2>2 DEF popped_index
    <3> HIDE DEF g, x
    <3>2. LastNode(f, g, x)
      BY <1>2, <3>1 DEF LastNode
    <3> QED
      BY <1>2, <3>1, <3>2, LastNodeMore
  <2> QED
    BY <2>1, <2>2
<1> HIDE DEF g, x
<1>6. /\ \A y : y \in FreeIndexes(o) <=> InList(f, y)
      /\ \A y : y \in FreeIndexes(popped(o)) <=> InList(g, y)
  BY <1>1, <1>5, FreeListed DEF g
<1>7. NoRepetition(g) /\ ~InList(g, x)
  BY <1>5 DEF FieldsOK, OneMore
<1>8. x \in FreeIndexes(o) /\ FreeIndexes(popped(o)) = FreeIndexes(o) \ {x}
  BY <1>5, <1>6, <1>7 DEF OneMore
<1>9. /\ Cardinality(FreeIndexes(popped(o))) = Cardinality(FreeIndexes(o)) - 1
      /\ Cardinality(FreeIndexes(popped(o))) \in Nat
  BY <1>8, FreeFinite, FS_RemoveElement, FS_CardinalityType
<1>10. o.num_free_objects = Cardinality(FreeIndexes(o))
  BY DEF FieldsOK
<1>11. popped(o) \in Fields
  BY <1>1, <1>4, <1>5, <1>9, <1>10 DEF Fields
<1>12. FieldsOK(popped(o))
  BY <1>4, <1>7, <1>8, <1>9, <1>10, <1>11 DEF FieldsOK, g
<1> QED
  BY <1>4, <1>8, <1>12 DEF Took, x

(* deallocate puts one object back on the list, packed or as a node.       *)
LEMMA PushedOK ==
    ASSUME NEW o, FieldsOK(o), NEW x \in UsedIndexes(o), NEW size \in Nat
    PROVE  /\ FieldsOK(pushed(o, x, size))
           /\ Took(pushed(o, x, size), o, x)
<1> DEFINE f == o.freelist
           q == pushed(o, x, size)
           g == q.freelist
<1>1. /\ f \in Seq(Node) /\ o \in Fields /\ o.num_free_objects \in Nat
      /\ o.next_uninitialized \in Nat /\ o.total_objects \in Nat
  BY DEF FieldsOK, Fields
<1>2. x \in 0 .. o.next_uninitialized - 1 /\ x \notin FreeIndexes(o) /\ x \in Nat
  BY <1>1 DEF UsedIndexes
<1>3. /\ q.total_objects = o.total_objects
      /\ q.next_uninitialized = o.next_uninitialized
      /\ q.num_free_objects = o.num_free_objects + 1
      /\ g = IF packs(o, size)
             THEN <<[Head(f) EXCEPT !.slots = Append(@, x)]>> \o Tail(f)
             ELSE <<[idx |-> x, slots |-> <<>>]>> \o f
      /\ q = [total_objects |-> o.total_objects,
              num_free_objects |-> o.num_free_objects + 1,
              next_uninitialized |-> o.next_uninitialized,
              freelist |-> g]
  <2> DEFINE r == IF packs(o, size)
                  THEN <<[Head(f) EXCEPT !.slots = Append(@, x)]>> \o Tail(f)
                  ELSE <<[idx |-> x, slots |-> <<>>]>> \o f
  <2>1. q = [o EXCEPT !.freelist = r,
                      !.num_free_objects = o.num_free_objects + 1]
    BY DEF pushed
  <2> HIDE DEF r, q
  <2>2. q = [total_objects |-> o.total_objects,
             num_free_objects |-> o.num_free_objects + 1,
             next_uninitialized |-> o.next_uninitialized,
             freelist |-> r]
    BY <1>1, <2>1 DEF Fields
  <2>3. g = r
    BY <2>2
  <2> QED
    BY <2>2, <2>3 DEF r
<1> HIDE DEF q
<1>4. g \in Seq(Node) /\ OneMore(g, f, x)
  <2>1. CASE packs(o, size)
    <3> DEFINE head == Head(f)
               n == Len(head.slots)
               more == Append(head.slots, x)
               node == [head EXCEPT !.slots = more]
    <3>1. /\ f # <<>> /\ head = f[1] /\ head \in Node
          /\ Len(f) \in Nat \ {0}
      BY <1>1, <2>1, HeadTailProperties, LenProperties, EmptySeq DEF packs
    <3>2. head.slots \in Seq(Nat) /\ n \in Nat
      BY <3>1, LenProperties DEF Node
    <3>3. /\ more \in Seq(Nat) /\ Len(more) = n + 1
          /\ \A k \in 1 .. n : more[k] = head.slots[k]
          /\ more[n + 1] = x
      BY <1>2, <3>2, AppendProperties
    <3> HIDE DEF more
    <3>4. node \in Node /\ node.slots = more /\ node.idx = head.idx
      BY <3>1, <3>3 DEF Node
    <3> HIDE DEF node
    <3>5. g = <<node>> \o Tail(f)
      BY <1>3, <2>1 DEF node, more
    <3>6. /\ g \in Seq(Node) /\ Len(g) = Len(f)
          /\ g[1] = node /\ \A i \in 2 .. Len(f) : g[i] = f[i]
      BY <1>1, <3>1, <3>4, <3>5, ReplaceHead
    <3> HIDE DEF g, n
    <3>7. LastSlot(g, f, x)
      <4>1. Len(more) - 1 = n /\ Len(more) \in Nat \ {0}
        BY <3>2, <3>3
      <4>2. n = Len(f[1].slots)
        BY <3>1 DEF n
      <4> QED
        BY <3>1, <3>3, <3>4, <3>6, <4>1, <4>2 DEF LastSlot
    <3> QED
      BY <3>6, <3>7, LastSlotMore
  <2>2. CASE ~packs(o, size)
    <3> DEFINE node == [idx |-> x, slots |-> <<>>]
    <3>1. g = <<node>> \o f
      BY <1>3, <2>2
    <3>2. node \in Node /\ node.idx = x /\ Len(node.slots) = 0
      BY <1>2 DEF Node
    <3> HIDE DEF node
    <3>3. /\ g \in Seq(Node) /\ Len(g) = Len(f) + 1
          /\ g[1] = node /\ \A i \in 1 .. Len(f) : g[i + 1] = f[i]
      BY <1>1, <3>1, <3>2, AddHead
    <3>4. Len(f) \in Nat
      BY <1>1, LenProperties
    <3> HIDE DEF g
    <3>5. LastNode(g, f, x)
      BY <3>2, <3>3, <3>4 DEF LastNode
    <3> QED
      BY <3>3, <3>5, LastNodeMore
  <2> QED
    BY <2>1, <2>2
<1>5. /\ \A y : y \in FreeIndexes(o) <=> InList(f, y)
      /\ \A y : y \in FreeIndexes(q) <=> InList(g, y)
  BY <1>1, <1>4, FreeListed
<1>6. NoRepetition(g)
  BY <1>2, <1>4, <1>5 DEF FieldsOK, OneMore
<1>7. FreeIndexes(q) = FreeIndexes(o) \cup {x}
  BY <1>4, <1>5 DEF OneMore
<1>8. /\ Cardinality(FreeIndexes(q)) = Cardinality(FreeIndexes(o)) + 1
  BY <1>2, <1>7, FreeFinite, FS_AddElement
<1>9. o.num_free_objects = Cardinality(FreeIndexes(o))
  BY DEF FieldsOK
<1>10. q \in Fields
  <2>1. o.num_free_objects + 1 \in Nat
    BY <1>1
  <2> HIDE DEF g
  <2> QED
    BY <1>1, <1>3, <1>4, <2>1 DEF Fields
<1>11. FreeIndexes(q) \subseteq 0 .. q.next_uninitialized - 1
  BY <1>2, <1>3, <1>7 DEF FieldsOK
<1>12. FieldsOK(q)
  BY <1>3, <1>6, <1>8, <1>9, <1>10, <1>11 DEF FieldsOK
<1>13. FreeIndexes(o) = FreeIndexes(q) \ {x} /\ x \in FreeIndexes(q)
  BY <1>2, <1>7
<1>14. o.num_free_objects = q.num_free_objects - 1
  BY <1>1, <1>3
<1> QED
  BY <1>3, <1>12, <1>13, <1>14 DEF Took, q

-----------------------------------------------------------------------------
(* Carving a chunk *)

(* Node number g of the chunk first .. last - 1, as populate_span fills it.*)
ChunkNode(first, last, cap, g) ==
    LET idx == first + g * (cap + 1)
        end == IF idx + cap < last THEN idx + cap ELSE last - 1
    IN  [idx |-> idx, slots |-> [i \in 1 .. end - idx |-> idx + i]]

ChunkList(first, last, cap) ==
    LET groups == (last - first + cap) \div (cap + 1)
    IN  [j \in 1 .. groups |-> ChunkNode(first, last, cap, groups - j)]

(* A node is the run of indexes from lo on, n of them packed.              *)
Run(node, lo, n) ==
    /\ node \in Node
    /\ Entries(node) = 0 .. n
    /\ \A k \in 0 .. n : Entry(node, k) = lo + k

(* As many indexes as fit into the node, or all that are left.             *)
RunUpTo(node, lo, last, cap) ==
    \E n \in 0 .. cap : /\ Run(node, lo, n)
                        /\ lo + n < last
                        /\ n = cap \/ lo + n = last - 1

LEMMA ChunkNodeRun ==
    ASSUME NEW first \in Nat, NEW last \in Nat, NEW cap \in Nat, NEW g \in Nat,
           NEW lo \in Nat, lo = first + g * (cap + 1), lo < last
    PROVE  RunUpTo(ChunkNode(first, last, cap, g), lo, last, cap)
<1> DEFINE end == IF lo + cap < last THEN lo + cap ELSE last - 1
           n == end - lo
           slots == [i \in 1 .. n |-> lo + i]
           node == ChunkNode(first, last, cap, g)
<1>1. node = [idx |-> lo, slots |-> slots]
  BY DEF ChunkNode
<1> HIDE DEF node
<1>2. /\ n \in 0 .. cap /\ lo + n < last
      /\ n = cap \/ lo + n = last - 1
  OBVIOUS
<1> HIDE DEF n
<1>3. \A i \in 1 .. n : lo + i \in Nat
  BY <1>2
<1>4. slots \in Seq(Nat) /\ Len(slots) = n
  BY <1>2, <1>3
<1>5. \A i \in 1 .. n : slots[i] = lo + i
  OBVIOUS
<1> HIDE DEF slots
<1>6. node \in Node /\ node.slots = slots /\ node.idx = lo
  BY <1>1, <1>4 DEF Node
<1>7. Run(node, lo, n)
  BY <1>2, <1>4, <1>5, <1>6 DEF Run, Entries, Entry
<1> QED
  BY <1>2, <1>7 DEF node, RunUpTo

LEMMA ChunkListed ==
    ASSUME NEW first \in Nat, NEW last \in Nat, NEW cap \in Nat, first < last
    PROVE  LET f == ChunkList(first, last, cap) IN
           /\ f \in Seq(Node) /\ f # <<>> /\ NoRepetition(f)
           /\ \A x : InList(f, x) <=> x \in first .. last - 1
<1> DEFINE w == cap + 1
           m == last - first
           G == (m + cap) \div w
           f == ChunkList(first, last, cap)
           lo(g) == first + g * w
<1>1. w \in Nat \ {0} /\ m \in Nat \ {0} /\ m + cap \in Nat
  OBVIOUS
<1>2. G \in Nat /\ G * w <= m + cap /\ m + cap < G * w + w
  BY <1>1, DivBounds
<1>3. f = [j \in 1 .. G |-> ChunkNode(first, last, cap, G - j)]
  BY DEF ChunkList
<1> HIDE DEF f, G
<1>4. G * w \in Nat /\ m <= G * w /\ G * w < m + w
  BY <1>1, <1>2
<1>5. G # 0
  <2>1. G = 0 => G * w = 0
    BY <1>1, <1>2
  <2> QED
    BY <1>1, <1>4, <2>1
<1>6. \A g \in 0 .. G - 1 : g * w \in Nat /\ g * w < m
  <2> TAKE g \in 0 .. G - 1
  <2>1. g * w \in Nat
    BY <1>1, <1>2
  <2>2. (g + 1) * w <= G * w
    BY <1>1, <1>2, Monotone
  <2>3. (g + 1) * w = g * w + w
    BY <1>1, <1>2
  <2> QED
    BY <1>1, <1>4, <2>1, <2>2, <2>3
<1>7. \A g \in 0 .. G - 1 :
         /\ lo(g) \in Nat /\ lo(g) < last
         /\ RunUpTo(ChunkNode(first, last, cap, g), lo(g), last, cap)
  <2> TAKE g \in 0 .. G - 1
  <2>1. lo(g) \in Nat /\ lo(g) < last /\ g \in Nat
    BY <1>1, <1>2, <1>6
  <2> DEFINE z == lo(g)
  <2>2. z \in Nat /\ z < last /\ z = first + g * (cap + 1)
    BY <2>1
  <2> HIDE DEF z
  <2>3. RunUpTo(ChunkNode(first, last, cap, g), z, last, cap)
    BY <2>1, <2>2, ChunkNodeRun
  <2> QED
    BY <2>1, <2>3 DEF z
<1>8. \A j \in 1 .. G : G - j \in 0 .. G - 1
  BY <1>2
<1>9. /\ f \in Seq(Node) /\ Len(f) = G
      /\ \A j \in 1 .. G : f[j] = ChunkNode(first, last, cap, G - j)
  <2>1. \A j \in 1 .. G : ChunkNode(first, last, cap, G - j) \in Node
    BY <1>7, <1>8 DEF Run, RunUpTo
  <2> QED
    BY <1>2, <1>3, <2>1
<1>10. f # <<>>
  BY <1>5, <1>9
(* Node j of the list is the run that starts at lo(G - j).                 *)
<1> DEFINE RunAt(j, n) ==
              /\ Run(f[j], lo(G - j), n)
              /\ lo(G - j) + n < last
              /\ n = cap \/ lo(G - j) + n = last - 1
<1>11. \A j \in 1 .. G : \E n \in 0 .. cap : RunAt(j, n)
  BY <1>7, <1>8, <1>9 DEF RunUpTo
<1>12. NoRepetition(f)
  <2> SUFFICES ASSUME NEW i \in 1 .. G, NEW j \in 1 .. G,
                      NEW k \in Entries(f[i]), NEW h \in Entries(f[j]),
                      Entry(f[i], k) = Entry(f[j], h)
               PROVE  i = j /\ k = h
    BY <1>9 DEF NoRepetition
  <2>1. PICK n \in 0 .. cap : RunAt(i, n)
    BY <1>11
  <2>2. PICK r \in 0 .. cap : RunAt(j, r)
    BY <1>11
  <2>3. k \in 0 .. n /\ h \in 0 .. r
    BY <2>1, <2>2 DEF Run
  <2>4. PICK a \in 0 .. G - 1 : a = G - i
    BY <1>8
  <2>5. PICK b \in 0 .. G - 1 : b = G - j
    BY <1>8
  <2>6. lo(a) + k = lo(b) + h
    BY <2>1, <2>2, <2>3, <2>4, <2>5 DEF Run
  <2>7. /\ k \in Nat /\ h \in Nat /\ k < w /\ h < w
        /\ a \in Nat /\ b \in Nat
    BY <1>1, <1>2, <2>1, <2>2, <2>3
  <2>8. a * w \in Nat /\ b * w \in Nat
    BY <1>6
  <2>9. a * w + k = b * w + h
    BY <2>6, <2>7, <2>8
  <2>10. a = b /\ k = h
    BY <1>1, <2>7, <2>9, UniqueQuotient
  <2> QED
    BY <1>2, <2>4, <2>5, <2>10
<1>13. ASSUME NEW x, InList(f, x) PROVE x \in first .. last - 1
  <2>1. PICK j \in 1 .. G : \E k \in Entries(f[j]) : x = Entry(f[j], k)
    BY <1>9, <1>13 DEF InList
  <2>2. PICK k \in Entries(f[j]) : x = Entry(f[j], k)
    BY <2>1
  <2>3. PICK n \in 0 .. cap : RunAt(j, n)
    BY <1>11
  <2>4. k \in 0 .. n /\ x = lo(G - j) + k
    BY <2>2, <2>3 DEF Run
  <2>5. (G - j) * w \in Nat
    BY <1>6, <1>8
  <2> QED
    BY <2>3, <2>4, <2>5
<1>14. ASSUME NEW x \in first .. last - 1 PROVE InList(f, x)
  <2> DEFINE d == x - first
             g == d \div w
             k == d % w
  <2>1. d \in Nat /\ d < m
    BY <1>1
  <2>2. g \in Nat /\ g * w <= d /\ k \in 0 .. w - 1 /\ d = g * w + k
    BY <1>1, <2>1, DivBounds, Remainder
  <2> HIDE DEF g, k
  <2>3. g < G
    <3>1. G <= g => G * w <= g * w
      BY <1>1, <1>2, <2>2, Monotone
    <3>2. g * w \in Nat
      BY <1>1, <2>2
    <3> QED
      BY <1>1, <1>2, <1>4, <2>1, <2>2, <3>1, <3>2
  <2>4. PICK j \in 1 .. G : G - j = g
    <3>1. G - g \in 1 .. G /\ G - (G - g) = g
      BY <1>2, <2>2, <2>3
    <3> QED
      BY <3>1
  <2>5. PICK n \in 0 .. cap : RunAt(j, n)
    BY <1>11
  <2>6. x = lo(g) + k /\ g * w \in Nat
    BY <1>1, <2>2
  <2>7. k \in 0 .. n
    BY <1>1, <2>2, <2>4, <2>5, <2>6
  <2>8. k \in Entries(f[j]) /\ x = Entry(f[j], k)
    BY <2>4, <2>5, <2>6, <2>7 DEF Run
  <2> QED
    BY <1>9, <2>8 DEF InList
<1> QED
  BY <1>9, <1>10, <1>12, <1>13, <1>14 DEF f

LEMMA EmptyListFree ==
    ASSUME NEW o, o.freelist = <<>>
    PROVE  FreeIndexes(o) = {} /\ NoRepetition(o.freelist)
<1>1. o.freelist \in Seq(Node) /\ Len(o.freelist) = 0
  OBVIOUS
<1>2. \A x : ~InList(o.freelist, x)
  BY <1>1 DEF InList
<1>3. FreeIndexes(o) = {}
  BY <1>1, <1>2, FreeListed
<1> QED
  BY <1>1, <1>3 DEF NoRepetition

(* A span as fetch_from_page_heap leaves it.                               *)
LEMMA FetchedOK ==
    ASSUME NEW count \in Nat
    PROVE  LET o == [NotCarved EXCEPT !.total_objects = count] IN
           /\ FieldsOK(o) /\ o.freelist = <<>> /\ o.total_objects = count
           /\ o.next_uninitialized = 0 /\ o.num_free_objects = 0
           /\ FreeIndexes(o) = {} /\ UsedIndexes(o) = {}
<1> DEFINE o == [NotCarved EXCEPT !.total_objects = count]
<1>1. o = [total_objects |-> count, num_free_objects |-> 0,
           next_uninitialized |-> 0, freelist |-> <<>>]
  BY DEF NotCarved
<1>2. o \in Fields
  <2> DEFINE e == <<>>
  <2>1. e \in Seq(Node)
    BY EmptySeq
  <2> HIDE DEF o
  <2>2. o = [total_objects |-> count, num_free_objects |-> 0,
             next_uninitialized |-> 0, freelist |-> e]
    BY <1>1
  <2> HIDE DEF e
  <2> QED
    BY <2>1, <2>2 DEF Fields
<1>3. /\ o.freelist = <<>> /\ o.total_objects = count
      /\ o.next_uninitialized = 0 /\ o.num_free_objects = 0
  BY <1>1
<1> HIDE DEF o
<1>4. FreeIndexes(o) = {} /\ NoRepetition(o.freelist)
  BY <1>3, EmptyListFree
<1>5. UsedIndexes(o) = {}
  BY <1>3 DEF UsedIndexes
<1>6. FieldsOK(o)
  BY <1>2, <1>3, <1>4, FS_EmptySet DEF FieldsOK
<1> QED
  BY <1>3, <1>4, <1>5, <1>6 DEF o

LEMMA NotCarvedOK ==
    /\ FieldsOK(NotCarved) /\ FreeIndexes(NotCarved) = {}
<1>1. NotCarved = [NotCarved EXCEPT !.total_objects = 0]
  BY DEF NotCarved
<1> QED
  BY <1>1, FetchedOK

(* q is o with more objects carved, all of them free.                      *)
Carved(o, q) ==
    /\ q.total_objects = o.total_objects
    /\ UsedIndexes(q) = UsedIndexes(o)
    /\ q.freelist = <<>> => q = o /\ o.next_uninitialized = o.total_objects

(* populate_span makes every object of the chunk free, once.               *)
LEMMA PopulatedOK ==
    ASSUME NEW o, FieldsOK(o), o.freelist = <<>>, NEW size \in Nat \ {0}
    PROVE  FieldsOK(populate_span(o, size)) /\ Carved(o, populate_span(o, size))
<1> DEFINE q == populate_span(o, size)
           cap == pack_capacity(size)
           first == o.next_uninitialized
           per_chunk == IF PAGE_SIZE \div size > 1 THEN PAGE_SIZE \div size ELSE 1
           last == IF first + per_chunk < o.total_objects
                   THEN first + per_chunk ELSE o.total_objects
           f == ChunkList(first, last, cap)
<1>1. /\ o \in Fields /\ o.num_free_objects = 0
      /\ first \in Nat /\ o.total_objects \in Nat /\ first <= o.total_objects
      /\ FreeIndexes(o) = {}
  BY EmptyListFree, FS_EmptySet DEF FieldsOK, Fields
<1>2. CASE first >= o.total_objects
  <2>1. q = o
    BY <1>2 DEF populate_span
  <2>2. first = o.total_objects
    BY <1>1, <1>2
  <2> QED
    BY <2>1, <2>2 DEF Carved
<1>3. CASE ~(first >= o.total_objects)
  <2>1. cap \in Nat
    BY PackCapacity
  <2>2. per_chunk \in Nat \ {0}
    <3>1. PAGE_SIZE \div size \in Nat
      BY CentralFreeListAssumption, DivBounds
    <3> QED
      BY <3>1
  <2>3. q = [o EXCEPT !.freelist = f \o <<>>,
                      !.num_free_objects = 0 + (last - first),
                      !.next_uninitialized = last]
    BY <1>1, <1>3 DEF populate_span, batch_objects, ChunkList, ChunkNode
  <2> HIDE DEF per_chunk, cap, q
  <2>4. last \in Nat /\ first < last /\ last <= o.total_objects
    BY <1>1, <1>3, <2>2
  <2> HIDE DEF last, f
  <2>5. /\ f \in Seq(Node) /\ f # <<>> /\ NoRepetition(f)
        /\ \A x : InList(f, x) <=> x \in first .. last - 1
    BY <1>1, <2>1, <2>4, ChunkListed DEF f
  <2>6. f \o <<>> = f
    BY <2>5, ConcatEmptySeq
  <2>7. q = [total_objects |-> o.total_objects,
             num_free_objects |-> last - first,
             next_uninitialized |-> last, freelist |-> f]
    <3>1. 0 + (last - first) = last - first
      BY <1>1, <2>4
    <3>2. q = [o EXCEPT !.freelist = f, !.num_free_objects = last - first,
                        !.next_uninitialized = last]
      BY <2>3, <2>6, <3>1
    <3> QED
      BY <1>1, <3>2 DEF Fields
  <2>8. last - first \in Nat
    BY <1>1, <2>4
  <2>9. q \in Fields
    BY <1>1, <2>4, <2>5, <2>7, <2>8 DEF Fields
  <2>10. /\ q.total_objects = o.total_objects /\ q.freelist = f
         /\ q.next_uninitialized = last /\ q.num_free_objects = last - first
    BY <2>7
  <2>11. FreeIndexes(q) = first .. last - 1
    <3>1. \A x : x \in FreeIndexes(q) <=> InList(f, x)
      BY <2>5, <2>10, FreeListed
    <3> QED
      BY <2>5, <3>1
  <2>12. Cardinality(FreeIndexes(q)) = last - first
    <3>1. first \in Int /\ last - 1 \in Int /\ ~(first > last - 1)
          /\ (last - 1) - first + 1 = last - first
      BY <1>1, <2>4
    <3>2. Cardinality(first .. last - 1) =
             IF first > last - 1 THEN 0 ELSE (last - 1) - first + 1
      BY <3>1, FS_Interval
    <3> QED
      BY <2>11, <3>1, <3>2
  <2>13. FreeIndexes(q) \subseteq 0 .. last - 1
    BY <1>1, <2>4, <2>11
  <2>14. UsedIndexes(q) = UsedIndexes(o)
    BY <1>1, <2>4, <2>10, <2>11 DEF UsedIndexes
  <2>15. FieldsOK(q)
    BY <2>4, <2>5, <2>9, <2>10, <2>12, <2>13 DEF FieldsOK
  <2> QED
    BY <2>5, <2>10, <2>14, <2>15 DEF Carved, q
<1> QED
  BY <1>2, <1>3

LEMMA CountBelow ==
    ASSUME NEW n \in Nat
    PROVE  IsFiniteSet(0 .. n - 1) /\ Cardinality(0 .. n - 1) = n
<1>1. /\ n - 1 \in Int /\ (n - 1) - 0 + 1 = n
      /\ 0 > n - 1 => n = 0
  OBVIOUS
<1>2. /\ IsFiniteSet(0 .. n - 1)
      /\ Cardinality(0 .. n - 1) = IF 0 > n - 1 THEN 0 ELSE (n - 1) - 0 + 1
  BY <1>1, FS_Interval
<1> QED
  BY <1>1, <1>2

(* A span is released when none of its objects is in use, and is kept when *)
(* one is, once all have been carved (the two ends of deallocate).         *)
LEMMA FullyFree ==
    ASSUME NEW o, FieldsOK(o)
    PROVE  /\ is_fully_free(o) => UsedIndexes(o) = {}
           /\ ~is_fully_free(o) /\ o.next_uninitialized = o.total_objects
                 => UsedIndexes(o) # {}
<1> DEFINE F == FreeIndexes(o)
           n == o.next_uninitialized
           all == 0 .. n - 1
<1>1. /\ n \in Nat /\ o.total_objects \in Nat /\ n <= o.total_objects
      /\ F \subseteq all /\ o.num_free_objects = Cardinality(F)
  BY DEF FieldsOK, Fields
<1>2. IsFiniteSet(all) /\ Cardinality(all) = n
  BY <1>1, CountBelow
<1>3. /\ Cardinality(F) \in Nat /\ Cardinality(F) <= n
      /\ Cardinality(F) = n => F = all
  BY <1>1, <1>2, FS_Subset, FreeFinite
<1>4. UsedIndexes(o) = all \ F
  BY DEF UsedIndexes
<1> HIDE DEF F, n, all
<1>5. is_fully_free(o) => F = all
  BY <1>1, <1>3 DEF is_fully_free, n
<1>6. ~is_fully_free(o) /\ n = o.total_objects => F # all
  BY <1>1, <1>2 DEF is_fully_free
<1> QED
  BY <1>1, <1>4, <1>5, <1>6 DEF n

(* The count of the entries, with repetitions, is the count of the set.    *)
LEMMA EntriesCounted ==
    ASSUME NEW o, FieldsOK(o)
    PROVE  FreeEntries(o) = Cardinality(FreeIndexes(o))
<1> DEFINE f == o.freelist
           E == UNION {{i} \X (0 .. Len(f[i].slots)) : i \in DOMAIN f}
           F == FreeIndexes(o)
           val == [e \in E |-> Entry(f[e[1]], e[2])]
<1>1. f \in Seq(Node) /\ DOMAIN f = 1 .. Len(f) /\ NoRepetition(f)
  BY LenProperties DEF FieldsOK, Fields
<1>2. \A y : y \in F <=> InList(f, y)
  BY <1>1, FreeListed
<1>3. /\ \A e \in E : e[1] \in 1 .. Len(f) /\ e[2] \in Entries(f[e[1]])
                      /\ e = <<e[1], e[2]>>
      /\ \A i \in 1 .. Len(f) : \A k \in Entries(f[i]) : <<i, k>> \in E
  BY <1>1 DEF Entries
<1> HIDE DEF E
<1>4. \A e \in E : val[e] \in F
  BY <1>2, <1>3 DEF InList
<1>5. val \in [E -> F]
  BY <1>4
<1>6. \A a, b \in E : val[a] = val[b] => a = b
  <2> SUFFICES ASSUME NEW a \in E, NEW b \in E, val[a] = val[b]
               PROVE  a = b
    OBVIOUS
  <2>1. PICK i \in 1 .. Len(f) : i = a[1]
    BY <1>3
  <2>2. PICK k \in Entries(f[i]) : k = a[2]
    BY <1>3, <2>1
  <2>3. PICK j \in 1 .. Len(f) : j = b[1]
    BY <1>3
  <2>4. PICK m \in Entries(f[j]) : m = b[2]
    BY <1>3, <2>3
  <2>5. Entry(f[i], k) = Entry(f[j], m)
    BY <2>1, <2>2, <2>3, <2>4
  <2> HIDE DEF f
  <2>6. i = j /\ k = m
    BY <1>1, <2>5 DEF NoRepetition
  <2> QED
    BY <1>3, <2>1, <2>2, <2>3, <2>4, <2>6
<1>7. \A y \in F : \E e \in E : val[e] = y
  <2> TAKE y \in F
  <2>1. PICK i \in 1 .. Len(f) : \E k \in Entries(f[i]) : y = Entry(f[i], k)
    BY <1>2 DEF InList
  <2>2. PICK k \in Entries(f[i]) : y = Entry(f[i], k)
    BY <2>1
  <2>3. <<i, k>> \in E /\ val[<<i, k>>] = y
    BY <1>3, <2>2
  <2> QED
    BY <2>3
<1> HIDE DEF val
<1>8. val \in Injection(E, F) /\ val \in Surjection(E, F)
  BY <1>5, <1>6, <1>7 DEF Injection, Surjection, IsInjective
<1>9. Cardinality(E) = Cardinality(F)
  BY <1>8, FreeFinite, FS_Injection
<1> QED
  BY <1>9 DEF FreeEntries, E

=============================================================================
